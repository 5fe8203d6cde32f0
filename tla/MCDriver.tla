------------------------------ MODULE MCDriver ------------------------------
(***************************************************************************)
(* Driver on small instances.  The callers are interchangeable.            *)
(***************************************************************************)
EXTENDS Driver

CONSTANTS c1, c2

OneOwnCall == <<FALSE>>

CallAndBatch == <<FALSE, TRUE>>

CallersAlike == Permutations(Callers)

=============================================================================
