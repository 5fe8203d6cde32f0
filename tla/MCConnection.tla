---------------------------- MODULE MCConnection ----------------------------
(***************************************************************************)
(* Connection on small instances, which its own constants bound.           *)
(***************************************************************************)
EXTENDS Connection

=============================================================================
