------------------------- MODULE MCEmbassyTransport -------------------------
(***************************************************************************)
(* EmbassyTransport on small instances, which its own constants bound.     *)
(***************************************************************************)
EXTENDS EmbassyTransport

=============================================================================
