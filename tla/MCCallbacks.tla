---------------------------- MODULE MCCallbacks ----------------------------
(***************************************************************************)
(* Callbacks on small instances: "any" is registered by on_any(), "typed"  *)
(* by on() for one payload type.                                           *)
(***************************************************************************)
EXTENDS Callbacks

MCPayloads == <<"mute", "scene", "mute">>

MCWants == [any |-> {"mute", "scene"}, typed |-> {"mute"}]

=============================================================================
