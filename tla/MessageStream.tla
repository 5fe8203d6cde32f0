---------------------------- MODULE MessageStream ----------------------------
(***************************************************************************)
(* What a Transport promises its reader (obs-websocket-io/src/transport.rs): *)
(* the messages of the peer, whole, once each and in order.                *)
(***************************************************************************)
EXTENDS Naturals, Sequences

CONSTANT Message    \* what a peer may send

VARIABLES
    sent,       \* the messages the peer has finished
    received    \* those recv() has returned

vars == <<sent, received>>

Init == sent = <<>> /\ received = <<>>

Finish ==
    /\ Len(sent') = Len(sent) + 1
    /\ sent' = Append(sent, sent'[Len(sent')])
    /\ sent'[Len(sent')] \in Message
    /\ UNCHANGED received

Receive ==
    /\ Len(received) < Len(sent)
    /\ received' = Append(received, sent[Len(received) + 1])
    /\ UNCHANGED sent

Next == Finish \/ Receive

Spec == Init /\ [][Next]_vars

=============================================================================
