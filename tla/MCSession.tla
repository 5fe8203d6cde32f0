----------------------------- MODULE MCSession -----------------------------
(***************************************************************************)
(* Session on small instances.  The histories and the id counter grow      *)
(* without bound; MaxTrace, MaxWire and MaxIds cut them off.               *)
(***************************************************************************)
EXTENDS Session

CONSTANTS MaxTrace, MaxWire, MaxIds

WithinBounds ==
    /\ Len(Trace) <= MaxTrace
    /\ Len(Wire) <= MaxWire
    /\ session.nextId <= MaxIds + 1

MCNext == Next /\ WithinBounds'

MCSpec == Init /\ [][MCNext]_vars

\* States that differ only in how much of Trace and Wire has been polled have
\* the same successors but for that, and no property tells them apart.
Unpolled == <<[session EXCEPT !.events = <<>>, !.outgoing = <<>>], Trace, Wire>>

MCDeadlines == {1, 2, NoDeadline}

=============================================================================
