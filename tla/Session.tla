------------------------------ MODULE Session ------------------------------
(***************************************************************************)
(* One client session (obs-websocket-core/src/session.rs), driven by a     *)
(* caller that may call any method at any moment and by a server that may  *)
(* send any frame: answers to calls never made, answers of the wrong kind, *)
(* opcodes out of turn, frames that do not decode.                         *)
(*                                                                         *)
(* "surfaced" and "sent" are what poll_event and poll_transmit have        *)
(* returned so far; with the session's own queues they make the histories  *)
(* Trace and Wire, over which the properties are stated.                   *)
(***************************************************************************)
EXTENDS SessionCore

CONSTANTS
    RpcVersions,    \* versions the client supports, or the server reports
    Deadlines,      \* the deadlines requests are given, NoDeadline among them
    Times,          \* the moments at which handle_timeout is called
    ServerIds,      \* the ids the server may name in an answer
    Codes,          \* close codes
    CallIds         \* the calls the ledger below follows

ASSUME SessionAssumption ==
    /\ RpcVersions \subseteq Nat
    /\ Deadlines \subseteq Nat \cup {NoDeadline}
    /\ Times \subseteq Nat
    /\ ServerIds \subseteq Nat
    /\ Codes \subseteq Nat

VARIABLES
    session,          \* the Session
    surfaced,   \* events poll_event has returned
    sent        \* frames poll_transmit has returned

vars == <<session, surfaced, sent>>

Trace == surfaced \o session.events

Wire == sent \o session.outgoing

----------------------------------------------------------------------------

Init ==
    /\ \E password \in BOOLEAN, subs \in Subscriptions, rpc \in RpcVersions :
            session = NewSession(password, subs, rpc)
    /\ surfaced = <<>>
    /\ sent = <<>>

\* The frames a server can send, those it has no business sending included.
\* Fields that an opcode does not carry, or that do not decode, are fixed.
ServerFrames ==
    {m \in [op : {-1, OpHello, OpIdentified, OpReidentify, OpEvent,
                  OpRequestResponse, OpRequestBatchResponse},
            decodes : BOOLEAN, auth : BOOLEAN, rpc : RpcVersions \cup {0},
            id : ServerIds \cup {0}, ok : BOOLEAN] :
        /\ m.auth => m.decodes /\ m.op = OpHello
        /\ m.rpc # 0 => m.decodes /\ m.op \in {OpHello, OpIdentified}
        /\ m.op = OpIdentified /\ m.decodes => m.rpc # 0
        /\ m.id # 0 \/ m.ok =>
                m.decodes /\ m.op \in {OpRequestResponse, OpRequestBatchResponse}}

ReceiveFrame(m, encodes) ==
    /\ session' = HandleMessage(session, m, encodes).session
    /\ UNCHANGED <<surfaced, sent>>

Close(code) ==
    /\ session' = HandleClose(session, code)
    /\ UNCHANGED <<surfaced, sent>>

Tick(now) ==
    /\ session' = HandleTimeout(session, now)
    /\ UNCHANGED <<surfaced, sent>>

Send(deadline, batch, encodes) ==
    /\ session' = Enqueue(session, deadline, batch, encodes).session
    /\ UNCHANGED <<surfaced, sent>>

ChangeSubscriptions(subs, encodes) ==
    /\ session' = Reidentify(session, subs, encodes).session
    /\ UNCHANGED <<surfaced, sent>>

TakeFrame ==
    /\ session.outgoing # <<>>
    /\ session' = PollTransmit(session)
    /\ sent' = Append(sent, Head(session.outgoing))
    /\ UNCHANGED surfaced

TakeEvent ==
    /\ session.events # <<>>
    /\ session' = PollEvent(session)
    /\ surfaced' = Append(surfaced, Head(session.events))
    /\ UNCHANGED sent

Next ==
    \/ \E m \in ServerFrames : ReceiveFrame(m, TRUE)
    \/ \E m \in {f \in ServerFrames : f.op = OpHello} : ReceiveFrame(m, FALSE)
    \/ \E code \in Codes : Close(code)
    \/ \E now \in Times : Tick(now)
    \/ \E deadline \in Deadlines, batch, encodes \in BOOLEAN : Send(deadline, batch, encodes)
    \/ \E subs \in Subscriptions, encodes \in BOOLEAN : ChangeSubscriptions(subs, encodes)
    \/ TakeFrame
    \/ TakeEvent

Spec == Init /\ [][Next]_vars

----------------------------------------------------------------------------
(* Properties.                                                             *)

\* Calls that some event has settled.
Settled == {Trace[i].id : i \in {j \in DOMAIN Trace : IsCompletion(Trace[j])}}

\* Calls whose frame reached the outgoing queue.
Issued == {Wire[i].id : i \in {j \in DOMAIN Wire : IsCall(Wire[j])}}

\* Calls an UnmatchedResponse names.
Misanswered == {Trace[i].id : i \in {j \in DOMAIN Trace : Trace[j].type = "Unmatched"}}

\* The session is well formed - every pending id has been allocated, and
\* calls are pending only while it is Identified - and the histories hold
\* events and frames.
TypeOK ==
    /\ WellFormed(session)
    /\ surfaced \in Seq(SessionEvent)
    /\ sent \in Seq(OutgoingFrame)

\* No call is settled twice, and none is settled while its entry could still
\* settle it again: an answer, its timeout and the close race for one entry.
SettledAtMostOnce ==
    /\ \A i, j \in DOMAIN Trace :
            IsCompletion(Trace[i]) /\ IsCompletion(Trace[j]) /\ Trace[i].id = Trace[j].id
                => i = j
    /\ Settled \cap PendingIds(session) = {}

\* A call on the wire is pending, settled, or was named by an answer that did
\* not match it; and only calls on the wire are pending or settled, each as
\* the kind (single or batch) it was sent as.
CallsAccountedFor ==
    /\ Issued \subseteq PendingIds(session) \cup Settled \cup Misanswered
    /\ \A id \in PendingIds(session) : \E i \in DOMAIN Wire :
            Wire[i] = [op |-> IF session.pending[id].batch THEN OpRequestBatch ELSE OpRequest,
                       id |-> id]
    /\ \A i \in DOMAIN Trace : IsCompletion(Trace[i]) => \E j \in DOMAIN Wire :
            Wire[j] = [op |-> IF Trace[i].type = "BatchResponse"
                              THEN OpRequestBatch ELSE OpRequest,
                       id |-> Trace[i].id]

\* Once the session reports Closed, only further closes and the calls that
\* close cut off are reported: no event, answer or timeout comes after it.
NothingAfterClosed ==
    \A i, j \in DOMAIN Trace :
        i < j /\ Trace[i].type = "Closed" =>
            \/ Trace[j].type = "Closed"
            \/ IsCompletion(Trace[j]) /\ Trace[j].result = "closed"

\* Identified is reported once, and nothing but Closed is reported before it.
IdentifiedComesFirst ==
    \A j \in DOMAIN Trace :
        IF Trace[j].type = "Identified"
        THEN \A i \in 1 .. j - 1 : Trace[i].type # "Identified"
        ELSE Trace[j].type # "Closed" => \E i \in 1 .. j - 1 : Trace[i].type = "Identified"

\* The client's side of the conversation opens with its only Identify, which
\* never answers a challenge there is no password for (OnHello's early return
\* leaves nothing on the wire), and the ids of its calls increase.
WireInOrder ==
    \A j \in DOMAIN Wire :
        /\ (Wire[j].op = OpIdentify) <=> (j = 1)
        /\ Wire[j].op = OpIdentify /\ Wire[j].auth => session.password
        /\ IsCall(Wire[j]) => \A i \in 1 .. j - 1 : IsCall(Wire[i]) => Wire[i].id < Wire[j].id

\* Calls time out in the order of their deadlines: when one does, no call
\* that was due no later stays pending, and a call without a deadline never
\* times out.
TimedOut(id) ==
    \E i \in DOMAIN session.events' \ DOMAIN session.events :
        IsCompletion(session.events'[i]) /\ session.events'[i].id = id /\ session.events'[i].result = "timeout"

DeadlinesInOrder ==
    [][\A id, other \in PendingIds(session) :
            TimedOut(id) =>
                /\ session.pending[id].deadline # NoDeadline
                /\ /\ session.pending[other].deadline # NoDeadline
                   /\ session.pending[other].deadline <= session.pending[id].deadline
                   => other \notin PendingIds(session)']_vars

\* The state of a call as RequestLedger sees it.
CallState(id) ==
    CASE id \in PendingIds(session) -> "open"
      [] id \in Settled ->
            IF \E i \in DOMAIN Trace : /\ IsCompletion(Trace[i])
                                      /\ Trace[i].id = id
                                      /\ Trace[i].result \in {"ok", "status"}
            THEN "answered" ELSE "failed"
      [] id \in Issued \ (PendingIds(session) \cup Settled) -> "dropped"
      [] OTHER -> "idle"

CallStates == [id \in CallIds |-> CallState(id)]

\* The connection as RequestLedger sees it.
ConnState ==
    CASE session.phase = "Identified" -> "up"
      [] session.phase = "Closed" -> "down"
      [] OTHER -> "opening"

Ledger == INSTANCE RequestLedger WITH conn <- ConnState, call <- CallStates

\* The session keeps the ledger: every way a call ends is one move of one
\* entry, and a close fails what is open in the step that closes.
ImplementsLedger == Ledger!Spec

=============================================================================
