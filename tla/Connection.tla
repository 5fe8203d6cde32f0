----------------------------- MODULE Connection -----------------------------
(***************************************************************************)
(* The single-task client of obs-websocket-io/src/connection.rs: a session *)
(* (SessionCore) and an inbox of the events it has produced.  The owner    *)
(* makes one call at a time; while the call is suspended at an await the   *)
(* owner may drop its future, and everything the call has put into the     *)
(* session and the inbox stays behind for the calls that follow.           *)
(*                                                                         *)
(* "at" is the await the call is suspended at:                             *)
(*   flush   transport.send() in the flush before a frame is read          *)
(*   recv    transport.recv(), in a race with the timer for some calls     *)
(*   settle  transport.send() in the flush after a frame was ingested      *)
(* and what runs between two awaits is one action.                         *)
(***************************************************************************)
EXTENDS SessionCore, Subsequences

CONSTANTS
    RequestTimeout,     \* request_timeout_ms, in ticks
    LastStart,          \* no call starts later than this
    MaxCalls,           \* bound on the calls of the owner, connect() included
    MaxEvents,          \* bound on the events of OBS
    MaxInFlight,        \* bound on the frames under way to the client
    MaxGarbage,         \* bound on the frames that do not decode
    Codes,              \* the close codes OBS uses
    ConfirmsReidentify  \* whether OBS answers op 3 with op 2

ASSUME ConnectionAssumption ==
    /\ RequestTimeout \in Nat \ {0}
    /\ LastStart \in Nat
    /\ MaxCalls \in Nat /\ MaxEvents \in Nat /\ MaxInFlight \in Nat
    /\ MaxGarbage \in Nat
    /\ Codes \subseteq Nat
    /\ ConfirmsReidentify \in BOOLEAN

VARIABLES
    conn,       \* [session, inbox]: the fields of Connection
    at,         \* "idle", "flush", "recv", "settle", or "gone" once dropped
    call,       \* the call being made
    sending,    \* the frame a suspended send() holds
    now,        \* the clock
    wake,       \* when the timer raced against recv() fires
    result,     \* how the last call ended
    served,     \* events handed to the owner so far
    link,       \* frames from OBS to the client
    socket,     \* "up"; "closing": OBS sent Close; "closed"; "broken"
    obs,        \* [stage, open]: how far OBS is, and the calls it may answer
    emitted,    \* the number of events OBS has sent
    asked,      \* id -> the calls whose frames carried it
    garbage     \* frames that do not decode, sent so far

client == <<conn, at, call, sending, now, wake, result, served>>
server == <<link, socket, obs, emitted, asked, garbage>>
vars == <<client, server>>

----------------------------------------------------------------------------
(* Calls and how they end.                                                 *)

\* Frame::Close on the link, beside the opcodes of OBS.
WsClose == 10

\* A call is a "connect", "single", "batch", "next", "poll" or "reidentify".  It
\* ends "ok" or with a variant of Error: "timeout", "closed", "auth", "session",
\* "unexpected", "transport", or by what RequestFailure a Request holds
\* "rejected" or "request_closed".

\* Seeded fault: the handshake has no timer.
TimedRequests(k) == k.kind \in {"single", "batch"}

Timed(k) == k.kind \in {"connect", "single", "batch"}

NoCall == [kind |-> "none", no |-> 0, id |-> 0, deadline |-> 0, wait |-> 0]

\* "answer" and "from" are the result and the id of the completion that a call
\* ends with, if it ends with one.
Answerless(outcome) == [outcome |-> outcome, answer |-> "none", from |-> 0]

HasClosed(c) == \E i \in DOMAIN c.inbox : c.inbox[i].type = "Closed"

FirstClosed(c) == SelectSeq(c.inbox, LAMBDA e : e.type = "Closed")[1]

ClosedError(c) ==
    Answerless(IF FirstClosed(c).code = AuthenticationFailed THEN "auth" ELSE "closed")

IsEvent(e) == e.type = "Event"

\* Seeded fault: any answer of the right kind will do.
IsAnyAnswer(e, k) == e.type = IF k.kind = "batch" THEN "BatchResponse" ELSE "Response"

\* The completion wait_single or wait_batch is waiting for.
IsOwn(e, k) ==
    /\ e.type = IF k.kind = "batch" THEN "BatchResponse" ELSE "Response"
    /\ e.id = k.id

\* What the call k looks for in the inbox.
Wanted(e, k) ==
    CASE k.kind = "connect" -> e.type = "Identified"
      [] k.kind = "next" -> IsEvent(e)
      [] OTHER -> IsOwn(e, k)

Has(c, k) == \E i \in DOMAIN c.inbox : Wanted(c.inbox[i], k)

Position(c, k) == SelectInSeq(c.inbox, LAMBDA e : Wanted(e, k))

\* extract(): the first match leaves the inbox, the rest keeps its place.
First(c, k) == c.inbox[Position(c, k)]

Without(c, k) == [c EXCEPT !.inbox = RemoveAt(@, Position(c, k))]

\* Seeded fault: what was in the inbox makes place for what is new.
DrainReplaces(c) == [session |-> [c.session EXCEPT !.events = <<>>],
                     inbox |-> c.session.events]

Drain(c) == [session |-> [c.session EXCEPT !.events = <<>>],
             inbox |-> c.inbox \o c.session.events]

\* take_single and take_batch; a batch that was cut off by a close is Ok with
\* items that failed. What request() takes may not decode into its response.
Completed(k, completion, decodes) ==
    [answer |-> completion.result, from |-> completion.id,
     outcome |-> CASE completion.result = "timeout" -> "timeout"
                   [] completion.result = "ok" /\ (decodes \/ k.kind = "batch") -> "ok"
                   [] completion.result = "ok" /\ ~decodes /\ k.kind # "batch" -> "session"
                   [] completion.result \in {"status", "closed"} /\ k.kind = "batch" -> "ok"
                   [] completion.result = "closed" /\ k.kind # "batch" -> "request_closed"
                   [] OTHER -> "rejected"]

EventIds(events) == [i \in DOMAIN events |-> events[i].id]

EventsOf(c) ==
    EventIds(Subsequence(c.inbox, {i \in DOMAIN c.inbox : IsEvent(c.inbox[i])}))

\* Seeded fault: dispatch() keeps nothing of what it has reported.
DispatchKeepsNothing(c) == [c EXCEPT !.inbox = <<>>]

\* dispatch(): events and op 2 go to the handler; Closed is reported and kept.
Dispatched(c) ==
    [c EXCEPT !.inbox = Subsequence(@, {i \in DOMAIN c.inbox :
                                          c.inbox[i].type \notin {"Event", "Identified"}})]

----------------------------------------------------------------------------
(* From one await to the next.                                             *)

Ended(k, r) ==
    [kind |-> k.kind, no |-> k.no, id |-> k.id, deadline |-> k.deadline,
     outcome |-> r.outcome, answer |-> r.answer, from |-> r.from]

Return(c, k, r) ==
    /\ conn' = c
    /\ at' = IF k.kind = "connect" /\ r.outcome # "ok" THEN "gone" ELSE "idle"
    /\ result' = Ended(k, r)
    /\ call' = NoCall
    /\ UNCHANGED <<sending, wake>>

SendFirst(c, k, place) ==
    /\ conn' = [c EXCEPT !.session = PollTransmit(@)]
    /\ sending' = Head(c.session.outgoing)
    /\ at' = place
    /\ call' = k
    /\ UNCHANGED <<wake, result>>

\* recv_with_timeout and recv_one: flush, then read.  The timer is set once
\* everything is flushed, to what the caller computed before.
FlushThenRecv(c, k) ==
    IF c.session.outgoing # <<>>
    THEN SendFirst(c, k, "flush")
    ELSE /\ conn' = c
         /\ at' = "recv"
         /\ call' = k
         /\ wake' = now + k.wait
         /\ UNCHANGED <<sending, result>>

\* A request ends with its completion, which leaves the inbox.
Complete(c, k) ==
    \E decodes \in BOOLEAN : Return(Without(c, k), k, Completed(k, First(c, k), decodes))

\* Seeded fault: the deadline is looked at before the inbox.
WaitDeadlineFirst(c, k) ==
    LET due == Drain([c EXCEPT !.session = HandleTimeout(@, now)])
    IN  CASE now >= k.deadline -> Return(c, k, Answerless("timeout"))
          [] now < k.deadline /\ Has(c, k) ->
                Complete(c, k)
          [] now < k.deadline /\ ~Has(c, k) /\ HasClosed(c) -> Return(c, k, ClosedError(c))
          [] OTHER -> FlushThenRecv(due, [k EXCEPT !.wait = k.deadline - now])

\* The loop of wait_single and wait_batch.
Wait(c, k) ==
    LET due == Drain([c EXCEPT !.session = HandleTimeout(@, now)])
    IN  CASE Has(c, k) -> Complete(c, k)
          [] ~Has(c, k) /\ HasClosed(c) -> Return(c, k, ClosedError(c))
          [] ~Has(c, k) /\ ~HasClosed(c) /\ Has(due, k) ->
                Complete(due, k)
          [] ~Has(c, k) /\ ~HasClosed(c) /\ ~Has(due, k) /\ now >= k.deadline ->
                Return(due, k, Answerless("timeout"))
          [] OTHER -> FlushThenRecv(due, [k EXCEPT !.wait = k.deadline - now])

\* The loop of drive_until_identified.
AwaitIdentified(c, k) ==
    CASE Has(c, k) -> Return(Without(c, k), k, Answerless("ok"))
      [] ~Has(c, k) /\ HasClosed(c) -> Return(c, k, ClosedError(c))
      [] ~Has(c, k) /\ ~HasClosed(c) /\ now >= k.deadline ->
            Return(c, k, Answerless("timeout"))
      [] OTHER -> FlushThenRecv(c, [k EXCEPT !.wait = k.deadline - now])

\* The calls that wait: from the top of their loop to the next await.
Loop(c, k) ==
    CASE k.kind = "connect" -> AwaitIdentified(c, k) /\ UNCHANGED served
      [] k.kind \in {"single", "batch"} -> Wait(c, k) /\ UNCHANGED served
      [] k.kind = "next" /\ Has(c, k) ->
            /\ Return(Without(c, k), k, Answerless("ok"))
            /\ served' = Append(served, First(c, k).id)
      [] OTHER -> FlushThenRecv(c, k) /\ UNCHANGED served

\* What follows the flush behind an ingested frame (reidentify has only that
\* flush).
AfterFlush(c, k) ==
    CASE k.kind = "reidentify" -> Return(c, k, Answerless("ok")) /\ UNCHANGED served
      [] k.kind = "poll" ->
            /\ Return(Dispatched(c), k,
                      IF HasClosed(Dispatched(c)) THEN ClosedError(c) ELSE Answerless("ok"))
            /\ served' = served \o EventsOf(c)
      [] k.kind = "next" /\ HasClosed(c) -> Return(c, k, ClosedError(c)) /\ UNCHANGED served
      [] OTHER -> Loop(c, k)

FlushThenResume(c, k) ==
    IF c.session.outgoing # <<>>
    THEN SendFirst(c, k, "settle") /\ UNCHANGED served
    ELSE AfterFlush(c, k)

----------------------------------------------------------------------------
(* The owner.                                                              *)

NewCall(kind) ==
    [kind |-> kind, no |-> result.no + 1, id |-> 0,
     deadline |-> IF kind \in {"connect", "single", "batch"} THEN now + RequestTimeout ELSE 0,
     wait |-> 0]

MayCall == at = "idle" /\ result.no < MaxCalls /\ now <= LastStart

Init ==
    /\ \E password \in BOOLEAN, subs \in Subscriptions :
          conn = [session |-> NewSession(password, subs, 1), inbox |-> <<>>]
    /\ at = "recv"
    /\ call = [kind |-> "connect", no |-> 1, id |-> 0,
               deadline |-> RequestTimeout, wait |-> RequestTimeout]
    /\ sending = [op |-> OpRequest, id |-> 0]
    /\ now = 0
    /\ wake = RequestTimeout
    /\ result = Ended(NoCall, Answerless("ok"))
    /\ served = <<>>
    /\ link = <<>>
    /\ socket = "up"
    /\ obs = [stage |-> "new", open |-> {}]
    /\ emitted = 0
    /\ asked = [id \in 1 .. MaxCalls |-> {}]
    /\ garbage = 0

\* request, raw_request and raw_batch.
StartRequest(kind, encodes) ==
    LET e == Enqueue(conn.session, now + RequestTimeout, kind = "batch", encodes)
        kept == [conn EXCEPT !.session = e.session]
        k == [NewCall(kind) EXCEPT !.id = conn.session.nextId]
    IN  /\ MayCall
        /\ IF e.error # "none"
           THEN Return(kept, NewCall(kind), Answerless("session")) /\ UNCHANGED served
           ELSE Loop(kept, k)
        /\ UNCHANGED <<now, server>>

\* next_event and poll.
StartReading(kind) ==
    /\ MayCall
    /\ Loop(conn, NewCall(kind))
    /\ UNCHANGED <<now, server>>

StartReidentify(subs, encodes) ==
    LET e == Reidentify(conn.session, subs, encodes)
        kept == [conn EXCEPT !.session = e.session]
    IN  /\ MayCall
        /\ IF e.error # "none"
           THEN Return(kept, NewCall("reidentify"), Answerless("session")) /\ UNCHANGED served
           ELSE FlushThenResume(kept, NewCall("reidentify"))
        /\ UNCHANGED <<now, server>>

\* What OBS knows once a frame has reached it.
Receives(frame) ==
    /\ obs' = CASE frame.op = OpIdentify -> [obs EXCEPT !.stage = "identify"]
                [] frame.op = OpReidentify ->
                     IF ConfirmsReidentify THEN [obs EXCEPT !.stage = "reidentify"] ELSE obs
                [] OTHER -> [obs EXCEPT !.open = @ \cup
                                {[id |-> frame.id, batch |-> frame.op = OpRequestBatch]}]
    /\ asked' = IF frame.op \in {OpRequest, OpRequestBatch}
                THEN [asked EXCEPT ![frame.id] = @ \cup {call.no}]
                ELSE asked
    /\ UNCHANGED <<link, socket, emitted, garbage>>

\* send() completes.
Sent ==
    /\ at \in {"flush", "settle"}
    /\ socket \in {"up", "closing"}
    /\ IF at = "flush"
       THEN FlushThenRecv(conn, call) /\ UNCHANGED served
       ELSE FlushThenResume(conn, call)
    /\ Receives(sending)
    /\ UNCHANGED now

\* send() or recv() returns an error.
TransportFails ==
    /\ at \in {"flush", "recv", "settle"}
    /\ socket \in {"broken", "closed"}
    /\ Return(conn, call, Answerless("transport"))
    /\ UNCHANGED <<now, served, server>>

\* recv() wins the race with a text frame; an error returns before drain().
RecvMessage ==
    LET m == Head(link)
        h == HandleMessage(conn.session, m, TRUE)
        kept == [conn EXCEPT !.session = h.session]
    IN  /\ at = "recv"
        /\ link # <<>>
        /\ m.op # WsClose
        /\ IF h.error = "none"
           THEN FlushThenResume(Drain(kept), call)
           ELSE /\ Return(kept, call,
                          Answerless(CASE h.error = "AuthRequired" -> "auth"
                                       [] h.error = "Unexpected" -> "unexpected"
                                       [] OTHER -> "session"))
                /\ UNCHANGED served
        /\ link' = Tail(link)
        /\ UNCHANGED <<now, socket, obs, emitted, asked, garbage>>

\* recv() wins with the Close frame, or with the Close{None} that a transport
\* reports when it is read again after one.
RecvClose ==
    /\ at = "recv"
    /\ \/ /\ link # <<>>
          /\ Head(link).op = WsClose
          /\ FlushThenResume(Drain([conn EXCEPT !.session = HandleClose(@, Head(link).code)]), call)
          /\ link' = <<>>
       \/ /\ socket = "closed"
          /\ FlushThenResume(Drain([conn EXCEPT !.session = HandleClose(@, 0)]), call)
          /\ UNCHANGED link
    /\ socket' = "closed"
    /\ UNCHANGED <<now, obs, emitted, asked, garbage>>

\* The timer wins the race: the call returns at once, and the session is not
\* told.
SleepFires ==
    /\ at = "recv"
    /\ Timed(call)
    /\ now >= wake
    /\ Return(conn, call, Answerless("timeout"))
    /\ UNCHANGED <<now, served, server>>

\* The owner drops the future of a call.  A frame that send() had not written
\* is lost; one that it had is with OBS.
Cancel ==
    /\ at \in {"flush", "recv", "settle"}
    /\ at' = IF call.kind = "connect" THEN "gone" ELSE "idle"
    /\ result' = Ended([call EXCEPT !.kind = "dropped"], Answerless("ok"))
    /\ call' = NoCall
    /\ \/ /\ at # "recv" /\ socket \in {"up", "closing"}
          /\ Receives(sending)
       \/ UNCHANGED server
    /\ UNCHANGED <<conn, sending, now, wake, served>>

\* Time passes.  A call may spend it in a flush, whose length nothing bounds;
\* SlowFlush keeps the model finite.
SlowFlush == at \in {"flush", "settle"} /\ call.deadline # 0 => now < call.deadline

Tick ==
    /\ now < LastStart + 2 * RequestTimeout /\ at # "gone"
    /\ SlowFlush
    /\ now' = now + 1
    /\ UNCHANGED <<conn, at, call, sending, wake, result, served, server>>

----------------------------------------------------------------------------
(* OBS (external).                                                         *)

Message(op, auth, id, ok) ==
    [op |-> op, decodes |-> TRUE, auth |-> auth, rpc |-> IF op = OpIdentified THEN 1 ELSE 0,
     id |-> id, ok |-> ok]

MaySend == socket = "up" /\ Len(link) < MaxInFlight /\ at # "gone"

ServerHello(auth) ==
    /\ MaySend
    /\ obs.stage = "new"
    /\ link' = Append(link, Message(OpHello, auth, 0, FALSE))
    /\ obs' = [obs EXCEPT !.stage = "greeted"]
    /\ UNCHANGED <<client, socket, emitted, asked, garbage>>

ServerIdentified ==
    /\ MaySend
    /\ obs.stage \in {"identify", "reidentify"}
    /\ link' = Append(link, Message(OpIdentified, FALSE, 0, FALSE))
    /\ obs' = [obs EXCEPT !.stage = "ready"]
    /\ UNCHANGED <<client, socket, emitted, asked, garbage>>

ServerEvent ==
    /\ MaySend
    /\ obs.stage = "ready"
    /\ emitted < MaxEvents
    /\ emitted' = emitted + 1
    /\ link' = Append(link, Message(OpEvent, FALSE, emitted + 1, FALSE))
    /\ UNCHANGED <<client, socket, obs, asked, garbage>>

ServerAnswer(request, ok) ==
    /\ MaySend
    /\ request \in obs.open
    /\ link' = Append(link, Message(IF request.batch THEN OpRequestBatchResponse
                                                     ELSE OpRequestResponse,
                                    FALSE, request.id, ok))
    /\ obs' = [obs EXCEPT !.open = @ \ {request}]
    /\ UNCHANGED <<client, socket, emitted, asked, garbage>>

ServerGarbage ==
    /\ MaySend
    /\ garbage < MaxGarbage
    /\ garbage' = garbage + 1
    /\ link' = Append(link, [Message(OpEvent, FALSE, 0, FALSE) EXCEPT !.op = -1])
    /\ UNCHANGED <<client, socket, obs, emitted, asked>>

ServerClose(code) ==
    /\ MaySend
    /\ link' = Append(link, [op |-> WsClose, code |-> code])
    /\ socket' = "closing"
    /\ UNCHANGED <<client, obs, emitted, asked, garbage>>

\* The socket breaks; frames still under way may be lost with it.
ServerBreaks ==
    /\ socket \in {"up", "closing"} /\ at # "gone"
    /\ socket' = "broken"
    /\ link' \in {link, <<>>}
    /\ UNCHANGED <<client, obs, emitted, asked, garbage>>

----------------------------------------------------------------------------

TaskStep == Sent \/ TransportFails \/ RecvMessage \/ RecvClose \/ SleepFires

OwnerStep ==
    \/ \E kind \in {"single", "batch"}, encodes \in BOOLEAN : StartRequest(kind, encodes)
    \/ \E kind \in {"next", "poll"} : StartReading(kind)
    \/ \E subs \in Subscriptions, encodes \in BOOLEAN : StartReidentify(subs, encodes)
    \/ Cancel

ServerStep ==
    \/ \E auth \in BOOLEAN : ServerHello(auth)
    \/ ServerIdentified
    \/ ServerEvent
    \/ \E request \in obs.open, ok \in BOOLEAN : ServerAnswer(request, ok)
    \/ ServerGarbage
    \/ \E code \in Codes : ServerClose(code)
    \/ ServerBreaks

Next == TaskStep \/ OwnerStep \/ ServerStep \/ Tick

Spec == Init /\ [][Next]_vars

\* A future that can go on is polled, time passes, a socket takes a frame or
\* breaks, and one that is broken says so.  OBS and the owner owe nothing.
FairSpec ==
    /\ Spec
    /\ WF_vars(Sent \/ RecvMessage \/ RecvClose \/ SleepFires)
    /\ WF_vars(TransportFails /\ socket = "broken")
    /\ WF_vars(Tick)

----------------------------------------------------------------------------
(* Properties.                                                             *)

\* A request that ends with an answer of OBS ends with the answer to the frame
\* it sent itself, whatever earlier requests that timed out or were dropped
\* have left in the session, in the inbox or under way (take_single,
\* take_batch).
OwnAnswer ==
    result.kind \in {"single", "batch"} /\ result.answer \in {"ok", "status"}
        => asked[result.from] = {result.no}

\* Events reach the owner once each and in the order in which OBS sent them,
\* whichever calls read them from the socket and whichever of those were
\* dropped: what has been served, what waits in the inbox and what is under
\* way are together the events sent (next_event, poll, extract, dispatch).
EventsInOrder ==
    LET underWay == EventIds(Subsequence(link, {i \in DOMAIN link : link[i].op = OpEvent}))
    IN  at # "gone" /\ socket # "broken" /\ socket # "closed"
            => served \o EventsOf(conn) \o underWay = [i \in 1 .. emitted |-> i]

\* A call returns Timeout only when its deadline has passed, although the
\* timer it races recv() against is set anew for every frame.
TimeoutsAreDue ==
    [][result' # result /\ result'.outcome = "timeout" => now >= result'.deadline]_vars

\* A request that returns Timeout leaves no answer of its own behind in the
\* inbox: what had arrived by then was taken (wait_single looks at the inbox
\* before it looks at the clock).
NoAnswerOverlooked ==
    [][result' # result /\ result'.outcome = "timeout" /\ result'.kind \in {"single", "batch"}
        => \A i \in DOMAIN conn'.inbox : ~IsOwn(conn'.inbox[i], result')]_vars

\* Once Closed is in the inbox it stays there, and from then on no call but
\* next_event(), which still has events to hand out, succeeds.
ClosedIsFinal ==
    [][HasClosed(conn) =>
        /\ HasClosed(conn')
        /\ result' # result /\ result'.outcome = "ok" => result'.kind \in {"next", "dropped"}]_vars

\* Every call that is under a timeout ends, however much OBS has to say and
\* whether or not it ever answers.
TimedCallsEnd ==
    call.kind \in {"connect", "single", "batch"} ~> call.kind = "none"

\* Once OBS has sent Close, or the socket is broken, no call waits for ever:
\* next_event() and poll(), which have no timeout, included.
ClosedEndsCalls == (socket # "up") ~> (call.kind = "none")

\* handler.rs:12 says of on_identified "Op 2 arrived."  A poll() that reads op 2
\* ends without an error.
Op2Reported ==
    [][at = "recv" /\ call.kind = "poll" /\ link # <<>> /\ Head(link).op = OpIdentified
            /\ link' # link /\ socket' # "broken"
        => result'.outcome # "unexpected"]_vars

=============================================================================
