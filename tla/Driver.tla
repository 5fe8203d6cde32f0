------------------------------- MODULE Driver -------------------------------
(***************************************************************************)
(* The driver task of the tokio client (obs-websocket/src/driver.rs) with  *)
(* the client handles that feed it (client.rs), the OBS server at the      *)
(* other end of the socket, and the socket itself.                         *)
(*                                                                         *)
(* Steps.  The driver is one task: what it does between two awaits is one  *)
(* action, and pc says at which await it is:                               *)
(*   "connect"   connect_transport()                                       *)
(*   "identify"  until_identified(): drive_once()                          *)
(*   "wait"      wait_reply() of a startup call of its own                 *)
(*   "serve"     the select! of command_loop()                             *)
(*   "flush"     the flush() of command_loop()                             *)
(*   "sleep"     the delay before a retry                                  *)
(*   "stopped"   run() has returned                                        *)
(*                                                                         *)
(* Time.  arm_deadline() gives deadlines that never decrease, so a call's  *)
(* deadline is represented by the call's id: "now" is any moment that is   *)
(* late enough for the timer that fires, and then every call armed no      *)
(* later than that moment is due.  Delays between steps are arbitrary.     *)
(*                                                                         *)
(* The driver encodes with JSON, which accepts every frame.  Frames that   *)
(* are neither text, binary nor close change nothing; events are drained   *)
(* and their subscribers (emit_event) are not followed; connect() builds   *)
(* the shared state that Init describes.                                   *)
(***************************************************************************)
EXTENDS SessionCore

CONSTANTS
    Callers,            \* application tasks, each making one request
    Startup,            \* batch flags of the driver's own calls, from GetVersion on
    HasPassword,        \* whether the configuration has a password
    ReconnectEnabled,   \* ReconnectPolicy::enabled
    MaxAttempts,        \* ReconnectPolicy::max_attempts, or NoLimit
    NoLimit,
    AttemptMax,         \* where "attempt" saturates (u32::MAX)
    Challenges,         \* whether Hello may ask for authentication
    CloseCodes,         \* codes the server closes with; 0 stands for none
    Garbles,            \* whether frames may arrive that do not decode
    WrongKinds,         \* whether a call may be answered as a batch, or a batch as a call
    MaxInFlight         \* bound on the frames in transit to the client

ASSUME DriverAssumption ==
    /\ Startup \in Seq(BOOLEAN) /\ Len(Startup) > 0
    /\ Callers \cap Nat = {}
    /\ HasPassword \in BOOLEAN /\ ReconnectEnabled \in BOOLEAN
    /\ AttemptMax \in Nat \ {0}
    /\ NoLimit \notin Nat /\ MaxAttempts \in Nat \cup {NoLimit}
    /\ Challenges \subseteq BOOLEAN /\ CloseCodes \subseteq Nat
    /\ Garbles \in BOOLEAN /\ WrongKinds \in BOOLEAN /\ MaxInFlight \in Nat

VARIABLES
    pc,         \* the await the driver task is at
    ready,      \* the oneshot Client::connect waits on
    conn,       \* the published ConnectionState
    attempt,    \* run(): retries so far
    lastError,  \* why the last connection ended
    wanted,     \* session_config.event_subscriptions
    session,    \* Pump::session
    waiters,    \* Pump::pending: who waits for which call
    stage,      \* the startup call in progress
    commands,   \* the command channel
    reply,      \* the oneshot each caller waits on
    dropped,    \* whether the application dropped its last Client
    obs,        \* the server's side of the connection
    asked,      \* for each call on this connection, whose request it carries
    toClient    \* frames in transit to the client

runVars == <<ready, conn, attempt, lastError>>
pumpVars == <<session, waiters, stage, asked>>
netVars == <<obs, toClient>>
vars == <<pc, runVars, wanted, pumpVars, commands, reply, dropped, netVars>>

----------------------------------------------------------------------------
(* Data.                                                                   *)

\* The driver waits for its own calls itself: they are named by their number.
OwnCalls == DOMAIN Startup
Waits == Callers \cup OwnCalls

ErrorOf(cause) == [cause |-> cause, code |-> 0]

\* map_closed
MapClosed(code) ==
    IF code = AuthenticationFailed THEN ErrorOf("AuthFailed")
                                   ELSE [cause |-> "Closed", code |-> code]

\* The error that ingest() makes of a session error.
MapSessionError(error) ==
    ErrorOf(IF error = "AuthRequired" THEN "AuthFailed" ELSE "Protocol")

\* map_failure
MapFailure(failure) ==
    CASE failure = "status" -> "Request"
      [] failure = "timeout" -> "Timeout"
      [] failure = "closed" -> "Closed"

\* "Unreachable" stands for TlsUnavailable too.
ConnectionFailed == {"AuthFailed", "Closed", "Disconnected", "Unreachable"}

\* A oneshot: whether it holds Ok or Err, of what, and whose request the
\* value answers.
Waiting == [state |-> "waiting", ok |-> FALSE, cause |-> "none", from |-> {}]
Idle == [Waiting EXCEPT !.state = "idle"]
Done(ok, cause, from) == [state |-> "done", ok |-> ok, cause |-> cause, from |-> from]
Failure(cause) == Done(FALSE, cause, {})

\* Sends to a receiver that is gone are ignored.
Settle(replies, who, outcome) ==
    [c \in Waits |->
        IF c \in who /\ replies[c].state = "waiting" THEN outcome ELSE replies[c]]

\* The receivers of the startup calls go when call() returns.
CallersOnly(replies) == [c \in Waits |-> IF c \in Callers THEN replies[c] ELSE Idle]

Owners(ws) == {ws[id].who : id \in DOMAIN ws}

\* fail_pending() of the pump: everybody who waits gets the error.
FailWaiters(replies, error) == Settle(replies, Owners(waiters), Failure(error.cause))

\* Dropping the receiver drops the queued commands and their reply senders.
DropCommands(replies) ==
    Settle(replies, {commands[i].who : i \in DOMAIN commands}, Failure("Disconnected"))

----------------------------------------------------------------------------
(* run(): what follows the end of a connection.                            *)

\* misled: the calls answered as of the other kind; confirm: whether a
\* Reidentify has yet to be confirmed.
NoObs == [stage |-> "none", subs |-> 0, open |-> {}, misled |-> {}, confirm |-> FALSE]

\* The pump and its socket are dropped.
Hangup ==
    /\ session' = NewSession(HasPassword, wanted, 1)
    /\ waiters' = <<>>
    /\ asked' = <<>>
    /\ stage' = 0
    /\ obs' = NoObs
    /\ toClient' = <<>>

NextAttempt == IF attempt < AttemptMax THEN attempt + 1 ELSE attempt

\* Whether run() gets as far as counting a retry.
Counts(error) == error.cause # "AuthFailed" /\ ready # "pending" /\ ReconnectEnabled

\* Seeded fault: the arm for AuthFailed is missing.
RetriesEvenRefused(error) ==
    /\ ready # "pending"
    /\ ReconnectEnabled
    /\ MaxAttempts = NoLimit \/ NextAttempt <= MaxAttempts

\* Seeded fault: attempt > max compares the count before this retry.
RetriesOnceMore(error) ==
    Counts(error) /\ (MaxAttempts = NoLimit \/ attempt <= MaxAttempts)

Retries(error) ==
    Counts(error) /\ (MaxAttempts = NoLimit \/ NextAttempt <= MaxAttempts)

\* Seeded fault: the receiver lives on in a task that no longer reads it.
StopKeepsCommands(error, replies) ==
    /\ pc' = "stopped"
    /\ conn' = [state |-> "Closed", attempt |-> 0, code |-> error.code]
    /\ reply' = replies
    /\ UNCHANGED commands

\* The code published when run() returns.
FinalCode(error) ==
    CASE error.cause = "AuthFailed" -> AuthenticationFailed
      [] error.cause # "AuthFailed" /\ ready = "pending" -> 0
      [] OTHER -> error.code

\* run() returns.
Stop(error, replies) ==
    /\ pc' = "stopped"
    /\ conn' = [state |-> "Closed", attempt |-> 0, code |-> FinalCode(error)]
    /\ reply' = DropCommands(replies)
    /\ commands' = <<>>

\* run() goes round its loop after the delay.
Pause(replies) ==
    /\ pc' = "sleep"
    /\ conn' = [state |-> "Reconnecting", attempt |-> NextAttempt, code |-> 0]
    /\ reply' = replies
    /\ UNCHANGED commands

\* One pass of run()'s loop after serve() failed with error; replies are the
\* oneshots after what the pump itself settled.
Disconnected(error, replies) ==
    LET left == CallersOnly(replies)
    IN  /\ Hangup
        /\ lastError' = error
        /\ attempt' = IF Counts(error) THEN NextAttempt ELSE attempt
        /\ ready' = IF ready = "pending" THEN "failed" ELSE ready
        /\ IF Retries(error) THEN Pause(left) ELSE Stop(error, left)
        /\ UNCHANGED <<wanted, dropped>>

WakeUp ==
    /\ pc = "sleep"
    /\ pc' = "connect"
    /\ UNCHANGED <<runVars, wanted, pumpVars, commands, reply, dropped, netVars>>

----------------------------------------------------------------------------
(* serve(): opening a connection.                                          *)

ConnectOk ==
    /\ pc = "connect"
    /\ pc' = "identify"
    /\ session' = NewSession(HasPassword, wanted, 1)
    /\ obs' = [NoObs EXCEPT !.stage = "open"]
    /\ UNCHANGED <<runVars, wanted, waiters, stage, asked, commands, reply, dropped, toClient>>

ConnectFails ==
    /\ pc = "connect"
    /\ \E cause \in {"Unreachable", "Timeout"} : Disconnected(ErrorOf(cause), reply)

\* The socket breaks: a send or a recv fails.
SocketFails ==
    /\ pc \in {"identify", "wait", "serve", "flush"}
    /\ LET error == ErrorOf("Unreachable")
       IN  Disconnected(error, FailWaiters(reply, error))

\* What a frame of the client does to the server.  Frames cross in no time:
\* the client cannot tell a slow frame from a slow answer.
Deliver(frame) ==
    CASE frame.op = OpIdentify /\ obs.stage = "hello" ->
            [obs EXCEPT !.stage = "identify", !.subs = frame.subs]
      [] frame.op = OpReidentify /\ obs.stage = "identified" ->
            [obs EXCEPT !.subs = frame.subs, !.confirm = TRUE]
      [] frame.op \in {OpRequest, OpRequestBatch} /\ obs.stage = "identified" ->
            [obs EXCEPT !.open = @ \cup {[id |-> frame.id, batch |-> frame.op = OpRequestBatch]}]
      [] OTHER -> obs

\* flush(): one frame leaves.
FlushFrame ==
    /\ pc \in {"identify", "wait", "flush"}
    /\ session.outgoing # <<>>
    /\ session' = PollTransmit(session)
    /\ obs' = Deliver(Head(session.outgoing))
    /\ UNCHANGED <<pc, runVars, wanted, waiters, stage, asked, commands, reply, dropped, toClient>>

CloseFrame == 100

\* ingest()
Ingest(m) ==
    IF m.op = CloseFrame THEN Ok(HandleClose(session, m.code))
                         ELSE HandleMessage(session, m, TRUE)

\* BTreeMap::insert
With(f, key, value) == [k \in DOMAIN f \cup {key} |-> IF k = key THEN value ELSE f[k]]

\* enqueue_call() and send_batch() for who, whose oneshot waits from then on
\* in replies.  An Identified session accepts every call: see ServesIdentified.
Begin(who, batch, replies) ==
    LET id == session.nextId
    IN  /\ session' = Enqueue(session, id, batch, TRUE).session
        /\ waiters' = With(waiters, id, [who |-> who, batch |-> batch])
        /\ asked' = With(asked, id, {who} \cup (IF id \in DOMAIN asked THEN asked[id] ELSE {}))
        /\ reply' = replies

\* Seeded fault: Connected is published before the driver's own calls.
BeginOwnEarly(n) ==
    /\ conn' = [state |-> "Connected", attempt |-> 0, code |-> 0]
    /\ IF n <= Len(Startup)
       THEN /\ pc' = "wait"
            /\ Begin(n, Startup[n], [reply EXCEPT ![n] = Waiting])
            /\ stage' = n
            /\ UNCHANGED ready
       ELSE /\ pc' = "serve"
            /\ stage' = 0
            /\ ready' = "ok"
            /\ reply' = CallersOnly(reply)
            /\ UNCHANGED <<session, waiters, asked>>

\* record_version() and snapshot(): the driver's n-th call, and after the
\* last one the connection is announced.
BeginOwn(n) ==
    IF n <= Len(Startup)
    THEN /\ pc' = "wait"
         /\ Begin(n, Startup[n], [reply EXCEPT ![n] = Waiting])
         /\ stage' = n
         /\ UNCHANGED <<ready, conn>>
    ELSE /\ pc' = "serve"
         /\ stage' = 0
         /\ conn' = [state |-> "Connected", attempt |-> 0, code |-> 0]
         /\ ready' = "ok"
         /\ reply' = CallersOnly(reply)
         /\ UNCHANGED <<session, waiters, asked>>

\* snapshot() has no batch to send when the input list is missing or empty.
AfterOwn(n) ==
    {n + 1} \cup IF n < Len(Startup) /\ Startup[n + 1] THEN {n + 2} ELSE {}

----------------------------------------------------------------------------
(* drain() and dispatch().                                                 *)

Drained(s) == [s EXCEPT !.events = <<>>]

Closings(events) == {i \in DOMAIN events : events[i].type = "Closed"}

\* dispatch() stops at the first Closed.
Delivered(events) ==
    IF Closings(events) = {} THEN events
    ELSE SubSeq(events, 1, Min(Closings(events)) - 1)

\* The ids of waiters whose call an event completes.
Completed(events) ==
    {id \in DOMAIN waiters : \E i \in DOMAIN Delivered(events) :
        IsCompletion(Delivered(events)[i]) /\ Delivered(events)[i].id = id}

CompletionOf(events, id) ==
    CHOOSE event \in ToSet(events) : IsCompletion(event) /\ event.id = id

\* complete_call(): a failure becomes an Err.  complete_batch(): the items
\* are returned with Ok whatever became of them.  A waiter of the other kind
\* is dropped with its sender.
Outcome(event, id) ==
    CASE waiters[id].batch # (event.type = "BatchResponse") -> Failure("Disconnected")
      [] waiters[id].batch /\ event.type = "BatchResponse" -> Done(TRUE, event.result, asked[id])
      [] OTHER -> IF event.result = "ok" THEN Done(TRUE, "ok", asked[id])
                                         ELSE Failure(MapFailure(event.result))

\* Seeded fault: a completed call keeps its entry in Pump::pending.
WaitersLeftAll(events) == waiters

WaitersLeft(events) == [id \in DOMAIN waiters \ Completed(events) |-> waiters[id]]

Replies(events) ==
    [c \in Waits |->
        LET ids == {id \in Completed(events) : waiters[id].who = c}
        IN  IF ids # {} /\ reply[c].state = "waiting"
            THEN LET id == Min(ids) IN Outcome(CompletionOf(events, id), id)
            ELSE reply[c]]

ClosedBy(events) == MapClosed(events[Min(Closings(events))].code)

----------------------------------------------------------------------------
(* until_identified()                                                      *)

IdentifyFrame ==
    /\ pc = "identify" /\ session.negotiated = 0
    /\ session.outgoing = <<>> /\ toClient # <<>>
    /\ LET r == Ingest(Head(toClient))
           closings == Closings(r.session.events)
       IN  CASE r.error # "none" -> Disconnected(MapSessionError(r.error), reply)
             [] r.error = "none" /\ closings # {} ->
                    Disconnected(MapClosed(r.session.events[Max(closings)].code), reply)
             [] OTHER ->
                    /\ session' = Drained(r.session)
                    /\ toClient' = Tail(toClient)
                    /\ UNCHANGED <<pc, runVars, wanted, waiters, stage, asked, commands,
                                   reply, dropped, obs>>

Identified ==
    /\ pc = "identify"
    /\ session.negotiated # 0
    /\ BeginOwn(1)
    /\ UNCHANGED <<attempt, lastError, wanted, commands, dropped, netVars>>

\* Seeded fault: the deadline is only armed once Hello has come.
IdentifyTimeoutAfterHello ==
    /\ pc = "identify"
    /\ session.negotiated = 0 /\ session.phase # "AwaitingHello"
    /\ Disconnected(ErrorOf("Timeout"), reply)

IdentifyTimeout ==
    /\ pc = "identify"
    /\ session.negotiated = 0
    /\ Disconnected(ErrorOf("Timeout"), reply)

----------------------------------------------------------------------------
(* wait_reply() and wait_batch_reply()                                     *)

\* The events of a step of drive_once() are dispatched before the next.
DispatchOwn(s) ==
    IF Closings(s.events) # {}
    THEN Disconnected(ClosedBy(s.events), FailWaiters(Replies(s.events), ClosedBy(s.events)))
    ELSE /\ session' = Drained(s)
         /\ waiters' = WaitersLeft(s.events)
         /\ reply' = Replies(s.events)
         /\ UNCHANGED <<pc, runVars, wanted, stage, asked, commands, dropped, obs>>

\* select! may take a frame although the reply has arrived.
WaitFrame ==
    /\ pc = "wait"
    /\ session.outgoing = <<>> /\ toClient # <<>>
    /\ LET r == Ingest(Head(toClient))
       IN  /\ r.error = "none"
           /\ DispatchOwn(r.session)
           /\ toClient' = IF Closings(r.session.events) = {} THEN Tail(toClient) ELSE <<>>

\* A frame the session rejects fails the call it interrupts and nothing else:
\* connection_failed() does not count Protocol.
WaitBadFrame ==
    /\ pc = "wait"
    /\ session.outgoing = <<>> /\ toClient # <<>>
    /\ Ingest(Head(toClient)).error # "none"
    /\ toClient' = Tail(toClient)
    /\ \E n \in AfterOwn(stage) : BeginOwn(n)
    /\ UNCHANGED <<attempt, lastError, wanted, commands, dropped, obs>>

\* No frame has arrived for a whole request_timeout (those of toClient may
\* still be on their way): every call in progress is overdue.
WaitTimeout ==
    /\ pc = "wait"
    /\ session.outgoing = <<>>
    /\ DispatchOwn(HandleTimeout(session, session.nextId))
    /\ UNCHANGED toClient

OwnReply ==
    /\ pc = "wait"
    /\ reply[stage].state = "done"
    /\ IF reply[stage].cause \in ConnectionFailed
       THEN Disconnected(ErrorOf(reply[stage].cause), reply)
       ELSE /\ \E n \in AfterOwn(stage) : BeginOwn(n)
            /\ UNCHANGED <<attempt, lastError, wanted, commands, dropped, netVars>>

----------------------------------------------------------------------------
(* command_loop()                                                          *)

\* apply() of a call or a batch.
TakeCall ==
    /\ pc = "serve"
    /\ commands # <<>> /\ Head(commands).kind \in {"call", "batch"}
    /\ commands' = Tail(commands)
    /\ Begin(Head(commands).who, Head(commands).kind = "batch", reply)
    /\ pc' = "flush"
    /\ UNCHANGED <<runVars, wanted, stage, dropped, netVars>>

\* Seeded fault: the subscriptions are not kept for the next connection.
TakeReidentifyForgetful ==
    /\ pc = "serve"
    /\ commands # <<>> /\ Head(commands).kind = "reidentify"
    /\ commands' = Tail(commands)
    /\ session' = Reidentify(session, Head(commands).subs, TRUE).session
    /\ reply' = Settle(reply, {Head(commands).who}, Done(TRUE, "ok", {Head(commands).who}))
    /\ pc' = "flush"
    /\ UNCHANGED <<runVars, wanted, waiters, stage, asked, dropped, netVars>>

\* apply() of a reidentify: the caller is answered before the frame is sent.
TakeReidentify ==
    /\ pc = "serve"
    /\ commands # <<>> /\ Head(commands).kind = "reidentify"
    /\ commands' = Tail(commands)
    /\ wanted' = Head(commands).subs
    /\ LET r == Reidentify(session, Head(commands).subs, TRUE)
           who == Head(commands).who
       IN  /\ session' = r.session
           /\ reply' = Settle(reply, {who}, IF r.error = "none" THEN Done(TRUE, "ok", {who})
                                            ELSE Failure("Protocol"))
    /\ pc' = "flush"
    /\ UNCHANGED <<runVars, waiters, stage, asked, dropped, netVars>>

TakeFrame ==
    /\ pc = "serve"
    /\ toClient # <<>>
    /\ LET r == Ingest(Head(toClient))
           error == MapSessionError(r.error)
       IN  IF r.error # "none"
           THEN Disconnected(error, FailWaiters(reply, error))
           ELSE /\ session' = r.session
                /\ toClient' = Tail(toClient)
                /\ pc' = "flush"
                /\ UNCHANGED <<runVars, wanted, waiters, stage, asked, commands, reply,
                               dropped, obs>>

\* The timer of nearest_deadline() fires, at that moment or later.
Deadline ==
    /\ pc = "serve"
    /\ \E now \in DOMAIN waiters : session' = HandleTimeout(session, now)
    /\ pc' = "flush"
    /\ UNCHANGED <<runVars, wanted, waiters, stage, asked, commands, reply, dropped, netVars>>

\* dispatch(): completions are handed over, a close ends the connection.
Dispatch ==
    /\ pc = "flush"
    /\ session.outgoing = <<>>
    /\ LET events == session.events
       IN  IF Closings(events) # {}
           THEN Disconnected(ClosedBy(events), FailWaiters(Replies(events), ClosedBy(events)))
           ELSE /\ session' = Drained(session)
                /\ waiters' = WaitersLeft(events)
                /\ reply' = Replies(events)
                /\ pc' = "serve"
                /\ UNCHANGED <<runVars, wanted, stage, asked, commands, dropped, netVars>>

----------------------------------------------------------------------------
(* The application: Client.                                                *)

MayCall(c) == ready = "ok" /\ ~dropped /\ reply[c].state = "idle"

Call(c, command) ==
    /\ MayCall(c)
    /\ IF pc = "stopped"
       THEN reply' = [reply EXCEPT ![c] = Failure("Disconnected")] /\ UNCHANGED commands
       ELSE reply' = [reply EXCEPT ![c] = Waiting] /\ commands' = Append(commands, command)
    /\ UNCHANGED <<pc, runVars, wanted, pumpVars, dropped, netVars>>

Request(c) ==
    \E kind \in {"call", "batch"} : Call(c, [who |-> c, kind |-> kind, subs |-> 0])

ChangeSubscriptions(c) ==
    \E subs \in Subscriptions : Call(c, [who |-> c, kind |-> "reidentify", subs |-> subs])

\* The future of a request is dropped before it resolves.
Cancel(c) ==
    /\ reply[c].state = "waiting"
    /\ reply' = [reply EXCEPT ![c] = [@ EXCEPT !.state = "cancelled"]]
    /\ UNCHANGED <<pc, runVars, wanted, pumpVars, commands, dropped, netVars>>

\* A future borrows its Client, so nobody is waiting.
DropClients ==
    /\ ready = "ok" /\ ~dropped
    /\ \A c \in Callers : reply[c].state # "waiting"
    /\ dropped' = TRUE
    /\ UNCHANGED <<pc, runVars, wanted, pumpVars, commands, reply, netVars>>

----------------------------------------------------------------------------
(* The server.                                                             *)

Frame(op) ==
    [op |-> op, decodes |-> TRUE, auth |-> FALSE, rpc |-> 1, id |-> 0,
     ok |-> TRUE, code |-> 0]

Emit(frame, after) ==
    /\ Len(toClient) < MaxInFlight
    /\ toClient' = Append(toClient, frame)
    /\ obs' = after
    /\ UNCHANGED <<pc, runVars, wanted, pumpVars, commands, reply, dropped>>

ServerHello ==
    /\ obs.stage = "open"
    /\ \E auth \in Challenges :
            Emit([Frame(OpHello) EXCEPT !.auth = auth], [obs EXCEPT !.stage = "hello"])

ServerIdentified ==
    /\ obs.stage = "identify"
    /\ Emit(Frame(OpIdentified), [obs EXCEPT !.stage = "identified"])

\* OBS answers a Reidentify with Identified too.
ServerConfirms ==
    /\ obs.stage = "identified" /\ obs.confirm
    /\ Emit(Frame(OpIdentified), [obs EXCEPT !.confirm = FALSE])

ServerEvent ==
    /\ obs.stage = "identified"
    /\ Emit(Frame(OpEvent), obs)

\* Requests are answered in any order, once, with success or not, and perhaps
\* by an answer of the other kind.
ServerAnswer ==
    /\ obs.stage = "identified"
    /\ \E r \in obs.open, ok \in BOOLEAN, wrong \in {FALSE, WrongKinds} :
            Emit([Frame(IF r.batch # wrong THEN OpRequestBatchResponse ELSE OpRequestResponse)
                    EXCEPT !.id = r.id, !.ok = ok],
                 [obs EXCEPT !.open = @ \ {r}, !.misled = IF wrong THEN @ \cup {r.id} ELSE @])

\* A wrong password is found out when Identify arrives.
ServerClose ==
    /\ obs.stage \notin {"none", "closed"}
    /\ \E code \in CloseCodes :
            /\ code = AuthenticationFailed => obs.stage = "identify"
            /\ Emit([Frame(CloseFrame) EXCEPT !.code = code], [obs EXCEPT !.stage = "closed"])

ServerGarbles ==
    /\ Garbles
    /\ obs.stage \notin {"none", "closed"}
    /\ Emit([Frame(-1) EXCEPT !.decodes = FALSE], obs)

----------------------------------------------------------------------------

Init ==
    /\ pc = "connect"
    /\ ready = "pending"
    /\ conn = [state |-> "Connecting", attempt |-> 0, code |-> 0]
    /\ attempt = 0
    /\ lastError = ErrorOf("none")
    /\ wanted \in Subscriptions
    /\ session = NewSession(HasPassword, wanted, 1)
    /\ waiters = <<>>
    /\ asked = <<>>
    /\ stage = 0
    /\ commands = <<>>
    /\ reply = [c \in Waits |-> Idle]
    /\ dropped = FALSE
    /\ obs = NoObs
    /\ toClient = <<>>

Opening == ConnectOk \/ ConnectFails \/ WakeUp
Identifying == IdentifyFrame \/ Identified \/ IdentifyTimeout
OwnCall == WaitFrame \/ WaitBadFrame \/ WaitTimeout \/ OwnReply
Serving == TakeCall \/ TakeReidentify \/ TakeFrame \/ Deadline \/ Dispatch
Application ==
    \/ \E c \in Callers : Request(c) \/ ChangeSubscriptions(c) \/ Cancel(c)
    \/ DropClients
Server ==
    \/ ServerHello \/ ServerIdentified \/ ServerConfirms \/ ServerEvent
    \/ ServerAnswer \/ ServerClose \/ ServerGarbles

\* run() has returned and nobody has anything left to do.
Finished ==
    /\ pc = "stopped"
    /\ UNCHANGED vars

Next ==
    \/ Opening \/ Identifying \/ OwnCall \/ Serving \/ FlushFrame \/ SocketFails
    \/ Application \/ Server \/ Finished

Spec == Init /\ [][Next]_vars

\* The runtime polls a ready task, connection attempts and delays end, and
\* the socket takes a frame or breaks.
TaskFairness ==
    /\ WF_vars(ConnectOk \/ ConnectFails)
    /\ WF_vars(WakeUp)
    /\ WF_vars(FlushFrame)
    /\ WF_vars(IdentifyFrame \/ Identified)
    \* drive_once() ends with a frame or its timer, which is set anew for each frame
    /\ WF_vars(WaitFrame \/ WaitBadFrame \/ WaitTimeout)
    /\ WF_vars(TakeFrame)
    /\ WF_vars(Dispatch)
    \* the deadline of until_identified() is absolute
    /\ WF_vars(IdentifyTimeout)
    \* select! picks a ready branch at random, and overdue stays overdue
    /\ SF_vars(OwnReply)
    /\ SF_vars(TakeCall)
    /\ SF_vars(TakeReidentify)
    /\ SF_vars(Deadline)

FairSpec == Spec /\ TaskFairness

----------------------------------------------------------------------------
(* Properties.                                                             *)

Calls == [batch : BOOLEAN, who : Waits]
CommandRecords ==
    [who : Callers, kind : {"call", "batch"}, subs : {0}]
        \cup [who : Callers, kind : {"reidentify"}, subs : Subscriptions]

\* The variables hold what their declarations say, and the session, whoever
\* drives it, is well formed.
TypeOK ==
    /\ pc \in {"connect", "identify", "wait", "serve", "flush", "sleep", "stopped"}
    /\ ready \in {"pending", "ok", "failed"}
    /\ conn \in [state : {"Connecting", "Connected", "Reconnecting", "Closed"},
                 attempt : 0 .. AttemptMax, code : Nat]
    /\ attempt \in 0 .. AttemptMax
    /\ wanted \in Subscriptions
    /\ WellFormed(session)
    /\ \A id \in DOMAIN waiters : waiters[id] \in Calls
    /\ DOMAIN waiters \subseteq DOMAIN asked
    /\ DOMAIN asked \subseteq 1 .. session.nextId - 1
    /\ stage \in 0 .. Len(Startup)
    /\ commands \in Seq(CommandRecords)
    /\ DOMAIN reply = Waits
    /\ Len(toClient) <= MaxInFlight

\* A caller who waits has exactly one command or call that can end its wait,
\* and nobody waits for a driver that has stopped: no oneshot is lost between
\* the channel, the pump and a change of connection.
CallersTracked ==
    \A c \in Callers : reply[c].state = "waiting" =>
        /\ pc # "stopped"
        /\ Cardinality({i \in DOMAIN commands : commands[i].who = c})
              + Cardinality({id \in DOMAIN waiters : waiters[id].who = c}) = 1

\* The pump's map and the session's agree: a call has a waiter while the
\* session can still complete it or has an event that does, and a waiter is left
\* without either only if OBS answered its call as of the other kind, upon which
\* the session forgets the call (on_response, on_batch_response).
WaitersMatchPending ==
    LET owed == PendingIds(session)
                  \cup {session.events[i].id :
                          i \in {j \in DOMAIN session.events : IsCompletion(session.events[j])}}
    IN  owed \subseteq DOMAIN waiters /\ DOMAIN waiters \ owed \subseteq obs.misled

\* A caller gets the answer to its own request, although ids start again at 1
\* on every connection and answers arrive in any order, late ones too.
NobodyMisrouted ==
    \A c \in Waits : reply[c].ok => reply[c].from = {c}

\* Whenever the driver is back at its select!, an OBS that still listens
\* filters events by the subscriptions last asked for, over reconnects too.
SubscriptionsKept ==
    pc = "serve" /\ obs.stage = "identified" => obs.subs = wanted

\* Connected is published from the end of the startup calls until the
\* connection is lost, and only while the session is Identified; the driver
\* serves commands on no other.
ServesIdentified ==
    /\ conn.state = "Connected" <=> pc \in {"serve", "flush"}
    /\ pc \in {"wait", "serve"} => session.phase = "Identified"
    /\ pc = "flush" /\ session.phase # "Identified" => Closings(session.events) # {}

\* A refused password is never tried again: run() returns.
NeverRetriesRefused ==
    lastError.cause = "AuthFailed" => pc = "stopped"

\* connect(), the published states and the retries follow Lifecycle.
Life ==
    INSTANCE Lifecycle WITH
        connected <- ready,
        published <- conn.state,
        retry <- conn.attempt,
        retries <- attempt

ImplementsLifecycle == Life!Spec

\* Frames arrive in startup calls for ever, each before the timer of wait_reply()
\* runs out.  Retries being limited, it is one call that they keep waiting.
Flooded == []<><<WaitFrame>>_vars

\* Every request is answered, times out or is failed by the end of its
\* connection, if retries are limited and OBS answers calls as calls and batches
\* as batches; but one made while the driver reconnects waits in the channel as
\* long as a startup call is kept waiting.
CallsSettle ==
    \A c \in Callers : Flooded \/ ((reply[c].state = "waiting") ~> (reply[c].state # "waiting"))

\* Client::connect returns, against the same OBS, unless frames keep a startup
\* call waiting for ever.
ConnectReturns == Flooded \/ ((ready = "pending") ~> (ready # "pending"))

\* "Budget for each request": a startup call ends.  wait_reply() sets its timer
\* anew for every frame, events included, so those of a busy OBS keep a call
\* that is not answered waiting (drive_once).
StartupCallsEnd == \A n \in OwnCalls : (stage = n) ~> (stage # n)

\* "Dropping the last clone stops the driver."  The driver's own Arc<Inner>
\* holds a sender, so the channel never closes.
DroppedClientStops == dropped ~> (pc = "stopped")

=============================================================================
