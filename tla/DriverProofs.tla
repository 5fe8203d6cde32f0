----------------------------- MODULE DriverProofs -----------------------------
(***************************************************************************)
(* What holds of the driver (Driver.tla) for every number of callers,      *)
(* every list of startup calls, every reconnect policy, every server and   *)
(* every bound on the frames in transit.                                   *)
(*                                                                         *)
(* One inductive invariant carries the safety invariants.  Its parts:      *)
(*   Types      what the variables hold, the oneshots and frames included  *)
(*   Control    what is true at each await of the driver task              *)
(*   Ledger     the pump's map, the session's and the server's list of     *)
(*              open requests agree on which calls there are, and on their *)
(*              kinds                                                      *)
(*   Tracking   where the one entry of a caller is                         *)
(*   Filters    what the server was last told to send                      *)
(*   Announced  what the published state says of the driver's await        *)
(* The actions are first sorted into classes of steps; then each class is  *)
(* shown to preserve each part.                                            *)
(***************************************************************************)
EXTENDS Driver, SharedLemmas

USE DriverAssumption

----------------------------------------------------------------------------
(* The invariant.                                                          *)

Causes == Results \cup {"none", "Request", "Timeout", "Closed", "Disconnected",
                        "AuthFailed", "Protocol", "Unreachable"}

Oneshots == [state : {"idle", "waiting", "done", "cancelled"}, ok : BOOLEAN,
             cause : Causes, from : SUBSET Waits]

ServerFrame == [op : Int, decodes : BOOLEAN, auth : BOOLEAN, rpc : Nat, id : Nat,
                ok : BOOLEAN, code : Nat]

OpenRequests == [id : Nat, batch : BOOLEAN]

ObsStates == [stage : {"none", "open", "hello", "identify", "identified", "closed"},
              subs : Subscriptions \cup {0}, open : SUBSET OpenRequests,
              misled : SUBSET Nat, confirm : BOOLEAN]

Types ==
    /\ TypeOK
    /\ reply \in [Waits -> Oneshots]
    /\ toClient \in Seq(ServerFrame)
    /\ obs \in ObsStates

\* Between two connections there is nothing of a connection.
Offline == waiters = <<>> /\ asked = <<>> /\ obs = NoObs /\ toClient = <<>>

Control ==
    /\ ServesIdentified
    /\ pc # "flush" => session.events = <<>>
    /\ pc \in {"connect", "sleep", "stopped"} => Offline
    /\ pc = "identify" => waiters = <<>>
    /\ pc = "identify" /\ session.negotiated # 0 => session.phase = "Identified"
    /\ pc = "wait" => stage \in OwnCalls /\ Owners(waiters) \subseteq OwnCalls
    /\ pc = "wait" /\ session.outgoing # <<>> => reply[stage].state = "waiting"
    /\ pc = "serve" => session.outgoing = <<>>
    /\ pc = "stopped" => commands = <<>>

\* A call with this id and of this kind can have been issued.
Issued(ss, id, batch) ==
    /\ id \in 1 .. ss.nextId - 1
    /\ id \in PendingIds(ss) => ss.pending[id].batch = batch

IsAnswer(m) == m.op \in {OpRequestResponse, OpRequestBatchResponse}

Ledger ==
    /\ WaitersMatchPending
    /\ Exclusive(session, session.events)
    /\ \A id \in DOMAIN waiters : asked[id] = {waiters[id].who}
    /\ \A frame \in ToSet(session.outgoing) :
            IsCall(frame) => Issued(session, frame.id, frame.op = OpRequestBatch)
    /\ \A r \in obs.open : Issued(session, r.id, r.batch)
    /\ \A m \in ToSet(toClient) :
            IsAnswer(m) => \/ m.id \in obs.misled
                           \/ Issued(session, m.id, m.op = OpRequestBatchResponse)
    /\ NobodyMisrouted

\* The positions of a caller in the channel, and its calls in the pump's map.
Queued(c) == {i \in DOMAIN commands : commands[i].who = c}
Open(c) == {id \in DOMAIN waiters : waiters[id].who = c}

Tracking ==
    \A c \in Callers :
        /\ \A i, j \in Queued(c) : i = j
        /\ \A i, j \in Open(c) : i = j
        /\ Queued(c) = {} \/ Open(c) = {}
        /\ reply[c].state = "waiting" => Queued(c) # {} \/ Open(c) # {}
        /\ reply[c].state = "idle" => Queued(c) = {} /\ Open(c) = {}

Reidentifies == \E frame \in ToSet(session.outgoing) : frame.op = OpReidentify

Filters ==
    /\ session.subs = wanted
    /\ \A frame \in ToSet(session.outgoing) :
            frame.op \in {OpIdentify, OpReidentify} => frame.subs = wanted
    /\ obs.stage \in {"identify", "identified"} => obs.subs = wanted \/ Reidentifies
    /\ \/ Reidentifies
       \/ \E m \in ToSet(toClient) : m.op = OpIdentified
       \/ session.phase = "Identified"
       => obs.stage \in {"identified", "closed"}

Announced ==
    /\ ready = "pending" <=> conn.state = "Connecting"
    /\ ready = "pending" => conn.attempt = 0
    /\ conn.state = "Connecting" => pc \in {"connect", "identify", "wait"}
    /\ pc \in {"connect", "identify", "wait"} => conn.state \in {"Connecting", "Reconnecting"}
    /\ pc = "sleep" => conn.state = "Reconnecting"
    /\ pc = "stopped" => conn.state = "Closed"

IInv == Types /\ Control /\ Ledger /\ Tracking /\ Filters /\ Announced

----------------------------------------------------------------------------
(* Events and oneshots.                                                    *)

Errors == [cause : Causes, code : Nat]

\* The errors the driver makes are errors.
LEMMA ErrorsTyped ==
    /\ \A cause \in Causes : ErrorOf(cause) \in Errors
    /\ \A code \in Nat : MapClosed(code) \in Errors
    /\ \A error : MapSessionError(error) \in Errors
<1>1. \A cause \in Causes : ErrorOf(cause) \in Errors
  BY DEF ErrorOf, Errors
<1>2. {"AuthFailed", "Protocol", "Closed"} \subseteq Causes
  BY DEF Causes
<1>3. \A code \in Nat : MapClosed(code) \in Errors
  BY <1>1, <1>2 DEF MapClosed, Errors
<1>4. \A error : MapSessionError(error) \in Errors
  BY <1>1, <1>2 DEF MapSessionError
<1> QED
  BY <1>1, <1>3, <1>4

\* A Closed event carries a code.
LEMMA ClosingsFound ==
    ASSUME NEW events \in Seq(SessionEvent), Closings(events) # {}
    PROVE  /\ Min(Closings(events)) \in DOMAIN events
           /\ ClosedBy(events) \in Errors
           /\ MapClosed(events[Max(Closings(events))].code) \in Errors
<1> DEFINE S == Closings(events)
<1>1. S \subseteq DOMAIN events /\ DOMAIN events = 1 .. Len(events) /\ Len(events) \in Nat
  BY LenProperties DEF Closings
<1>2. \A i \in S : events[i].code \in Nat
  BY DEF Closings, SessionEvent
<1> HIDE DEF S
<1>3. S \subseteq Nat /\ S # {}
  BY <1>1 DEF S
<1>4. Min(S) \in S /\ Max(S) \in S
  BY <1>1, <1>3, LeastOfNat, GreatestOfRange
<1> QED
  BY <1>1, <1>2, <1>4, ErrorsTyped DEF ClosedBy, S

\* dispatch() sees events of the session only, and all of them unless one is Closed.
LEMMA DeliveredElements ==
    ASSUME NEW events \in Seq(SessionEvent)
    PROVE  /\ ToSet(Delivered(events)) \subseteq ToSet(events)
           /\ ToSet(events) \subseteq SessionEvent
           /\ Closings(events) = {} => Delivered(events) = events
<1>1. ToSet(events) \subseteq SessionEvent
  BY DEF ToSet
<1>2. ASSUME Closings(events) # {}
      PROVE  ToSet(Delivered(events)) \subseteq ToSet(events)
  <2> DEFINE m == Min(Closings(events)) - 1
  <2>1. m \in Nat /\ m < Len(events) /\ Len(events) \in Nat /\ DOMAIN events = 1 .. Len(events)
    BY <1>2, ClosingsFound, LenProperties
  <2>2. Delivered(events) = SubSeq(events, 1, m)
    BY <1>2 DEF Delivered
  <2> HIDE DEF m
  <2>3. /\ DOMAIN SubSeq(events, 1, m) = 1 .. m
        /\ \A i \in 1 .. m : SubSeq(events, 1, m)[i] = events[i] /\ i \in DOMAIN events
    BY <2>1
  <2> QED
    BY <2>2, <2>3 DEF ToSet
<1> QED
  BY <1>1, <1>2 DEF Delivered

\* A completed call has the event that completes it.
LEMMA CompletionFound ==
    ASSUME NEW events \in Seq(SessionEvent), NEW id \in Completed(events)
    PROVE  /\ CompletionOf(events, id) \in SessionEvent
           /\ IsCompletion(CompletionOf(events, id))
           /\ id \in DOMAIN waiters
<1>1. PICK i \in DOMAIN Delivered(events) :
            IsCompletion(Delivered(events)[i]) /\ Delivered(events)[i].id = id
  BY DEF Completed
<1>2. Delivered(events)[i] \in ToSet(events) /\ ToSet(events) \subseteq SessionEvent
  BY DeliveredElements DEF ToSet
<1>3. \E event \in ToSet(events) : IsCompletion(event) /\ event.id = id
  BY <1>1, <1>2
<1> QED
  BY <1>2, <1>3 DEF CompletionOf, Completed

\* What a completion makes of a oneshot.
LEMMA OutcomeTyped ==
    ASSUME IInv, NEW events \in Seq(SessionEvent), NEW id \in Completed(events)
    PROVE  LET o == Outcome(CompletionOf(events, id), id)
           IN  /\ o \in Oneshots /\ o.state = "done"
               /\ o.ok => o.from = {waiters[id].who}
<1> DEFINE event == CompletionOf(events, id)
           o == Outcome(event, id)
<1>1. event \in SessionEvent /\ IsCompletion(event) /\ id \in DOMAIN waiters
  BY CompletionFound
<1>2. /\ waiters[id].batch \in BOOLEAN /\ waiters[id].who \in Waits
      /\ asked[id] = {waiters[id].who}
  BY <1>1 DEF IInv, Types, TypeOK, Calls, Ledger
<1>3. event.result \in Results
  BY <1>1 DEF SessionEvent, IsCompletion
<1> HIDE DEF event
<1>4. \/ \E cause \in Causes : o = Failure(cause)
      \/ \E cause \in Causes : o = Done(TRUE, cause, {waiters[id].who})
  BY <1>2, <1>3 DEF Outcome, MapFailure, Results, Causes
<1> HIDE DEF o
<1>5. \A cause \in Causes, from \in SUBSET Waits :
            /\ Done(TRUE, cause, from) \in Oneshots /\ Done(TRUE, cause, from).state = "done"
            /\ Done(TRUE, cause, from).from = from
            /\ Failure(cause) \in Oneshots /\ Failure(cause).state = "done"
            /\ Failure(cause).ok = FALSE
  BY DEF Done, Failure, Oneshots
<1>6. CASE \E cause \in Causes : o = Failure(cause)
  <2>1. o \in Oneshots /\ o.state = "done" /\ o.ok = FALSE
    BY <1>5, <1>6
  <2> QED
    BY <2>1 DEF o, event
<1>7. CASE \E cause \in Causes : o = Done(TRUE, cause, {waiters[id].who})
  <2>1. PICK cause \in Causes : o = Done(TRUE, cause, {waiters[id].who})
    BY <1>7
  <2>2. o \in Oneshots /\ o.state = "done" /\ o.from = {waiters[id].who}
    <3>1. PICK from \in SUBSET Waits : from = {waiters[id].who}
      BY <1>2
    <3>2. o = Done(TRUE, cause, from)
      BY <2>1, <3>1
    <3> QED
      BY <1>5, <3>1, <3>2
  <2> QED
    BY <2>2 DEF o, event
<1> QED
  BY <1>4, <1>6, <1>7

\* Some of those who waited for a call have been told how it ended.
Released(replies) ==
    /\ replies \in [Waits -> Oneshots]
    /\ \A c \in Waits :
            \/ replies[c] = reply[c]
            \/ /\ reply[c].state = "waiting" /\ replies[c].state = "done"
               /\ replies[c].ok => replies[c].from = {c}
               /\ c \in Owners(waiters)

AllReleased(replies) == \A c \in Callers \cap Owners(waiters) : replies[c].state # "waiting"

\* Nobody need be told anything ...
LEMMA NobodyReleased ==
    ASSUME IInv
    PROVE  Released(reply)
  BY DEF IInv, Types, Released

\* ... dispatch() tells those whose call an event completes ...
LEMMA RepliesReleased ==
    ASSUME IInv, NEW events \in Seq(SessionEvent)
    PROVE  /\ Released(Replies(events))
           /\ \A id \in Completed(events) : Replies(events)[waiters[id].who].state # "waiting"
           /\ \A c \in Waits : (\A id \in Completed(events) : waiters[id].who # c)
                                    => Replies(events)[c] = reply[c]
<1> DEFINE Ids(c) == {id \in Completed(events) : waiters[id].who = c}
<1>1. Completed(events) \subseteq DOMAIN waiters /\ DOMAIN waiters \subseteq Nat
  BY DEF Completed, IInv, Types, TypeOK, WellFormed, WellTyped
<1>2. \A id \in DOMAIN waiters : waiters[id].who \in Waits
  BY DEF IInv, Types, TypeOK, Calls
<1>3. reply \in [Waits -> Oneshots]
  BY DEF IInv, Types
<1>4. \A c \in Waits : Ids(c) # {} => Min(Ids(c)) \in Ids(c)
  <2> TAKE c \in Waits
  <2>1. Ids(c) \subseteq Nat
    BY <1>1
  <2> HIDE DEF Ids
  <2> QED
    BY <2>1, LeastOfNat
<1>5. \A c \in Waits :
        IF Ids(c) # {} /\ reply[c].state = "waiting"
        THEN \E id \in Ids(c) : Replies(events)[c] = Outcome(CompletionOf(events, id), id)
        ELSE Replies(events)[c] = reply[c]
  <2> TAKE c \in Waits
  <2>1. Replies(events)[c] =
            IF Ids(c) # {} /\ reply[c].state = "waiting"
            THEN Outcome(CompletionOf(events, Min(Ids(c))), Min(Ids(c))) ELSE reply[c]
    BY DEF Replies
  <2> HIDE DEF Ids
  <2> QED
    BY <1>4, <2>1
<1>6. \A c \in Waits :
            /\ Replies(events)[c] \in Oneshots
            /\ \/ /\ Replies(events)[c] = reply[c]
                  /\ Ids(c) = {} \/ reply[c].state # "waiting"
               \/ /\ reply[c].state = "waiting" /\ Replies(events)[c].state = "done"
                  /\ Replies(events)[c].ok => Replies(events)[c].from = {c}
                  /\ c \in Owners(waiters)
  <2> TAKE c \in Waits
  <2>1. CASE Ids(c) # {} /\ reply[c].state = "waiting"
    <3>1. PICK id \in Ids(c) : Replies(events)[c] = Outcome(CompletionOf(events, id), id)
      BY <1>5, <2>1
    <3>2. id \in Completed(events) /\ waiters[id].who = c /\ c \in Owners(waiters)
      BY <1>1 DEF Owners
    <3>3. LET o == Outcome(CompletionOf(events, id), id)
          IN  o \in Oneshots /\ o.state = "done" /\ (o.ok => o.from = {c})
      BY <3>2, OutcomeTyped
    <3> QED
      BY <2>1, <3>1, <3>2, <3>3
  <2>2. CASE ~(Ids(c) # {} /\ reply[c].state = "waiting")
    BY <1>3, <1>5, <2>2
  <2> QED
    BY <2>1, <2>2
<1>7. Replies(events) = [c \in Waits |-> Replies(events)[c]]
  BY DEF Replies
<1>8. Released(Replies(events))
  BY <1>6, <1>7 DEF Released
<1>9. \A id \in Completed(events) : waiters[id].who \in Waits /\ id \in Ids(waiters[id].who)
  BY <1>1, <1>2
<1>10. \A c \in Waits : (\A id \in Completed(events) : waiters[id].who # c) => Ids(c) = {}
  OBVIOUS
<1> HIDE DEF Ids
<1>11. \A id \in Completed(events) : Replies(events)[waiters[id].who].state # "waiting"
  BY <1>6, <1>9
<1> QED
  BY <1>5, <1>8, <1>10, <1>11

\* ... and fail_pending() tells everybody.
LEMMA FailureReleases ==
    ASSUME IInv, NEW replies, Released(replies), NEW error \in Errors
    PROVE  /\ Released(FailWaiters(replies, error))
           /\ AllReleased(FailWaiters(replies, error))
<1> DEFINE o == Failure(error.cause)
           after == FailWaiters(replies, error)
<1>1. o \in Oneshots /\ o.state = "done" /\ o.ok = FALSE
  BY DEF Failure, Done, Oneshots, Errors
<1>2. after = [c \in Waits |-> IF c \in Owners(waiters) /\ replies[c].state = "waiting"
                               THEN o ELSE replies[c]]
  BY DEF FailWaiters, Settle
<1> HIDE DEF o, after
<1>3. Released(after)
  BY <1>1, <1>2 DEF Released
<1>4. AllReleased(after)
  BY <1>1, <1>2 DEF AllReleased, Waits
<1> QED
  BY <1>3, <1>4 DEF after

----------------------------------------------------------------------------
(* The steps, sorted.                                                      *)

\* A frame is used up, or was not needed.
OneFrameAtMost == toClient' = toClient \/ (toClient # <<>> /\ toClient' = Tail(toClient))

\* The connection ends, and nobody is left waiting for it.
EndStep ==
    /\ pc \notin {"sleep", "stopped"}
    /\ \E error \in Errors : \E replies :
            /\ Released(replies) /\ AllReleased(replies)
            /\ Disconnected(error, replies)

\* The calls that ended on the way to session s are handed over.
CompletionStep(s) ==
    /\ Settles(session, s, obs.misled) /\ s.subs = session.subs
    /\ session.outgoing = <<>> /\ s.outgoing = <<>>
    /\ session.phase = "Identified" /\ s.phase = "Identified" /\ Closings(s.events) = {}
    /\ (pc = "wait" /\ pc' = "wait") \/ (pc = "flush" /\ pc' = "serve")
    /\ session' = Drained(s)
    /\ waiters' = WaitersLeft(s.events)
    /\ reply' = Replies(s.events)
    /\ OneFrameAtMost
    /\ UNCHANGED <<runVars, wanted, stage, asked, commands, dropped, obs>>

\* A frame moves the handshake.
GreetingStep(s) ==
    /\ pc = "identify" /\ toClient # <<>> /\ session.negotiated = 0
    /\ Settles(session, s, obs.misled) /\ MessageKeeps(session, s, Head(toClient).op)
    /\ session' = Drained(s)
    /\ toClient' = Tail(toClient)
    /\ UNCHANGED <<pc, runVars, wanted, waiters, stage, asked, commands, reply, dropped, obs>>

\* The driver makes its n-th call.
OwnCallStep(n) ==
    /\ pc \in {"identify", "wait"} /\ session.phase = "Identified"
    /\ pc' = "wait" /\ stage' = n /\ n \in OwnCalls
    /\ Begin(n, Startup[n], [reply EXCEPT ![n] = Waiting])
    /\ OneFrameAtMost
    /\ UNCHANGED <<runVars, wanted, commands, dropped, obs>>

\* The driver's own calls are over.
AnnounceStep ==
    /\ pc = "wait" /\ session.outgoing = <<>>
    /\ pc' = "serve" /\ stage' = 0 /\ ready' = "ok"
    /\ conn' = [state |-> "Connected", attempt |-> 0, code |-> 0]
    /\ reply' = CallersOnly(reply)
    /\ OneFrameAtMost
    /\ UNCHANGED <<session, waiters, asked, attempt, lastError, wanted, commands, dropped, obs>>

\* The select! has taken a frame or noticed a deadline.
SelectStep(s) ==
    /\ pc = "serve" /\ pc' = "flush"
    /\ Settles(session, s, obs.misled) /\ s.subs = session.subs /\ s.outgoing = session.outgoing
    /\ s.phase = "Identified" \/ Closings(s.events) # {}
    /\ session' = s
    /\ OneFrameAtMost
    /\ UNCHANGED <<runVars, wanted, waiters, stage, asked, commands, reply, dropped, obs>>

\* A task makes a request.
CommandStep(c, command) ==
    /\ c \in Callers /\ command \in CommandRecords /\ command.who = c
    /\ Call(c, command)

\* OBS sends a frame.
ServerStep(frame, after) ==
    /\ frame \in ServerFrame /\ after \in ObsStates
    /\ Emit(frame, after)
    /\ obs.stage # "none" /\ after.subs = obs.subs /\ after.open \subseteq obs.open
    /\ obs.misled \subseteq after.misled
    /\ \/ after.stage \in {obs.stage, "closed"}
       \/ obs.stage = "open" /\ after.stage = "hello"
       \/ obs.stage = "identify" /\ after.stage = "identified"
    /\ frame.op = OpIdentified => after.stage = "identified"
    /\ IsAnswer(frame) =>
            \/ frame.id \in after.misled
            \/ \E r \in obs.open :
                    r.id = frame.id /\ r.batch = (frame.op = OpRequestBatchResponse)

\* What an Identified session makes of a frame.
LEMMA IngestSettles ==
    ASSUME IInv, toClient # <<>>
    PROVE  LET r == Ingest(Head(toClient))
           IN  /\ Settles(session, r.session, obs.misled) /\ r.session.subs = session.subs
               /\ \/ Closings(r.session.events) # {}
                  \/ MessageKeeps(session, r.session, Head(toClient).op)
               /\ session.phase = "Identified" =>
                    /\ r.session.outgoing = session.outgoing
                    /\ r.session.phase = "Identified" \/ Closings(r.session.events) # {}
<1> DEFINE m == Head(toClient)
           s == Ingest(m).session
<1>1. m \in ServerFrame /\ m \in ToSet(toClient)
  BY TailElements DEF IInv, Types
<1>2. WellFormed(session) /\ Exclusive(session, session.events)
  BY DEF IInv, Types, TypeOK, Ledger
<1>3. IsIncoming(m) /\ m.code \in Nat
  BY <1>1 DEF ServerFrame, IsIncoming
<1>4. Fitting(session, m) \/ m.id \in obs.misled
  <2>1. IsAnswer(m) => \/ m.id \in obs.misled
                       \/ Issued(session, m.id, m.op = OpRequestBatchResponse)
    BY <1>1 DEF IInv, Ledger
  <2> HIDE DEF m
  <2> QED
    BY <2>1, Zenon DEF IsAnswer, Issued, Fitting
<1> HIDE DEF m
<1>5. CASE m.op = CloseFrame
  <2>1. s = HandleClose(session, m.code)
    BY <1>5 DEF Ingest, Ok
  <2>2. /\ Settles(session, s, obs.misled) /\ s.subs = session.subs /\ s.outgoing = session.outgoing
        /\ \E i \in DOMAIN s.events : s.events[i].type = "Closed"
    BY <1>2, <1>3, <2>1, CloseSettles
  <2>3. Closings(s.events) # {}
    BY <2>2 DEF Closings
  <2> QED
    BY <2>2, <2>3 DEF m
<1>6. CASE m.op # CloseFrame
  <2>1. s = HandleMessage(session, m, TRUE).session
    BY <1>6 DEF Ingest
  <2>2. Settles(session, s, obs.misled) /\ MessageKeeps(session, s, m.op)
    BY <1>2, <1>3, <1>4, <2>1, MessageSettles, MessageKept
  <2>3. /\ s.subs = session.subs
        /\ session.phase = "Identified" => s.outgoing = session.outgoing /\ s.phase = "Identified"
    BY <2>2 DEF MessageKeeps
  <2> QED
    BY <2>2, <2>3 DEF m
<1> QED
  BY <1>5, <1>6

\* A session settles nothing by standing still.
LEMMA StutterSettles ==
    ASSUME NEW ss, WellFormed(ss), Exclusive(ss, ss.events), NEW lost
    PROVE  Settles(ss, ss, lost)
  BY DEF Settles

\* What the end of a connection needs when the pump has told nobody.
LEMMA NobodyLeft ==
    ASSUME IInv, pc \in {"connect", "identify", "wait"}
    PROVE  Released(reply) /\ AllReleased(reply)
<1>1. waiters = <<>> => Owners(waiters) = {}
  BY DEF Owners
<1>2. OwnCalls \subseteq Nat
  BY LenProperties DEF OwnCalls
<1>3. Callers \cap Owners(waiters) = {}
  BY <1>1, <1>2 DEF IInv, Control, Offline
<1> QED
  BY <1>3, NobodyReleased DEF AllReleased

\* Every way to lose a connection is one step.
LEMMA EveryEnd ==
    ASSUME IInv, NEW error \in Errors, pc \notin {"sleep", "stopped"},
           NEW events \in Seq(SessionEvent),
           \/ pc \in {"connect", "identify", "wait"} /\ Disconnected(error, reply)
           \/ Disconnected(error, FailWaiters(reply, error))
           \/ Disconnected(error, FailWaiters(Replies(events), error))
    PROVE  EndStep
<1>1. Released(FailWaiters(reply, error)) /\ AllReleased(FailWaiters(reply, error))
  BY NobodyReleased, FailureReleases
<1>2. /\ Released(FailWaiters(Replies(events), error))
      /\ AllReleased(FailWaiters(Replies(events), error))
  BY RepliesReleased, FailureReleases
<1> QED
  BY <1>1, <1>2, NobodyLeft DEF EndStep

\* A step of drive_once() during a call of the driver's own.
LEMMA DispatchOwnStep ==
    ASSUME IInv, pc = "wait", NEW s, Settles(session, s, obs.misled), s.subs = session.subs,
           session.outgoing = <<>>, s.outgoing = <<>>,
           s.phase = "Identified" \/ Closings(s.events) # {},
           DispatchOwn(s), Closings(s.events) = {} => OneFrameAtMost
    PROVE  EndStep \/ CompletionStep(s)
<1>1. s.events \in Seq(SessionEvent)
  BY DEF Settles, WellFormed, WellTyped
<1>2. CASE Closings(s.events) # {}
  <2>1. ClosedBy(s.events) \in Errors
    BY <1>1, <1>2, ClosingsFound
  <2>2. Disconnected(ClosedBy(s.events), FailWaiters(Replies(s.events), ClosedBy(s.events)))
    BY <1>2 DEF DispatchOwn
  <2> QED
    BY <1>1, <2>1, <2>2, EveryEnd
<1>3. CASE Closings(s.events) = {}
  BY <1>3 DEF DispatchOwn, CompletionStep, IInv, Control, ServesIdentified
<1> QED
  BY <1>2, <1>3

\* The steps of the handshake are greetings, or end the connection.
LEMMA IdentifyingStep ==
    ASSUME IInv, IdentifyFrame \/ IdentifyTimeout
    PROVE  EndStep \/ \E s : GreetingStep(s)
<1>1. /\ pc = "identify" /\ session.negotiated = 0
      /\ \A cause \in {"Timeout"} : ErrorOf(cause) \in Errors
      /\ <<>> \in Seq(SessionEvent)
  BY ErrorsTyped DEF IdentifyFrame, IdentifyTimeout, Causes
<1>2. CASE IdentifyTimeout
  <2>1. ErrorOf("Timeout") \in Errors /\ Disconnected(ErrorOf("Timeout"), reply)
    BY <1>1, <1>2 DEF IdentifyTimeout
  <2> QED
    BY <1>1, <2>1, EveryEnd
<1>3. CASE IdentifyFrame
  <2> DEFINE r == Ingest(Head(toClient))
             error == MapClosed(r.session.events[Max(Closings(r.session.events))].code)
  <2>1. toClient # <<>>
    BY <1>3 DEF IdentifyFrame
  <2>2. /\ Settles(session, r.session, obs.misled)
        /\ \/ Closings(r.session.events) # {}
           \/ MessageKeeps(session, r.session, Head(toClient).op)
    BY <2>1, IngestSettles
  <2>3. \/ Disconnected(MapSessionError(r.error), reply)
        \/ Closings(r.session.events) # {} /\ Disconnected(error, reply)
        \/ /\ Closings(r.session.events) = {}
           /\ session' = Drained(r.session)
           /\ toClient' = Tail(toClient)
           /\ UNCHANGED <<pc, runVars, wanted, waiters, stage, asked, commands, reply,
                          dropped, obs>>
    BY <1>3 DEF IdentifyFrame
  <2> HIDE DEF r
  <2>4. MapSessionError(r.error) \in Errors
    BY ErrorsTyped
  <2>5. Closings(r.session.events) # {} => error \in Errors
    BY <2>2, ClosingsFound DEF Settles, WellFormed, WellTyped
  <2> HIDE DEF error
  <2>6. CASE Disconnected(MapSessionError(r.error), reply)
    BY <1>1, <2>4, <2>6, EveryEnd
  <2>7. CASE Closings(r.session.events) # {} /\ Disconnected(error, reply)
    BY <1>1, <2>5, <2>7, EveryEnd
  <2>8. CASE /\ Closings(r.session.events) = {}
             /\ session' = Drained(r.session)
             /\ toClient' = Tail(toClient)
             /\ UNCHANGED <<pc, runVars, wanted, waiters, stage, asked, commands, reply,
                            dropped, obs>>
    <3>1. GreetingStep(r.session)
      BY <1>1, <2>1, <2>2, <2>8 DEF GreetingStep
    <3> QED
      BY <3>1
  <2> QED
    BY <2>3, <2>6, <2>7, <2>8
<1> QED
  BY <1>2, <1>3

\* A startup call, or the end of their list, is a step of the driver's own.
LEMMA BeginOwnStep ==
    ASSUME IInv, NEW n \in Nat \ {0}, pc \in {"identify", "wait"},
           session.phase = "Identified", BeginOwn(n),
           n > Len(Startup) => pc = "wait" /\ session.outgoing = <<>>,
           OneFrameAtMost,
           UNCHANGED <<attempt, lastError, wanted, commands, dropped, obs>>
    PROVE  OwnCallStep(n) \/ AnnounceStep
<1>1. Len(Startup) \in Nat /\ OwnCalls = 1 .. Len(Startup)
  BY LenProperties DEF OwnCalls
<1>2. CASE n <= Len(Startup)
  BY <1>1, <1>2 DEF BeginOwn, OwnCallStep, runVars
<1>3. CASE n > Len(Startup)
  BY <1>1, <1>3 DEF BeginOwn, AnnounceStep
<1> QED
  BY <1>1, <1>2, <1>3

\* The handshake's end and the answers to the startup calls, sorted.
LEMMA OwnCallsStep ==
    ASSUME IInv, Identified \/ OwnCall
    PROVE  EndStep \/ (\E s : CompletionStep(s)) \/ (\E n : OwnCallStep(n)) \/ AnnounceStep
<1>1. WellFormed(session) /\ Exclusive(session, session.events) /\ session.nextId \in Nat
  BY DEF IInv, Types, TypeOK, Ledger, WellFormed, WellTyped
<1>2. /\ pc = "wait" => session.phase = "Identified" /\ stage \in Nat \ {0}
      /\ pc = "wait" /\ session.outgoing # <<>> => reply[stage].state = "waiting"
  BY LenProperties DEF IInv, Control, ServesIdentified, OwnCalls
<1>3. \A n \in AfterOwn(stage) : stage \in Nat => n \in Nat \ {0}
  BY DEF AfterOwn
<1>4. CASE Identified
  <2>1. /\ BeginOwn(1) /\ pc = "identify" /\ session.phase = "Identified"
        /\ UNCHANGED <<attempt, lastError, wanted, commands, dropped, obs>>
    BY <1>4 DEF Identified, IInv, Control, netVars
  <2>2. OneFrameAtMost
    BY <1>4 DEF Identified, OneFrameAtMost, netVars
  <2>3. ~(1 > Len(Startup))
    BY LenProperties
  <2> QED
    BY <2>1, <2>2, <2>3, BeginOwnStep
<1>5. CASE WaitFrame
  <2> DEFINE r == Ingest(Head(toClient))
  <2>1. /\ pc = "wait" /\ session.outgoing = <<>> /\ toClient # <<>>
        /\ DispatchOwn(r.session)
        /\ toClient' = IF Closings(r.session.events) = {} THEN Tail(toClient) ELSE <<>>
    BY <1>5 DEF WaitFrame
  <2>2. /\ Settles(session, r.session, obs.misled) /\ r.session.subs = session.subs
        /\ r.session.outgoing = session.outgoing
        /\ r.session.phase = "Identified" \/ Closings(r.session.events) # {}
    BY <1>2, <2>1, IngestSettles
  <2> HIDE DEF r
  <2>3. Closings(r.session.events) = {} => OneFrameAtMost
    BY <2>1 DEF OneFrameAtMost
  <2>4. EndStep \/ CompletionStep(r.session)
    BY <2>1, <2>2, <2>3, DispatchOwnStep
  <2> QED
    BY <2>4
<1>6. CASE WaitTimeout
  <2> DEFINE s == HandleTimeout(session, session.nextId)
  <2>1. /\ pc = "wait" /\ session.outgoing = <<>> /\ DispatchOwn(s) /\ toClient' = toClient
    BY <1>6 DEF WaitTimeout
  <2>2. /\ Settles(session, s, obs.misled) /\ s.subs = session.subs
        /\ s.outgoing = session.outgoing /\ s.phase = session.phase
    BY <1>1, TimeoutSettles
  <2> HIDE DEF s
  <2>3. EndStep \/ CompletionStep(s)
    BY <1>2, <2>1, <2>2, DispatchOwnStep DEF OneFrameAtMost
  <2> QED
    BY <2>3
<1>7. CASE WaitBadFrame
  <2>1. /\ pc = "wait" /\ session.outgoing = <<>> /\ OneFrameAtMost
        /\ UNCHANGED <<attempt, lastError, wanted, commands, dropped, obs>>
        /\ \E n \in AfterOwn(stage) : BeginOwn(n)
    BY <1>7 DEF WaitBadFrame, OneFrameAtMost
  <2>2. PICK n \in AfterOwn(stage) : BeginOwn(n)
    BY <2>1
  <2>3. OwnCallStep(n) \/ AnnounceStep
    BY <1>2, <1>3, <2>1, <2>2, BeginOwnStep
  <2> QED
    BY <2>3
<1>8. CASE OwnReply
  <2>1. pc = "wait" /\ session.outgoing = <<>> /\ reply[stage] \in Oneshots
    BY <1>2, <1>8 DEF OwnReply, IInv, Types, Control, Waits
  <2>2. CASE Disconnected(ErrorOf(reply[stage].cause), reply)
    <3>1. ErrorOf(reply[stage].cause) \in Errors /\ <<>> \in Seq(SessionEvent)
      BY <2>1, ErrorsTyped DEF Oneshots
    <3> QED
      BY <2>1, <2>2, <3>1, EveryEnd
  <2>3. CASE /\ \E n \in AfterOwn(stage) : BeginOwn(n)
             /\ UNCHANGED <<attempt, lastError, wanted, commands, dropped, netVars>>
    <3>1. PICK n \in AfterOwn(stage) : BeginOwn(n)
      BY <2>3
    <3>2. OneFrameAtMost
      BY <2>3 DEF OneFrameAtMost, netVars
    <3>3. OwnCallStep(n) \/ AnnounceStep
      BY <1>2, <1>3, <2>1, <2>3, <3>1, <3>2, BeginOwnStep DEF netVars
    <3> QED
      BY <3>3
  <2> QED
    BY <1>8, <2>2, <2>3 DEF OwnReply
<1> QED
  BY <1>4, <1>5, <1>6, <1>7, <1>8 DEF OwnCall

\* The steps of an identified driver, sorted.
LEMMA ServingStep ==
    ASSUME IInv, TakeFrame \/ Deadline \/ Dispatch
    PROVE  EndStep \/ (\E s : CompletionStep(s)) \/ (\E s : SelectStep(s))
<1>1. WellFormed(session) /\ Exclusive(session, session.events) /\ session.events \in Seq(SessionEvent)
  BY DEF IInv, Types, TypeOK, Ledger, WellFormed, WellTyped
<1>2. /\ pc = "serve" => session.phase = "Identified"
      /\ pc = "flush" => session.phase = "Identified" \/ Closings(session.events) # {}
  BY DEF IInv, Control, ServesIdentified
<1>3. CASE TakeFrame
  <2> DEFINE r == Ingest(Head(toClient))
             error == MapSessionError(r.error)
  <2>1. /\ pc = "serve" /\ toClient # <<>>
        /\ \/ Disconnected(error, FailWaiters(reply, error))
           \/ /\ session' = r.session /\ toClient' = Tail(toClient) /\ pc' = "flush"
              /\ UNCHANGED <<runVars, wanted, waiters, stage, asked, commands, reply,
                             dropped, obs>>
    BY <1>3 DEF TakeFrame
  <2>2. /\ Settles(session, r.session, obs.misled) /\ r.session.subs = session.subs
        /\ r.session.outgoing = session.outgoing
        /\ r.session.phase = "Identified" \/ Closings(r.session.events) # {}
    BY <1>2, <2>1, IngestSettles
  <2>3. error \in Errors
    BY ErrorsTyped
  <2> HIDE DEF r, error
  <2>4. CASE Disconnected(error, FailWaiters(reply, error))
    BY <1>1, <2>1, <2>3, <2>4, EveryEnd
  <2>5. CASE /\ session' = r.session /\ toClient' = Tail(toClient) /\ pc' = "flush"
             /\ UNCHANGED <<runVars, wanted, waiters, stage, asked, commands, reply,
                            dropped, obs>>
    <3>1. SelectStep(r.session)
      BY <2>1, <2>2, <2>5 DEF SelectStep, OneFrameAtMost
    <3> QED
      BY <3>1
  <2> QED
    BY <2>1, <2>4, <2>5
<1>4. CASE Deadline
  <2>1. PICK now \in DOMAIN waiters : session' = HandleTimeout(session, now)
    BY <1>4 DEF Deadline
  <2>2. now \in Nat
    BY DEF IInv, Types, TypeOK, WellFormed, WellTyped
  <2>3. /\ Settles(session, session', obs.misled) /\ session'.subs = session.subs
        /\ session'.outgoing = session.outgoing /\ session'.phase = session.phase
    BY <1>1, <2>1, <2>2, TimeoutSettles
  <2>4. SelectStep(session')
    BY <1>2, <1>4, <2>3 DEF Deadline, SelectStep, OneFrameAtMost, netVars
  <2> QED
    BY <2>4
<1>5. CASE Dispatch
  <2> DEFINE error == ClosedBy(session.events)
  <2>1. pc = "flush" /\ session.outgoing = <<>>
    BY <1>5 DEF Dispatch
  <2>2. CASE Closings(session.events) # {}
    <3>1. error \in Errors /\ Disconnected(error, FailWaiters(Replies(session.events), error))
      BY <1>1, <1>5, <2>2, ClosingsFound DEF Dispatch
    <3> HIDE DEF error
    <3> QED
      BY <1>1, <2>1, <3>1, EveryEnd
  <2>3. CASE Closings(session.events) = {}
    <3>1. Settles(session, session, obs.misled)
      BY <1>1, StutterSettles
    <3>2. CompletionStep(session)
      BY <1>2, <1>5, <2>1, <2>3, <3>1 DEF Dispatch, CompletionStep, OneFrameAtMost, netVars
    <3> QED
      BY <3>2
  <2> QED
    BY <2>2, <2>3
<1> QED
  BY <1>3, <1>4, <1>5

\* A failed connect ends the connection, and so does a broken socket.
LEMMA ConnectingStep ==
    ASSUME IInv, ConnectFails \/ SocketFails
    PROVE  EndStep
<1>1. \A cause \in {"Unreachable", "Timeout"} : ErrorOf(cause) \in Errors
  BY ErrorsTyped DEF Causes
<1>2. <<>> \in Seq(SessionEvent)
  OBVIOUS
<1>3. CASE ConnectFails
  <2>1. PICK cause \in {"Unreachable", "Timeout"} : Disconnected(ErrorOf(cause), reply)
    BY <1>3 DEF ConnectFails
  <2>2. pc = "connect" /\ ErrorOf(cause) \in Errors
    BY <1>1, <1>3 DEF ConnectFails
  <2> QED
    BY <1>2, <2>1, <2>2, EveryEnd
<1>4. CASE SocketFails
  <2> DEFINE error == ErrorOf("Unreachable")
  <2>1. /\ pc \notin {"sleep", "stopped"} /\ error \in Errors
        /\ Disconnected(error, FailWaiters(reply, error))
    BY <1>1, <1>4 DEF SocketFails
  <2> HIDE DEF error
  <2> QED
    BY <1>2, <2>1, EveryEnd
<1> QED
  BY <1>3, <1>4

\* What a caller does is to queue a command.
LEMMA ApplicationStep ==
    ASSUME NEW c \in Callers, Request(c) \/ ChangeSubscriptions(c)
    PROVE  \E command : CommandStep(c, command)
<1>1. CASE Request(c)
  <2>1. PICK kind \in {"call", "batch"} : Call(c, [who |-> c, kind |-> kind, subs |-> 0])
    BY <1>1 DEF Request
  <2>2. CommandStep(c, [who |-> c, kind |-> kind, subs |-> 0])
    BY <2>1 DEF CommandStep, CommandRecords
  <2> QED
    BY <2>2
<1>2. CASE ChangeSubscriptions(c)
  <2>1. PICK subs \in Subscriptions : Call(c, [who |-> c, kind |-> "reidentify", subs |-> subs])
    BY <1>2 DEF ChangeSubscriptions
  <2>2. CommandStep(c, [who |-> c, kind |-> "reidentify", subs |-> subs])
    BY <2>1 DEF CommandStep, CommandRecords
  <2> QED
    BY <2>2
<1> QED
  BY <1>1, <1>2

\* Every frame of the server, and what it leaves of the server's state.
LEMMA ServersStep ==
    ASSUME IInv, Server
    PROVE  \E frame, after : ServerStep(frame, after)
<1>1. \A op \in Int : Frame(op) \in ServerFrame /\ Frame(op).op = op
  BY DEF Frame, ServerFrame
<1>2. \A g \in ServerFrame :
            /\ \A auth \in BOOLEAN : /\ [g EXCEPT !.auth = auth] \in ServerFrame
                                     /\ [g EXCEPT !.auth = auth].op = g.op
            /\ \A code \in Nat : /\ [g EXCEPT !.code = code] \in ServerFrame
                                 /\ [g EXCEPT !.code = code].op = g.op
            /\ [g EXCEPT !.decodes = FALSE] \in ServerFrame
            /\ [g EXCEPT !.decodes = FALSE].op = g.op
  BY DEF ServerFrame
<1>3. obs \in ObsStates
  BY DEF IInv, Types
<1>4. /\ OpHello \in Int /\ OpIdentified \in Int /\ OpEvent \in Int /\ OpRequestResponse \in Int
      /\ OpRequestBatchResponse \in Int /\ CloseFrame \in Int /\ -1 \in Int
  BY DEF OpHello, OpIdentified, OpEvent, OpRequestResponse, OpRequestBatchResponse, CloseFrame
<1>5. CASE ServerHello
  <2>1. PICK auth \in Challenges :
            Emit([Frame(OpHello) EXCEPT !.auth = auth], [obs EXCEPT !.stage = "hello"])
    BY <1>5 DEF ServerHello
  <2> DEFINE f == [Frame(OpHello) EXCEPT !.auth = auth]
             a == [obs EXCEPT !.stage = "hello"]
  <2>2. f \in ServerFrame /\ f.op = OpHello
    BY <1>1, <1>4, <1>2
  <2>3. /\ a \in ObsStates /\ a.stage = "hello" /\ a.subs = obs.subs /\ a.open = obs.open
        /\ a.misled = obs.misled
    BY <1>3 DEF ObsStates
  <2>4. Emit(f, a) /\ obs.stage = "open"
    BY <1>5, <2>1 DEF ServerHello
  <2> HIDE DEF f, a
  <2>5. ServerStep(f, a)
    BY <2>2, <2>3, <2>4 DEF ServerStep, IsAnswer, OpHello, OpIdentified, OpRequestResponse,
                            OpRequestBatchResponse
  <2> QED
    BY <2>5
<1>6. CASE ServerIdentified
  <2> DEFINE f == Frame(OpIdentified)
             a == [obs EXCEPT !.stage = "identified"]
  <2>2. f \in ServerFrame /\ f.op = OpIdentified
    BY <1>1, <1>4
  <2>3. /\ a \in ObsStates /\ a.stage = "identified" /\ a.subs = obs.subs /\ a.open = obs.open
        /\ a.misled = obs.misled
    BY <1>3 DEF ObsStates
  <2>4. Emit(f, a) /\ obs.stage = "identify"
    BY <1>6 DEF ServerIdentified
  <2> HIDE DEF f, a
  <2>5. ServerStep(f, a)
    BY <2>2, <2>3, <2>4 DEF ServerStep, IsAnswer, OpIdentified, OpRequestResponse,
                            OpRequestBatchResponse
  <2> QED
    BY <2>5
<1>11. CASE ServerConfirms
  <2> DEFINE f == Frame(OpIdentified)
             a == [obs EXCEPT !.confirm = FALSE]
  <2>2. f \in ServerFrame /\ f.op = OpIdentified
    BY <1>1, <1>4
  <2>3. /\ a \in ObsStates /\ a.stage = obs.stage /\ a.subs = obs.subs /\ a.open = obs.open
        /\ a.misled = obs.misled
    BY <1>3 DEF ObsStates
  <2>4. Emit(f, a) /\ obs.stage = "identified"
    BY <1>11 DEF ServerConfirms
  <2> HIDE DEF f, a
  <2>5. ServerStep(f, a)
    BY <2>2, <2>3, <2>4 DEF ServerStep, IsAnswer, OpIdentified, OpRequestResponse,
                            OpRequestBatchResponse
  <2> QED
    BY <2>5
<1>7. CASE ServerEvent
  <2> DEFINE f == Frame(OpEvent)
  <2>2. f \in ServerFrame /\ f.op = OpEvent
    BY <1>1, <1>4
  <2>4. Emit(f, obs) /\ obs.stage = "identified"
    BY <1>7 DEF ServerEvent
  <2> HIDE DEF f
  <2>5. ServerStep(f, obs)
    BY <1>3, <2>2, <2>4 DEF ServerStep, IsAnswer, OpEvent, OpIdentified, OpRequestResponse,
                            OpRequestBatchResponse
  <2> QED
    BY <2>5
<1>8. CASE ServerAnswer
  <2>1. PICK r \in obs.open, ok \in BOOLEAN, wrong \in {FALSE, WrongKinds} :
            Emit([Frame(IF r.batch # wrong THEN OpRequestBatchResponse ELSE OpRequestResponse)
                    EXCEPT !.id = r.id, !.ok = ok],
                 [obs EXCEPT !.open = @ \ {r}, !.misled = IF wrong THEN @ \cup {r.id} ELSE @])
    BY <1>8 DEF ServerAnswer
  <2> DEFINE op == IF r.batch # wrong THEN OpRequestBatchResponse ELSE OpRequestResponse
             f == [Frame(op) EXCEPT !.id = r.id, !.ok = ok]
             lost == IF wrong THEN obs.misled \cup {r.id} ELSE obs.misled
             a == [obs EXCEPT !.open = @ \ {r}, !.misled = lost]
  <2>2. r.id \in Nat /\ r.batch \in BOOLEAN /\ wrong \in BOOLEAN
    BY <1>3 DEF ObsStates, OpenRequests
  <2>3. /\ op \in Int /\ op # OpIdentified
        /\ ~wrong => (r.batch <=> op = OpRequestBatchResponse)
    BY <2>2 DEF OpIdentified, OpRequestResponse, OpRequestBatchResponse
  <2>9. lost \in SUBSET Nat /\ obs.misled \subseteq lost /\ (wrong => r.id \in lost)
    BY <1>3, <2>2 DEF ObsStates
  <2>5. Emit(f, a) /\ obs.stage = "identified"
    BY <1>8, <2>1 DEF ServerAnswer
  <2> HIDE DEF op, lost
  <2>4. /\ a \in ObsStates /\ a.stage = obs.stage /\ a.subs = obs.subs
        /\ a.open \subseteq obs.open /\ a.misled = lost
    BY <1>3, <2>9 DEF ObsStates
  <2>6. f \in ServerFrame /\ f.op = op /\ f.id = r.id
    BY <2>2, <2>3 DEF Frame, ServerFrame
  <2>7. ~wrong => r.batch = (op = OpRequestBatchResponse)
    BY <2>2, <2>3, Zenon
  <2> HIDE DEF f, a
  <2>10. \/ f.id \in a.misled
         \/ \E o \in obs.open : o.id = f.id /\ o.batch = (f.op = OpRequestBatchResponse)
    BY <2>4, <2>6, <2>7, <2>9, Zenon
  <2>8. ServerStep(f, a)
    BY <2>3, <2>4, <2>5, <2>6, <2>9, <2>10 DEF ServerStep
  <2> QED
    BY <2>8
<1>9. CASE ServerClose
  <2>1. PICK code \in CloseCodes :
            Emit([Frame(CloseFrame) EXCEPT !.code = code], [obs EXCEPT !.stage = "closed"])
    BY <1>9 DEF ServerClose
  <2> DEFINE f == [Frame(CloseFrame) EXCEPT !.code = code]
             a == [obs EXCEPT !.stage = "closed"]
  <2>2. f \in ServerFrame /\ f.op = CloseFrame
    BY <1>1, <1>4, <1>2
  <2>3. /\ a \in ObsStates /\ a.stage = "closed" /\ a.subs = obs.subs /\ a.open = obs.open
        /\ a.misled = obs.misled
    BY <1>3 DEF ObsStates
  <2>4. Emit(f, a) /\ obs.stage # "none"
    BY <1>9, <2>1 DEF ServerClose
  <2> HIDE DEF f, a
  <2>5. ServerStep(f, a)
    BY <2>2, <2>3, <2>4 DEF ServerStep, IsAnswer, CloseFrame, OpIdentified, OpRequestResponse,
                            OpRequestBatchResponse
  <2> QED
    BY <2>5
<1>10. CASE ServerGarbles
  <2> DEFINE f == [Frame(-1) EXCEPT !.decodes = FALSE]
  <2>2. f \in ServerFrame /\ f.op = -1
    BY <1>1, <1>4, <1>2
  <2>4. Emit(f, obs) /\ obs.stage # "none"
    BY <1>10 DEF ServerGarbles
  <2> HIDE DEF f
  <2>5. ServerStep(f, obs)
    BY <1>3, <2>2, <2>4 DEF ServerStep, IsAnswer, OpIdentified, OpRequestResponse,
                            OpRequestBatchResponse
  <2> QED
    BY <2>5
<1> QED
  BY <1>5, <1>6, <1>7, <1>8, <1>9, <1>10, <1>11 DEF Server

\* The classes of steps.
Step ==
    \/ EndStep
    \/ \E s : CompletionStep(s)
    \/ \E s : GreetingStep(s)
    \/ \E n : OwnCallStep(n)
    \/ AnnounceStep
    \/ \E s : SelectStep(s)
    \/ ConnectOk \/ WakeUp \/ FlushFrame \/ TakeCall \/ TakeReidentify
    \/ \E c : \E command : CommandStep(c, command)
    \/ \E c \in Callers : Cancel(c)
    \/ DropClients
    \/ \E frame, after : ServerStep(frame, after)
    \/ UNCHANGED vars

\* Every step of the driver is of one of them.
LEMMA EveryStep ==
    ASSUME IInv, [Next]_vars
    PROVE  Step
<1>1. CASE Opening
  BY <1>1, ConnectingStep DEF Opening, Step
<1>2. CASE Identifying
  BY <1>2, IdentifyingStep, OwnCallsStep DEF Identifying, Step
<1>3. CASE OwnCall
  BY <1>3, OwnCallsStep DEF Step
<1>4. CASE Serving
  BY <1>4, ServingStep DEF Serving, Step
<1>5. CASE Application
  BY <1>5, ApplicationStep DEF Application, Step
<1>6. CASE Server
  BY <1>6, ServersStep DEF Step
<1>7. CASE SocketFails
  BY <1>7, ConnectingStep DEF Step
<1> QED
  BY <1>1, <1>2, <1>3, <1>4, <1>5, <1>6, <1>7 DEF Next, Finished, Step

----------------------------------------------------------------------------
(* The end of a connection.                                                *)

\* A new session has nothing of an old one.
LEMMA NewSessionEmpty ==
    ASSUME NEW subs \in Subscriptions
    PROVE  LET s == NewSession(HasPassword, subs, 1)
           IN  /\ WellFormed(s) /\ s.events = <<>> /\ s.outgoing = <<>> /\ s.subs = subs
               /\ s.phase = "AwaitingHello" /\ s.negotiated = 0
               /\ PendingIds(s) = {} /\ Owed(s) = {} /\ Exclusive(s, s.events)
<1> DEFINE s == NewSession(HasPassword, subs, 1)
<1>1. WellFormed(s)
  BY NewSessionTyped
<1>2. /\ s.events = <<>> /\ s.outgoing = <<>> /\ s.subs = subs /\ s.negotiated = 0
      /\ s.phase = "AwaitingHello" /\ PendingIds(s) = {}
  BY DEF NewSession, PendingIds
<1> HIDE DEF s
<1>3. Owed(s) = {} /\ Exclusive(s, s.events)
  BY <1>2 DEF Owed, CompletedBy, Exclusive
<1> QED
  BY <1>1, <1>2, <1>3 DEF s

\* What the end of a connection makes of a oneshot.
EndedReplies ==
    \A c \in Waits :
        /\ reply'[c] \in Oneshots
        /\ reply'[c].ok => reply'[c].from = {c}
        /\ c \in Callers /\ reply'[c].state = "idle" => reply[c].state = "idle"
        /\ c \in Callers /\ reply'[c].state = "waiting" =>
                reply[c].state = "waiting" /\ Open(c) = {} /\ (pc' = "stopped" => Queued(c) = {})

\* What is left after a connection.
Ended ==
    /\ session' = NewSession(HasPassword, wanted, 1)
    /\ waiters' = <<>> /\ asked' = <<>> /\ stage' = 0 /\ obs' = NoObs /\ toClient' = <<>>
    /\ wanted' = wanted
    /\ pc' \in {"sleep", "stopped"}
    /\ pc' = "sleep" => /\ conn' = [state |-> "Reconnecting", attempt |-> NextAttempt, code |-> 0]
                        /\ commands' = commands
    /\ pc' = "stopped" => /\ conn'.state = "Closed" /\ conn'.attempt = 0 /\ conn'.code \in Nat
                          /\ conn' = [state |-> conn'.state, attempt |-> conn'.attempt,
                                      code |-> conn'.code]
                          /\ commands' = <<>>
    /\ ready' = IF ready = "pending" THEN "failed" ELSE ready
    /\ ready = "pending" => pc' = "stopped"
    /\ attempt' \in {attempt, NextAttempt}
    /\ reply' = [c \in Waits |-> reply'[c]]
    /\ EndedReplies

\* Every end of a connection does that.
LEMMA EndEffect ==
    ASSUME IInv, EndStep
    PROVE  Ended
<1>0. PICK error \in Errors :
        \E replies : Released(replies) /\ AllReleased(replies) /\ Disconnected(error, replies)
  BY DEF EndStep
<1>1. PICK replies : Released(replies) /\ AllReleased(replies) /\ Disconnected(error, replies)
  BY <1>0
<1> DEFINE left == CallersOnly(replies)
<1>2. /\ Hangup
      /\ IF Retries(error) THEN Pause(left) ELSE Stop(error, left)
      /\ attempt' = IF Counts(error) THEN NextAttempt ELSE attempt
      /\ ready' = IF ready = "pending" THEN "failed" ELSE ready
      /\ UNCHANGED wanted
  BY <1>1 DEF Disconnected
<1>3. \A c \in Waits :
            /\ left[c] \in Oneshots
            /\ left[c].ok => left[c].from = {c}
            /\ c \in Callers /\ left[c].state = "idle" => reply[c].state = "idle"
            /\ c \in Callers /\ left[c].state = "waiting" =>
                    reply[c].state = "waiting" /\ Open(c) = {}
  <2> TAKE c \in Waits
  <2>1. Idle \in Oneshots /\ Idle.ok = FALSE
    BY DEF Idle, Waiting, Oneshots, Causes
  <2>2. left[c] = IF c \in Callers THEN replies[c] ELSE Idle
    BY DEF CallersOnly
  <2>3. reply[c].ok => reply[c].from = {c}
    BY DEF IInv, Ledger, NobodyMisrouted
  <2> HIDE DEF left
  <2>4. CASE c \notin Callers
    BY <2>1, <2>2, <2>4
  <2>5. CASE c \in Callers
    <3>1. left[c] = replies[c] /\ replies[c] \in Oneshots
      BY <1>1, <2>2, <2>5 DEF Released
    <3>2. \/ replies[c] = reply[c]
          \/ /\ reply[c].state = "waiting" /\ replies[c].state = "done"
             /\ replies[c].ok => replies[c].from = {c}
      BY <1>1 DEF Released
    <3>3. replies[c].state = "waiting" => Open(c) = {}
      BY <1>1, <2>5 DEF AllReleased, Owners, Open
    <3> QED
      BY <2>3, <2>5, <3>1, <3>2, <3>3
  <2> QED
    BY <2>4, <2>5
<1> HIDE DEF left
<1>4. left = [c \in Waits |-> left[c]]
  BY DEF left, CallersOnly
<1>5. CASE Retries(error)
  <2>1. Pause(left) /\ ready # "pending"
    BY <1>2, <1>5 DEF Retries, Counts
  <2>2. EndedReplies
    BY <1>3, <2>1 DEF Pause, EndedReplies
  <2> QED
    BY <1>2, <1>4, <2>1, <2>2 DEF Ended, Hangup, Pause
<1>6. CASE ~Retries(error)
  <2>1. Stop(error, left)
    BY <1>2, <1>6
  <2>2. FinalCode(error) \in Nat
    BY DEF FinalCode, Errors, AuthenticationFailed
  <2>3. reply' = [c \in Waits |-> IF c \in {commands[i].who : i \in DOMAIN commands}
                                        /\ left[c].state = "waiting"
                                  THEN Failure("Disconnected") ELSE left[c]]
    BY <2>1 DEF Stop, DropCommands, Settle
  <2>4. /\ Failure("Disconnected") \in Oneshots /\ Failure("Disconnected").ok = FALSE
        /\ Failure("Disconnected").state = "done"
    BY DEF Failure, Done, Oneshots, Causes
  <2>5. EndedReplies
    <3> SUFFICES ASSUME NEW c \in Waits
                 PROVE  /\ reply'[c] \in Oneshots
                        /\ reply'[c].ok => reply'[c].from = {c}
                        /\ c \in Callers /\ reply'[c].state = "idle" => reply[c].state = "idle"
                        /\ c \in Callers /\ reply'[c].state = "waiting" =>
                                reply[c].state = "waiting" /\ Open(c) = {} /\ Queued(c) = {}
      BY DEF EndedReplies
    <3>1. CASE c \in {commands[i].who : i \in DOMAIN commands} /\ left[c].state = "waiting"
      BY <2>3, <2>4, <3>1
    <3>2. CASE ~(c \in {commands[i].who : i \in DOMAIN commands} /\ left[c].state = "waiting")
      <4>1. reply'[c] = left[c]
        BY <2>3, <3>2
      <4>2. left[c].state = "waiting" => Queued(c) = {}
        BY <3>2 DEF Queued
      <4> QED
        BY <1>3, <4>1, <4>2
    <3> QED
      BY <3>1, <3>2
  <2>6. reply' = [c \in Waits |-> reply'[c]]
    BY <2>3
  <2> QED
    BY <1>2, <2>1, <2>2, <2>5, <2>6 DEF Ended, Hangup, Stop
<1> QED
  BY <1>5, <1>6

\* Such an end keeps the invariant.
LEMMA EndInv ==
    ASSUME IInv, EndStep
    PROVE  IInv'
<1>1. Ended
  BY EndEffect
<1>2. wanted \in Subscriptions /\ attempt \in 0 .. AttemptMax /\ NextAttempt \in 0 .. AttemptMax
  BY DEF IInv, Types, TypeOK, NextAttempt
<1>3. /\ WellFormed(session') /\ session'.events = <<>> /\ session'.outgoing = <<>>
      /\ session'.subs = wanted /\ session'.phase = "AwaitingHello"
      /\ Owed(session') = {} /\ Exclusive(session', session'.events)
  BY <1>1, <1>2, NewSessionEmpty DEF Ended
<1>4. DOMAIN waiters' = {} /\ ToSet(toClient') = {} /\ ToSet(session'.outgoing) = {}
  BY <1>1, <1>3 DEF Ended, ToSet
<1>5. Types'
  <2>1. /\ ready' \in {"pending", "ok", "failed"} /\ attempt' \in 0 .. AttemptMax
        /\ DOMAIN asked' = {} /\ wanted' \in Subscriptions
        /\ pc' \in {"connect", "identify", "wait", "serve", "flush", "sleep", "stopped"}
    BY <1>1, <1>2 DEF Ended, IInv, Types, TypeOK
  <2>5. commands' \in Seq(CommandRecords)
    <3>1. commands \in Seq(CommandRecords) /\ <<>> \in Seq(CommandRecords)
      BY DEF IInv, Types, TypeOK
    <3>2. commands' = commands \/ commands' = <<>>
      BY <1>1 DEF Ended
    <3> QED
      BY <3>1, <3>2
  <2>6. Len(toClient') <= MaxInFlight /\ toClient' \in Seq(ServerFrame)
    BY <1>1 DEF Ended
  <2>7. stage' \in 0 .. Len(Startup)
    BY <1>1, LenProperties DEF Ended
  <2>2. conn' \in [state : {"Connecting", "Connected", "Reconnecting", "Closed"},
                   attempt : 0 .. AttemptMax, code : Nat]
    BY <1>1, <1>2 DEF Ended
  <2>3. reply' \in [Waits -> Oneshots] /\ DOMAIN reply' = Waits
    BY <1>1 DEF Ended, EndedReplies
  <2>4. obs' \in ObsStates
    BY <1>1 DEF Ended, NoObs, ObsStates
  <2> QED
    BY <1>3, <1>4, <2>1, <2>2, <2>3, <2>4, <2>5, <2>6, <2>7 DEF Types, TypeOK
<1>6. Control'
  BY <1>1, <1>3 DEF Ended, Control, ServesIdentified, Offline, NoObs
<1>7. Ledger'
  <2>1. WaitersMatchPending'
    BY <1>3, <1>4 DEF WaitersMatchPending, Owed, CompletedBy
  <2>2. NobodyMisrouted'
    BY <1>1 DEF Ended, EndedReplies, NobodyMisrouted
  <2>3. obs'.open = {}
    BY <1>1 DEF Ended, NoObs
  <2> QED
    BY <1>3, <1>4, <2>1, <2>2, <2>3 DEF Ledger
<1>8. Tracking'
  <2> SUFFICES ASSUME NEW c \in Callers
               PROVE  /\ \A i, j \in Queued(c)' : i = j
                      /\ \A i, j \in Open(c)' : i = j
                      /\ Queued(c)' = {} \/ Open(c)' = {}
                      /\ reply'[c].state = "waiting" => Queued(c)' # {} \/ Open(c)' # {}
                      /\ reply'[c].state = "idle" => Queued(c)' = {} /\ Open(c)' = {}
    BY DEF Tracking
  <2>1. Open(c)' = {}
    BY <1>4 DEF Open
  <2>2. /\ \A i, j \in Queued(c) : i = j
        /\ reply[c].state = "waiting" => Queued(c) # {} \/ Open(c) # {}
        /\ reply[c].state = "idle" => Queued(c) = {}
    BY DEF IInv, Tracking
  <2>3. /\ c \in Waits
        /\ reply'[c].state = "idle" => reply[c].state = "idle"
        /\ reply'[c].state = "waiting" =>
                reply[c].state = "waiting" /\ Open(c) = {} /\ (pc' = "stopped" => Queued(c) = {})
    BY <1>1 DEF Ended, EndedReplies, Waits
  <2>4. (pc' = "sleep" /\ Queued(c)' = Queued(c)) \/ (pc' = "stopped" /\ Queued(c)' = {})
    BY <1>1 DEF Ended, Queued
  <2> QED
    BY <2>1, <2>2, <2>3, <2>4
<1>9. Filters'
  BY <1>1, <1>3, <1>4 DEF Ended, NoObs, Filters, Reidentifies
<1>10. Announced'
  BY <1>1 DEF Ended, IInv, Announced
<1> QED
  BY <1>5, <1>6, <1>7, <1>8, <1>9, <1>10 DEF IInv

----------------------------------------------------------------------------
(* The steps that no session takes.                                        *)

\* The driver starts out in it.
LEMMA InitInv ==
    ASSUME Init
    PROVE  IInv
<1>1. /\ WellFormed(session) /\ session.events = <<>> /\ session.outgoing = <<>>
      /\ session.subs = wanted /\ session.phase = "AwaitingHello" /\ session.negotiated = 0
      /\ Owed(session) = {} /\ Exclusive(session, session.events)
  BY NewSessionEmpty DEF Init
<1>2. /\ DOMAIN waiters = {} /\ DOMAIN asked = {} /\ ToSet(toClient) = {}
      /\ ToSet(session.outgoing) = {}
  BY <1>1 DEF Init, ToSet
<1>3. Types
  <2>1. conn \in [state : {"Connecting", "Connected", "Reconnecting", "Closed"},
                  attempt : 0 .. AttemptMax, code : Nat]
    BY DEF Init
  <2>2. Idle \in Oneshots
    BY DEF Idle, Waiting, Oneshots, Causes
  <2>3. reply \in [Waits -> Oneshots] /\ DOMAIN reply = Waits
    BY <2>2 DEF Init
  <2>4. obs \in ObsStates
    BY DEF Init, NoObs, ObsStates
  <2>5. /\ commands \in Seq(CommandRecords) /\ toClient \in Seq(ServerFrame)
        /\ Len(toClient) <= MaxInFlight
    BY DEF Init
  <2>6. stage \in 0 .. Len(Startup)
    BY LenProperties DEF Init
  <2> QED
    BY <1>1, <1>2, <2>1, <2>3, <2>4, <2>5, <2>6 DEF Init, Types, TypeOK
<1>4. Control
  BY <1>1 DEF Init, Control, ServesIdentified, Offline
<1>5. Ledger
  <2>1. WaitersMatchPending
    BY <1>1, <1>2 DEF WaitersMatchPending, Owed, CompletedBy
  <2>2. NobodyMisrouted
    BY DEF Init, NobodyMisrouted, Idle, Waiting
  <2>3. obs.open = {}
    BY DEF Init, NoObs
  <2> QED
    BY <1>1, <1>2, <2>1, <2>2, <2>3 DEF Ledger
<1>6. Tracking
  <2>1. \A c \in Callers : reply[c].state = "idle" /\ Queued(c) = {} /\ Open(c) = {}
    BY <1>2 DEF Init, Queued, Open, Idle, Waiting, Waits
  <2> QED
    BY <2>1 DEF Tracking
<1>7. Filters
  BY <1>1, <1>2 DEF Init, NoObs, Filters, Reidentifies
<1>8. Announced
  BY DEF Init, Announced
<1> QED
  BY <1>3, <1>4, <1>5, <1>6, <1>7, <1>8 DEF IInv

\* Where nothing changes it stays.
LEMMA StutterInv ==
    ASSUME IInv, UNCHANGED vars
    PROVE  IInv'
<1>1. Types'
  BY DEF IInv, Types, TypeOK, vars, runVars, pumpVars, netVars
<1>2. Control'
  BY DEF IInv, Control, ServesIdentified, Offline, vars, runVars, pumpVars, netVars
<1>3. Ledger'
  BY DEF IInv, Ledger, WaitersMatchPending, NobodyMisrouted, vars, runVars, pumpVars, netVars
<1>4. Tracking'
  BY DEF IInv, Tracking, Queued, Open, vars, runVars, pumpVars, netVars
<1>5. Filters'
  BY DEF IInv, Filters, Reidentifies, vars, runVars, pumpVars, netVars
<1>6. Announced'
  BY DEF IInv, Announced, vars, runVars, pumpVars, netVars
<1> QED
  BY <1>1, <1>2, <1>3, <1>4, <1>5, <1>6 DEF IInv

\* A connection opens where nothing was left of the last.
LEMMA OpeningInv ==
    ASSUME IInv, WakeUp \/ ConnectOk
    PROVE  IInv'
<1>1. CASE WakeUp
  <2> USE <1>1 DEF WakeUp
  <2>1. Types'
    BY DEF IInv, Types, TypeOK, runVars, pumpVars, netVars
  <2>2. Control'
    BY DEF IInv, Control, ServesIdentified, Offline, runVars, pumpVars, netVars
  <2>3. Ledger'
    BY DEF IInv, Ledger, WaitersMatchPending, NobodyMisrouted, runVars, pumpVars, netVars
  <2>4. Tracking'
    BY DEF IInv, Tracking, Queued, Open, runVars, pumpVars, netVars
  <2>5. Filters'
    BY DEF IInv, Filters, Reidentifies, runVars, pumpVars, netVars
  <2>6. Announced'
    BY DEF IInv, Announced, runVars, pumpVars, netVars
  <2> QED
    BY <2>1, <2>2, <2>3, <2>4, <2>5, <2>6 DEF IInv
<1>2. CASE ConnectOk
  <2>1. /\ pc = "connect" /\ pc' = "identify"
        /\ session' = NewSession(HasPassword, wanted, 1)
        /\ obs' = [stage |-> "open", subs |-> 0, open |-> {}, misled |-> {}, confirm |-> FALSE]
        /\ UNCHANGED <<ready, conn, attempt, lastError, wanted, waiters, stage, asked, commands,
                       reply, dropped, toClient>>
    BY <1>2 DEF ConnectOk, NoObs, runVars
  <2>2. waiters = <<>> /\ toClient = <<>> /\ wanted \in Subscriptions
    BY <2>1 DEF IInv, Control, Offline, Types, TypeOK
  <2>3. /\ WellFormed(session') /\ session'.events = <<>> /\ session'.outgoing = <<>>
        /\ session'.subs = wanted /\ session'.phase = "AwaitingHello" /\ session'.negotiated = 0
        /\ Owed(session') = {} /\ Exclusive(session', session'.events)
        /\ session'.nextId = 1
    BY <2>1, <2>2, NewSessionEmpty DEF NewSession
  <2>4. DOMAIN waiters' = {} /\ ToSet(toClient') = {} /\ ToSet(session'.outgoing) = {}
    BY <2>1, <2>2, <2>3 DEF ToSet
  <2>5. Types'
    <3>1. obs' \in ObsStates
      BY <2>1 DEF ObsStates
    <3>2. DOMAIN asked' \subseteq 1 .. session'.nextId - 1
      BY <2>1, <2>3 DEF IInv, Control, Offline
    <3> QED
      BY <2>1, <2>3, <2>4, <3>1, <3>2 DEF IInv, Types, TypeOK
  <2>6. Control'
    BY <2>1, <2>2, <2>3 DEF IInv, Control, ServesIdentified, Offline
  <2>7. Ledger'
    <3>1. WaitersMatchPending'
      BY <2>3, <2>4 DEF WaitersMatchPending, Owed, CompletedBy
    <3>2. NobodyMisrouted'
      BY <2>1 DEF IInv, Ledger, NobodyMisrouted
    <3>3. obs'.open = {}
      BY <2>1
    <3> QED
      BY <2>3, <2>4, <3>1, <3>2, <3>3 DEF Ledger
  <2>8. Tracking'
    BY <2>1 DEF IInv, Tracking, Queued, Open
  <2>9. Filters'
    BY <2>1, <2>3, <2>4 DEF Filters, Reidentifies
  <2>10. Announced'
    BY <2>1 DEF IInv, Announced
  <2> QED
    BY <2>5, <2>6, <2>7, <2>8, <2>9, <2>10 DEF IInv
<1> QED
  BY <1>1, <1>2

----------------------------------------------------------------------------
(* The application and the server.                                         *)

\* A request enters the channel, or is refused by a client that has stopped.
LEMMA CommandInv ==
    ASSUME IInv, NEW c, NEW command, CommandStep(c, command)
    PROVE  IInv'
<1>1. /\ c \in Callers /\ command \in CommandRecords /\ command.who = c /\ c \in Waits
      /\ reply[c].state = "idle"
      /\ UNCHANGED <<pc, ready, conn, attempt, lastError, wanted, session, waiters, stage, asked,
                     dropped, obs, toClient>>
  BY DEF CommandStep, Call, MayCall, Waits, runVars, pumpVars, netVars
<1>2. \/ /\ pc = "stopped" /\ commands' = commands
         /\ reply' = [reply EXCEPT ![c] = Failure("Disconnected")]
      \/ /\ pc # "stopped" /\ commands' = Append(commands, command)
         /\ reply' = [reply EXCEPT ![c] = Waiting]
  BY DEF CommandStep, Call
<1>3. reply \in [Waits -> Oneshots] /\ commands \in Seq(CommandRecords)
  BY DEF IInv, Types, TypeOK
<1>4. /\ Failure("Disconnected") \in Oneshots /\ Failure("Disconnected").ok = FALSE
      /\ Failure("Disconnected").state = "done"
      /\ Waiting \in Oneshots /\ Waiting.ok = FALSE /\ Waiting.state = "waiting"
  BY DEF Failure, Done, Waiting, Oneshots, Causes
<1>5. /\ reply' \in [Waits -> Oneshots] /\ reply'[c].ok = FALSE
      /\ \A d \in Waits : d # c => reply'[d] = reply[d]
      /\ IF pc = "stopped" THEN reply'[c].state = "done" ELSE reply'[c].state = "waiting"
  BY <1>1, <1>2, <1>3, <1>4
<1>6. /\ Append(commands, command) \in Seq(CommandRecords)
      /\ DOMAIN Append(commands, command) = DOMAIN commands \cup {Len(commands) + 1}
      /\ Append(commands, command)[Len(commands) + 1] = command
      /\ \A i \in DOMAIN commands : Append(commands, command)[i] = commands[i]
      /\ Len(commands) + 1 \notin DOMAIN commands
  BY <1>1, <1>3, AppendElements
<1>7. Types'
  <2>1. commands' \in Seq(CommandRecords)
    BY <1>2, <1>3, <1>6
  <2>2. DOMAIN reply' = Waits
    BY <1>5
  <2> QED
    BY <1>1, <1>5, <2>1, <2>2 DEF IInv, Types, TypeOK
<1>8. Control'
  <2>1. pc = "wait" => reply'[stage] = reply[stage]
    <3>1. pc = "wait" => stage \in Nat /\ stage \in Waits
      BY LenProperties DEF IInv, Control, OwnCalls, Waits
    <3>2. c \notin Nat
      BY <1>1
    <3> QED
      BY <1>5, <3>1, <3>2
  <2>2. pc = "stopped" => commands' = commands
    BY <1>2
  <2> QED
    BY <1>1, <2>1, <2>2 DEF IInv, Control, ServesIdentified, Offline
<1>9. Ledger'
  <2>1. WaitersMatchPending' /\ NobodyMisrouted'
    BY <1>1, <1>5 DEF IInv, Ledger, WaitersMatchPending, NobodyMisrouted
  <2> QED
    BY <1>1, <2>1 DEF IInv, Ledger
<1>10. Tracking'
  <2> SUFFICES ASSUME NEW d \in Callers
               PROVE  /\ \A i, j \in Queued(d)' : i = j
                      /\ \A i, j \in Open(d)' : i = j
                      /\ Queued(d)' = {} \/ Open(d)' = {}
                      /\ reply'[d].state = "waiting" => Queued(d)' # {} \/ Open(d)' # {}
                      /\ reply'[d].state = "idle" => Queued(d)' = {} /\ Open(d)' = {}
    BY DEF Tracking
  <2>1. Open(d)' = Open(d)
    BY <1>1 DEF Open
  <2>2. /\ \A i, j \in Queued(d) : i = j
        /\ \A i, j \in Open(d) : i = j
        /\ Queued(d) = {} \/ Open(d) = {}
        /\ reply[d].state = "waiting" => Queued(d) # {} \/ Open(d) # {}
        /\ reply[d].state = "idle" => Queued(d) = {} /\ Open(d) = {}
    BY DEF IInv, Tracking
  <2>3. CASE d # c
    <3>1. Queued(d)' = Queued(d)
      BY <1>1, <1>2, <1>6, <2>3 DEF Queued
    <3>2. reply'[d] = reply[d]
      BY <1>5, <2>3 DEF Waits
    <3> QED
      BY <2>1, <2>2, <3>1, <3>2
  <2>4. CASE d = c /\ pc = "stopped"
    <3>1. Queued(d)' = Queued(d)
      BY <1>2, <2>4 DEF Queued
    <3>2. reply'[d].state = "done"
      BY <1>5, <2>4
    <3> QED
      BY <2>1, <2>2, <3>1, <3>2
  <2>5. CASE d = c /\ pc # "stopped"
    <3>1. Queued(d) = {} /\ Open(d) = {}
      BY <1>1, <2>2, <2>5
    <3>2. Queued(d)' = {Len(commands) + 1}
      BY <1>1, <1>2, <1>6, <2>5, <3>1 DEF Queued
    <3>3. reply'[d].state = "waiting"
      BY <1>5, <2>5
    <3> QED
      BY <2>1, <3>1, <3>2, <3>3
  <2> QED
    BY <2>3, <2>4, <2>5
<1>11. Filters'
  BY <1>1 DEF IInv, Filters, Reidentifies
<1>12. Announced'
  BY <1>1 DEF IInv, Announced
<1> QED
  BY <1>7, <1>8, <1>9, <1>10, <1>11, <1>12 DEF IInv

\* A caller gives up, or the application drops its clients.
LEMMA ApplicationInv ==
    ASSUME IInv, (\E c \in Callers : Cancel(c)) \/ DropClients
    PROVE  IInv'
<1>1. UNCHANGED <<pc, ready, conn, attempt, lastError, wanted, session, waiters, stage, asked,
                  commands, obs, toClient>>
  BY DEF Cancel, DropClients, runVars, pumpVars, netVars
<1>2. reply \in [Waits -> Oneshots]
  BY DEF IInv, Types
<1>3. /\ reply' \in [Waits -> Oneshots]
      /\ \A d \in Waits :
            \/ reply'[d] = reply[d]
            \/ /\ d \in Callers /\ reply[d].state = "waiting" /\ reply'[d].state = "cancelled"
               /\ reply'[d].ok = reply[d].ok /\ reply'[d].from = reply[d].from
  <2>1. CASE DropClients
    BY <1>2, <2>1 DEF DropClients
  <2>2. CASE \E c \in Callers : Cancel(c)
    <3>1. PICK c \in Callers : Cancel(c)
      BY <2>2
    <3> DEFINE o == [reply[c] EXCEPT !.state = "cancelled"]
    <3>2. c \in Waits /\ reply[c] \in Oneshots
      BY <1>2 DEF Waits
    <3>3. /\ o \in Oneshots /\ o.state = "cancelled"
          /\ o.ok = reply[c].ok /\ o.from = reply[c].from
      BY <3>2 DEF Oneshots
    <3>4. reply' = [reply EXCEPT ![c] = o] /\ reply[c].state = "waiting"
      BY <3>1 DEF Cancel
    <3> HIDE DEF o
    <3> QED
      BY <1>2, <3>2, <3>3, <3>4
  <2> QED
    BY <2>1, <2>2
<1>4. Types'
  <2>1. DOMAIN reply' = Waits
    BY <1>3
  <2> QED
    BY <1>1, <1>3, <2>1 DEF IInv, Types, TypeOK
<1>5. Control'
  <2>1. pc = "wait" => reply'[stage] = reply[stage]
    <3>1. pc = "wait" => stage \in Nat /\ stage \in Waits /\ stage \notin Callers
      BY LenProperties DEF IInv, Control, OwnCalls, Waits
    <3> QED
      BY <1>3, <3>1
  <2> QED
    BY <1>1, <2>1 DEF IInv, Control, ServesIdentified, Offline
<1>6. Ledger'
  <2>1. WaitersMatchPending'
    BY <1>1 DEF IInv, Ledger, WaitersMatchPending
  <2>2. NobodyMisrouted'
    BY <1>3 DEF IInv, Ledger, NobodyMisrouted
  <2> QED
    BY <1>1, <2>1, <2>2 DEF IInv, Ledger
<1>7. Tracking'
  <2>1. \A c \in Callers : Queued(c)' = Queued(c) /\ Open(c)' = Open(c)
    BY <1>1 DEF Queued, Open
  <2>2. \A c \in Callers : /\ reply'[c].state = "waiting" => reply[c].state = "waiting"
                           /\ reply'[c].state = "idle" => reply[c].state = "idle"
    BY <1>3 DEF Waits
  <2> QED
    BY <2>1, <2>2 DEF IInv, Tracking
<1>8. Filters'
  BY <1>1 DEF IInv, Filters, Reidentifies
<1>9. Announced'
  BY <1>1 DEF IInv, Announced
<1> QED
  BY <1>4, <1>5, <1>6, <1>7, <1>8, <1>9 DEF IInv

\* OBS answers what it was asked, and identifies who has identified.
LEMMA ServerInv ==
    ASSUME IInv, NEW frame, NEW after, ServerStep(frame, after)
    PROVE  IInv'
<1>1. /\ UNCHANGED <<pc, ready, conn, attempt, lastError, wanted, session, waiters, stage, asked,
                     commands, reply, dropped>>
      /\ Len(toClient) < MaxInFlight /\ toClient' = Append(toClient, frame) /\ obs' = after
      /\ frame \in ServerFrame /\ after \in ObsStates
      /\ obs.stage # "none" /\ after.subs = obs.subs /\ after.open \subseteq obs.open
      /\ obs.misled \subseteq after.misled
  BY DEF ServerStep, Emit, runVars, pumpVars
<1>2. toClient \in Seq(ServerFrame) /\ Len(toClient) \in Nat
  BY LenProperties DEF IInv, Types
<1>3. /\ toClient' \in Seq(ServerFrame) /\ Len(toClient') = Len(toClient) + 1
      /\ ToSet(toClient') = ToSet(toClient) \cup {frame}
  BY <1>1, <1>2, AppendElements
<1>4. ~ Offline
  BY <1>1 DEF Offline, NoObs
<1>5. Types'
  <2>1. Len(toClient') <= MaxInFlight
    BY <1>1, <1>2, <1>3
  <2> QED
    BY <1>1, <1>3, <2>1 DEF IInv, Types, TypeOK
<1>6. Control'
  BY <1>1, <1>4 DEF IInv, Control, ServesIdentified
<1>7. Ledger'
  <2>1. WaitersMatchPending' /\ NobodyMisrouted'
    BY <1>1 DEF IInv, Ledger, WaitersMatchPending, NobodyMisrouted
  <2>2. IsAnswer(frame) => \/ frame.id \in obs'.misled
                           \/ Issued(session, frame.id, frame.op = OpRequestBatchResponse)
    <3> SUFFICES ASSUME IsAnswer(frame), frame.id \notin obs'.misled
                 PROVE  Issued(session, frame.id, frame.op = OpRequestBatchResponse)
      OBVIOUS
    <3>1. PICK r \in obs.open :
                r.id = frame.id /\ r.batch = (frame.op = OpRequestBatchResponse)
      BY <1>1 DEF ServerStep
    <3>2. Issued(session, r.id, r.batch)
      BY DEF IInv, Ledger
    <3> QED
      BY <3>1, <3>2, Zenon
  <2>3. \A m \in ToSet(toClient') :
            IsAnswer(m) => \/ m.id \in obs'.misled
                           \/ Issued(session, m.id, m.op = OpRequestBatchResponse)
    BY <1>1, <1>3, <2>2 DEF IInv, Ledger
  <2>4. \A r \in after.open : Issued(session, r.id, r.batch)
    BY <1>1 DEF IInv, Ledger
  <2> QED
    BY <1>1, <2>1, <2>3, <2>4 DEF IInv, Ledger
<1>8. Tracking'
  BY <1>1 DEF IInv, Tracking, Queued, Open
<1>9. Filters'
  <2>1. /\ \/ after.stage \in {obs.stage, "closed"}
           \/ obs.stage = "open" /\ after.stage = "hello"
           \/ obs.stage = "identify" /\ after.stage = "identified"
        /\ frame.op = OpIdentified => after.stage = "identified"
    BY DEF ServerStep
  <2>2. Reidentifies' <=> Reidentifies
    BY <1>1 DEF Reidentifies
  <2>3. /\ obs.stage \in {"identify", "identified"} => obs.subs = wanted \/ Reidentifies
        /\ \/ Reidentifies
           \/ \E m \in ToSet(toClient) : m.op = OpIdentified
           \/ session.phase = "Identified"
           => obs.stage \in {"identified", "closed"}
    BY DEF IInv, Filters
  <2>4. after.stage \in {"identify", "identified"} => after.subs = wanted \/ Reidentifies
    BY <1>1, <2>1, <2>3
  <2>5. \/ Reidentifies
        \/ \E m \in ToSet(toClient') : m.op = OpIdentified
        \/ session.phase = "Identified"
        => after.stage \in {"identified", "closed"}
    BY <1>3, <2>1, <2>3
  <2> QED
    BY <1>1, <2>2, <2>4, <2>5 DEF IInv, Filters
<1>10. Announced'
  BY <1>1 DEF IInv, Announced
<1> QED
  BY <1>5, <1>6, <1>7, <1>8, <1>9, <1>10 DEF IInv

----------------------------------------------------------------------------
(* The steps of the session.                                               *)

\* Draining takes the events and nothing else.
LEMMA DrainedSession ==
    ASSUME NEW s, WellFormed(s)
    PROVE  LET t == Drained(s)
           IN  /\ WellFormed(t) /\ t.events = <<>> /\ Exclusive(t, t.events)
               /\ PendingIds(t) = PendingIds(s) /\ t.pending = s.pending
               /\ t.nextId = s.nextId /\ t.phase = s.phase /\ t.outgoing = s.outgoing
               /\ t.subs = s.subs /\ t.negotiated = s.negotiated
<1> DEFINE t == Drained(s)
<1>1. <<>> \in Seq(SessionEvent) /\ t = [s EXCEPT !.events = <<>>]
  BY DEF Drained
<1> HIDE DEF t
<1>2. /\ t.events = <<>> /\ t.pending = s.pending
      /\ t.nextId = s.nextId /\ t.phase = s.phase /\ t.outgoing = s.outgoing
      /\ t.subs = s.subs /\ t.negotiated = s.negotiated
  BY <1>1 DEF WellFormed, WellTyped
<1>3. WellFormed(t)
  BY <1>1, <1>2 DEF WellFormed, WellTyped, PendingIds
<1>4. Exclusive(t, t.events)
  BY <1>2 DEF Exclusive
<1> QED
  BY <1>2, <1>3, <1>4 DEF t, PendingIds

\* A call that can have been issued still can when others have been settled.
LEMMA IssuedKept ==
    ASSUME NEW ss, NEW tt, NEW lost, Settles(ss, tt, lost), NEW id, NEW batch, Issued(ss, id, batch)
    PROVE  Issued(tt, id, batch)
  BY DEF Settles, Issued

\* A call is as issued as before when map and counter are.
LEMMA IssuedSame ==
    ASSUME NEW ss, NEW tt, tt.pending = ss.pending, tt.nextId = ss.nextId,
           NEW id, NEW batch, Issued(ss, id, batch)
    PROVE  Issued(tt, id, batch)
  BY DEF Issued, PendingIds

\* The frames left after one at most was taken.
LEMMA FramesLeft ==
    ASSUME IInv, OneFrameAtMost
    PROVE  /\ toClient' \in Seq(ServerFrame) /\ Len(toClient') <= MaxInFlight
           /\ ToSet(toClient') \subseteq ToSet(toClient)
           /\ Offline /\ waiters' = waiters /\ asked' = asked /\ obs' = obs => Offline'
<1>1. toClient \in Seq(ServerFrame) /\ Len(toClient) <= MaxInFlight /\ Len(toClient) \in Nat
  BY LenProperties DEF IInv, Types, TypeOK
<1>2. CASE toClient' = toClient
  BY <1>1, <1>2 DEF Offline
<1>3. CASE toClient # <<>> /\ toClient' = Tail(toClient)
  BY <1>1, <1>3, TailElements DEF Offline
<1> QED
  BY <1>2, <1>3 DEF OneFrameAtMost

\* A frame of the handshake.
LEMMA GreetingInv ==
    ASSUME IInv, NEW s, GreetingStep(s)
    PROVE  IInv'
<1>1. /\ pc = "identify" /\ toClient # <<>> /\ session.negotiated = 0
      /\ Settles(session, s, obs.misled) /\ MessageKeeps(session, s, Head(toClient).op)
      /\ session' = Drained(s) /\ toClient' = Tail(toClient)
      /\ UNCHANGED <<pc, ready, conn, attempt, lastError, wanted, waiters, stage, asked, commands,
                     reply, dropped, obs>>
  BY DEF GreetingStep, runVars
<1>2. OneFrameAtMost
  BY <1>1 DEF OneFrameAtMost
<1>3. /\ toClient' \in Seq(ServerFrame) /\ Len(toClient') <= MaxInFlight
      /\ ToSet(toClient') \subseteq ToSet(toClient)
      /\ Head(toClient) \in ToSet(toClient)
  BY <1>1, <1>2, FramesLeft, TailElements DEF IInv, Types
<1>4. /\ WellFormed(session) /\ WellFormed(s) /\ Owed(s) \subseteq Owed(session)
      /\ s.nextId = session.nextId
  BY <1>1 DEF Settles, IInv, Types, TypeOK
<1>5. /\ WellFormed(session') /\ session'.events = <<>> /\ Exclusive(session', session'.events)
      /\ PendingIds(session') = PendingIds(s) /\ session'.pending = s.pending
      /\ session'.nextId = session.nextId /\ session'.phase = s.phase
      /\ session'.outgoing = s.outgoing /\ session'.subs = s.subs
      /\ session'.negotiated = s.negotiated
  BY <1>1, <1>4, DrainedSession
<1>6. waiters = <<>> /\ Owed(session) = {}
  BY <1>1 DEF IInv, Control, Ledger, WaitersMatchPending, Owed, CompletedBy
<1>7. /\ s.subs = wanted
      /\ s.negotiated # 0 => s.phase = "Identified"
      /\ s.phase = "Identified" => session.phase = "Identified" \/ Head(toClient).op = OpIdentified
      /\ \A frame \in ToSet(s.outgoing) :
            \/ frame \in ToSet(session.outgoing)
            \/ frame.op = OpIdentify /\ frame.subs = wanted
      /\ \A frame \in ToSet(session.outgoing) : frame \in ToSet(s.outgoing)
  <2>1. session.subs = wanted /\ session.outgoing \in Seq(OutgoingFrame)
    BY <1>4 DEF IInv, Filters, WellFormed, WellTyped
  <2>2. \/ s.outgoing = session.outgoing
        \/ \E frame \in OutgoingFrame : /\ frame.op = OpIdentify /\ frame.subs = wanted
                                       /\ s.outgoing = Append(session.outgoing, frame)
    BY <1>1, <2>1 DEF MessageKeeps
  <2>3. /\ \A frame \in ToSet(s.outgoing) :
            \/ frame \in ToSet(session.outgoing)
            \/ frame.op = OpIdentify /\ frame.subs = wanted
        /\ \A frame \in ToSet(session.outgoing) : frame \in ToSet(s.outgoing)
    <3>1. CASE s.outgoing = session.outgoing
      BY <3>1
    <3>2. CASE \E frame \in OutgoingFrame : /\ frame.op = OpIdentify /\ frame.subs = wanted
                                            /\ s.outgoing = Append(session.outgoing, frame)
      <4>1. PICK frame \in OutgoingFrame : /\ frame.op = OpIdentify /\ frame.subs = wanted
                                           /\ s.outgoing = Append(session.outgoing, frame)
        BY <3>2
      <4>2. ToSet(s.outgoing) = ToSet(session.outgoing) \cup {frame}
        BY <2>1, <4>1, AppendElements
      <4> QED
        BY <4>1, <4>2
    <3> QED
      BY <2>2, <3>1, <3>2
  <2> QED
    BY <1>1, <2>1, <2>3 DEF MessageKeeps
<1>8. Types'
  BY <1>1, <1>3, <1>5 DEF IInv, Types, TypeOK
<1>9. Control'
  BY <1>1, <1>5, <1>7 DEF IInv, Control, ServesIdentified
<1>10. Ledger'
  <2>1. WaitersMatchPending'
    BY <1>1, <1>4, <1>5, <1>6 DEF WaitersMatchPending, Owed
  <2>2. NobodyMisrouted'
    BY <1>1 DEF IInv, Ledger, NobodyMisrouted
  <2>3. \A id, batch : Issued(session, id, batch) => Issued(session', id, batch)
    BY <1>1, <1>4, <1>5, IssuedKept, IssuedSame
  <2>4. \A frame \in ToSet(session'.outgoing) :
            IsCall(frame) => Issued(session', frame.id, frame.op = OpRequestBatch)
    <3>1. \A frame : IsCall(frame) => frame.op # OpIdentify
      BY DEF IsCall, OpIdentify, OpRequest, OpRequestBatch
    <3> QED
      BY <1>5, <1>7, <2>3, <3>1, Zenon DEF IInv, Ledger
  <2>5. \A m \in ToSet(toClient') :
            IsAnswer(m) => \/ m.id \in obs'.misled
                           \/ Issued(session', m.id, m.op = OpRequestBatchResponse)
    BY <1>1, <1>3, <2>3, Zenon DEF IInv, Ledger
  <2>6. \A r \in obs'.open : Issued(session', r.id, r.batch)
    BY <1>1, <2>3 DEF IInv, Ledger
  <2>7. \A id \in DOMAIN waiters' : asked'[id] = {waiters'[id].who}
    BY <1>1 DEF IInv, Ledger
  <2> QED
    BY <1>5, <2>1, <2>2, <2>4, <2>5, <2>6, <2>7 DEF Ledger
<1>11. Tracking'
  BY <1>1 DEF IInv, Tracking, Queued, Open
<1>12. Filters'
  <2>1. Reidentifies' <=> Reidentifies
    BY <1>5, <1>7 DEF Reidentifies, OpIdentify, OpReidentify
  <2>2. /\ obs.stage \in {"identify", "identified"} => obs.subs = wanted \/ Reidentifies
        /\ \/ Reidentifies
           \/ \E m \in ToSet(toClient) : m.op = OpIdentified
           \/ session.phase = "Identified"
           => obs.stage \in {"identified", "closed"}
        /\ \A frame \in ToSet(session.outgoing) :
                frame.op \in {OpIdentify, OpReidentify} => frame.subs = wanted
    BY DEF IInv, Filters
  <2>3. \/ Reidentifies
        \/ \E m \in ToSet(toClient') : m.op = OpIdentified
        \/ s.phase = "Identified"
        => obs.stage \in {"identified", "closed"}
    BY <1>3, <1>7, <2>2
  <2>4. \A frame \in ToSet(session'.outgoing) :
                frame.op \in {OpIdentify, OpReidentify} => frame.subs = wanted
    BY <1>5, <1>7, <2>2
  <2>5. session'.subs = wanted /\ wanted' = wanted /\ obs' = obs /\ session'.phase = s.phase
    BY <1>1, <1>5, <1>7
  <2> QED
    BY <2>1, <2>2, <2>3, <2>4, <2>5 DEF Filters
<1>13. Announced'
  BY <1>1 DEF IInv, Announced
<1> QED
  BY <1>8, <1>9, <1>10, <1>11, <1>12, <1>13 DEF IInv

\* What OBS and the queues know of calls outlives the calls.
LEMMA IssuedInv ==
    ASSUME IInv, NEW s, Settles(session, s, obs.misled),
           session'.pending = s.pending, session'.nextId = s.nextId,
           session'.outgoing = session.outgoing, obs' = obs, OneFrameAtMost
    PROVE  /\ \A frame \in ToSet(session'.outgoing) :
                    IsCall(frame) => Issued(session', frame.id, frame.op = OpRequestBatch)
           /\ \A r \in obs'.open : Issued(session', r.id, r.batch)
           /\ \A m \in ToSet(toClient') :
                    IsAnswer(m) => \/ m.id \in obs'.misled
                                   \/ Issued(session', m.id, m.op = OpRequestBatchResponse)
<1>1. \A id, batch : Issued(session, id, batch) => Issued(session', id, batch)
  BY IssuedKept, IssuedSame
<1>2. ToSet(toClient') \subseteq ToSet(toClient)
  BY FramesLeft
<1>3. \A frame \in ToSet(session'.outgoing) :
            IsCall(frame) => Issued(session', frame.id, frame.op = OpRequestBatch)
  BY <1>1, Zenon DEF IInv, Ledger
<1>4. \A r \in obs'.open : Issued(session', r.id, r.batch)
  BY <1>1 DEF IInv, Ledger
<1>5. \A m \in ToSet(toClient') :
            IsAnswer(m) => \/ m.id \in obs'.misled
                           \/ Issued(session', m.id, m.op = OpRequestBatchResponse)
  BY <1>1, <1>2, Zenon DEF IInv, Ledger
<1> QED
  BY <1>3, <1>4, <1>5

\* The filters stay, as the frames in both directions only get fewer.
LEMMA FiltersInv ==
    ASSUME IInv, session'.subs = session.subs, session'.outgoing = session.outgoing,
           session'.phase = "Identified" => session.phase = "Identified",
           UNCHANGED <<wanted, obs>>, OneFrameAtMost
    PROVE  Filters'
<1>1. ToSet(toClient') \subseteq ToSet(toClient)
  BY FramesLeft
<1>2. Reidentifies' <=> Reidentifies
  BY DEF Reidentifies
<1>3. /\ session.subs = wanted
      /\ \A frame \in ToSet(session.outgoing) :
            frame.op \in {OpIdentify, OpReidentify} => frame.subs = wanted
      /\ obs.stage \in {"identify", "identified"} => obs.subs = wanted \/ Reidentifies
      /\ \/ Reidentifies
         \/ \E m \in ToSet(toClient) : m.op = OpIdentified
         \/ session.phase = "Identified"
         => obs.stage \in {"identified", "closed"}
  BY DEF IInv, Filters
<1>4. \/ Reidentifies
      \/ \E m \in ToSet(toClient') : m.op = OpIdentified
      \/ session'.phase = "Identified"
      => obs.stage \in {"identified", "closed"}
  BY <1>1, <1>3
<1> QED
  BY <1>2, <1>3, <1>4 DEF Filters

\* dispatch() takes from the map what the session has settled, and no more.
LEMMA WaitersAfter ==
    ASSUME IInv, NEW s, Settles(session, s, obs.misled), Closings(s.events) = {}
    PROVE  /\ Completed(s.events) = CompletedBy(s.events)
           /\ PendingIds(s) \subseteq DOMAIN waiters \ Completed(s.events)
           /\ DOMAIN waiters \ Completed(s.events) \subseteq PendingIds(s) \cup obs.misled
<1>1. s.events \in Seq(SessionEvent)
  BY DEF Settles, WellFormed, WellTyped
<1>2. Delivered(s.events) = s.events
  BY <1>1, DeliveredElements
<1>3. /\ Owed(session) \subseteq DOMAIN waiters
      /\ DOMAIN waiters \subseteq Owed(session) \cup obs.misled
      /\ Owed(s) \subseteq Owed(session) /\ Owed(session) \subseteq Owed(s) \cup obs.misled
  BY DEF IInv, Ledger, WaitersMatchPending, Owed, CompletedBy, Settles
<1>4. Completed(s.events) = CompletedBy(s.events)
  BY <1>2, <1>3 DEF Completed, CompletedBy, Owed
<1>5. CompletedBy(s.events) \cap PendingIds(s) = {}
  BY DEF Settles, Exclusive, CompletedBy
<1> QED
  BY <1>3, <1>4, <1>5 DEF Owed

\* Calls that ended are handed over to those who wait for them.
LEMMA CompletionInv ==
    ASSUME IInv, NEW s, CompletionStep(s)
    PROVE  IInv'
<1>1. /\ Settles(session, s, obs.misled) /\ s.subs = session.subs
      /\ session.outgoing = <<>> /\ s.outgoing = <<>>
      /\ session.phase = "Identified" /\ s.phase = "Identified" /\ Closings(s.events) = {}
      /\ (pc = "wait" /\ pc' = "wait") \/ (pc = "flush" /\ pc' = "serve")
      /\ session' = Drained(s) /\ waiters' = WaitersLeft(s.events)
      /\ reply' = Replies(s.events)
      /\ OneFrameAtMost
      /\ UNCHANGED <<ready, conn, attempt, lastError, wanted, stage, asked, commands, dropped, obs>>
  BY DEF CompletionStep, runVars
<1>2. /\ WellFormed(s) /\ s.events \in Seq(SessionEvent) /\ s.nextId = session.nextId
  BY <1>1 DEF Settles, WellFormed, WellTyped
<1>3. /\ WellFormed(session') /\ session'.events = <<>> /\ Exclusive(session', session'.events)
      /\ PendingIds(session') = PendingIds(s) /\ session'.pending = s.pending
      /\ session'.nextId = session.nextId /\ session'.phase = "Identified"
      /\ session'.outgoing = <<>> /\ session'.subs = session.subs
  BY <1>1, <1>2, DrainedSession
<1>4. /\ DOMAIN waiters' = DOMAIN waiters \ Completed(s.events)
      /\ \A id \in DOMAIN waiters' : waiters'[id] = waiters[id]
      /\ PendingIds(s) \subseteq DOMAIN waiters'
      /\ DOMAIN waiters' \subseteq PendingIds(s) \cup obs.misled
  BY <1>1, WaitersAfter DEF WaitersLeft
<1>5. /\ toClient' \in Seq(ServerFrame) /\ Len(toClient') <= MaxInFlight
  BY <1>1, FramesLeft
<1>6. /\ Released(reply')
      /\ \A id \in Completed(s.events) : reply'[waiters[id].who].state # "waiting"
      /\ \A c \in Waits : (\A id \in Completed(s.events) : waiters[id].who # c)
                                => reply'[c] = reply[c]
  BY <1>1, <1>2, RepliesReleased
<1>7. Types'
  <2>1. reply' \in [Waits -> Oneshots] /\ DOMAIN reply' = Waits
    BY <1>6 DEF Released
  <2> QED
    BY <1>1, <1>3, <1>4, <1>5, <2>1 DEF IInv, Types, TypeOK
<1>8. Control'
  <2>1. pc = "wait" => Owners(waiters') \subseteq OwnCalls
    BY <1>4 DEF IInv, Control, Owners
  <2> QED
    BY <1>1, <1>3, <2>1 DEF IInv, Control, ServesIdentified
<1>9. Ledger'
  <2>1. WaitersMatchPending'
    BY <1>1, <1>3, <1>4 DEF WaitersMatchPending
  <2>2. NobodyMisrouted'
    BY <1>6 DEF IInv, Ledger, NobodyMisrouted, Released
  <2>3. /\ \A frame \in ToSet(session'.outgoing) :
                    IsCall(frame) => Issued(session', frame.id, frame.op = OpRequestBatch)
        /\ \A r \in obs'.open : Issued(session', r.id, r.batch)
        /\ \A m \in ToSet(toClient') :
                    IsAnswer(m) => \/ m.id \in obs'.misled
                                   \/ Issued(session', m.id, m.op = OpRequestBatchResponse)
    BY <1>1, <1>2, <1>3, IssuedInv
  <2>4. \A id \in DOMAIN waiters' : asked'[id] = {waiters'[id].who}
    BY <1>1, <1>4 DEF IInv, Ledger
  <2> QED
    BY <1>3, <2>1, <2>2, <2>3, <2>4 DEF Ledger
<1>10. Tracking'
  <2> SUFFICES ASSUME NEW c \in Callers
               PROVE  /\ \A i, j \in Queued(c)' : i = j
                      /\ \A i, j \in Open(c)' : i = j
                      /\ Queued(c)' = {} \/ Open(c)' = {}
                      /\ reply'[c].state = "waiting" => Queued(c)' # {} \/ Open(c)' # {}
                      /\ reply'[c].state = "idle" => Queued(c)' = {} /\ Open(c)' = {}
    BY DEF Tracking
  <2>1. Queued(c)' = Queued(c)
    BY <1>1 DEF Queued
  <2>2. Open(c)' = Open(c) \ Completed(s.events)
    BY <1>4 DEF Open
  <2>3. /\ \A i, j \in Queued(c) : i = j
        /\ \A i, j \in Open(c) : i = j
        /\ Queued(c) = {} \/ Open(c) = {}
        /\ reply[c].state = "waiting" => Queued(c) # {} \/ Open(c) # {}
        /\ reply[c].state = "idle" => Queued(c) = {} /\ Open(c) = {}
    BY DEF IInv, Tracking
  <2>4. /\ reply'[c].state = "waiting" => reply[c].state = "waiting"
        /\ reply'[c].state = "idle" => reply[c].state = "idle"
    BY <1>6 DEF Released, Waits
  <2>5. reply'[c].state = "waiting" => Open(c) \cap Completed(s.events) = {}
    BY <1>6 DEF Open
  <2> QED
    BY <2>1, <2>2, <2>3, <2>4, <2>5
<1>11. Filters'
  BY <1>1, <1>3, FiltersInv
<1>12. Announced'
  BY <1>1 DEF IInv, Announced
<1> QED
  BY <1>7, <1>8, <1>9, <1>10, <1>11, <1>12 DEF IInv

\* The select! has given the session something to settle.
LEMMA SelectInv ==
    ASSUME IInv, NEW s, SelectStep(s)
    PROVE  IInv'
<1>1. /\ pc = "serve" /\ pc' = "flush"
      /\ Settles(session, s, obs.misled) /\ s.subs = session.subs /\ s.outgoing = session.outgoing
      /\ s.phase = "Identified" \/ Closings(s.events) # {}
      /\ session' = s /\ OneFrameAtMost
      /\ UNCHANGED <<ready, conn, attempt, lastError, wanted, waiters, stage, asked, commands,
                     reply, dropped, obs>>
  BY DEF SelectStep, runVars
<1>2. /\ WellFormed(s) /\ s.nextId = session.nextId /\ Owed(s) \subseteq Owed(session)
      /\ Owed(session) \subseteq Owed(s) \cup obs.misled /\ Exclusive(s, s.events)
  BY <1>1 DEF Settles
<1>3. session.phase = "Identified" /\ session.outgoing = <<>>
  BY <1>1 DEF IInv, Control, ServesIdentified
<1>4. /\ toClient' \in Seq(ServerFrame) /\ Len(toClient') <= MaxInFlight
  BY <1>1, FramesLeft
<1>5. Types'
  BY <1>1, <1>2, <1>4 DEF IInv, Types, TypeOK
<1>6. Control'
  BY <1>1, <1>3 DEF IInv, Control, ServesIdentified
<1>7. Ledger'
  <2>1. WaitersMatchPending'
    BY <1>1, <1>2 DEF IInv, Ledger, WaitersMatchPending, Owed, CompletedBy
  <2>2. NobodyMisrouted'
    BY <1>1 DEF IInv, Ledger, NobodyMisrouted
  <2>3. /\ \A frame \in ToSet(session'.outgoing) :
                    IsCall(frame) => Issued(session', frame.id, frame.op = OpRequestBatch)
        /\ \A r \in obs'.open : Issued(session', r.id, r.batch)
        /\ \A m \in ToSet(toClient') :
                    IsAnswer(m) => \/ m.id \in obs'.misled
                                   \/ Issued(session', m.id, m.op = OpRequestBatchResponse)
    BY <1>1, IssuedInv
  <2> QED
    BY <1>1, <1>2, <2>1, <2>2, <2>3 DEF IInv, Ledger
<1>8. Tracking'
  BY <1>1 DEF IInv, Tracking, Queued, Open
<1>9. Filters'
  BY <1>1, <1>3, FiltersInv
<1>10. Announced'
  BY <1>1 DEF IInv, Announced
<1> QED
  BY <1>5, <1>6, <1>7, <1>8, <1>9, <1>10 DEF IInv

\* A call of an Identified session enters both maps under a new id.
Begun(who, batch) ==
    /\ WellFormed(session') /\ session'.nextId = session.nextId + 1
    /\ session'.outgoing = Append(session.outgoing, CallFrame(session.nextId, batch))
    /\ session'.outgoing # <<>>
    /\ ToSet(session'.outgoing)
         = ToSet(session.outgoing) \cup {CallFrame(session.nextId, batch)}
    /\ session'.events = session.events /\ session'.phase = "Identified"
    /\ session'.subs = session.subs /\ session'.negotiated = session.negotiated
    /\ PendingIds(session') = PendingIds(session) \cup {session.nextId}
    /\ \A id \in DOMAIN waiters' : waiters'[id] \in Calls
    /\ DOMAIN waiters' = DOMAIN waiters \cup {session.nextId}
    /\ session.nextId \notin DOMAIN waiters
    /\ waiters'[session.nextId].who = who
    /\ \A id \in DOMAIN waiters : waiters'[id] = waiters[id]
    /\ DOMAIN asked' = DOMAIN asked \cup {session.nextId}
    /\ DOMAIN asked' \subseteq 1 .. session'.nextId - 1
    /\ \A id \in DOMAIN waiters' : asked'[id] = {waiters'[id].who}
    /\ \A id, kind : Issued(session, id, kind) => Issued(session', id, kind)
    /\ Issued(session', session.nextId, batch)

\* begin() does that for every caller and kind of call.
LEMMA BeginEffect ==
    ASSUME IInv, session.phase = "Identified", NEW who \in Waits, NEW batch \in BOOLEAN,
           NEW replies, Begin(who, batch, replies)
    PROVE  Begun(who, batch) /\ reply' = replies
<1> DEFINE id == session.nextId
           call == [who |-> who, batch |-> batch]
<1>1. /\ WellFormed(session) /\ id \in Nat \ {0} /\ session.outgoing \in Seq(OutgoingFrame)
      /\ DOMAIN waiters \subseteq DOMAIN asked /\ DOMAIN asked \subseteq 1 .. id - 1
      /\ \A k \in DOMAIN waiters : waiters[k] \in Calls
      /\ \A k \in DOMAIN waiters : asked[k] = {waiters[k].who}
  BY DEF IInv, Types, TypeOK, WellFormed, WellTyped, Ledger
<1>2. id \notin DOMAIN asked /\ id \notin DOMAIN waiters /\ id \notin PendingIds(session)
  BY <1>1 DEF WellFormed, WellTyped
<1>3. /\ session' = Enqueue(session, id, batch, TRUE).session
      /\ waiters' = With(waiters, id, call)
      /\ asked' = With(asked, id, {who} \cup (IF id \in DOMAIN asked THEN asked[id] ELSE {}))
      /\ reply' = replies
  BY DEF Begin
<1>4. /\ WellFormed(session') /\ session'.nextId = id + 1
      /\ PendingIds(session') = PendingIds(session) \cup {id}
      /\ session'.pending[id].batch = batch
      /\ \A k \in PendingIds(session) : session'.pending[k] = session.pending[k]
      /\ session'.outgoing = Append(session.outgoing, CallFrame(id, batch))
      /\ session'.events = session.events /\ session'.phase = "Identified"
      /\ session'.subs = session.subs /\ session'.negotiated = session.negotiated
  <2>1. PICK deadline \in Nat \cup {NoDeadline} : deadline = id
    BY <1>1
  <2>2. WellFormed(session)
    BY <1>1
  <2>3. Enqueued(session, Enqueue(session, deadline, batch, TRUE).session, batch)
    BY <2>2, EnqueueEffect, Zenon
  <2>4. Enqueued(session, session', batch)
    BY <1>3, <2>1, <2>3
  <2> QED
    BY <2>4 DEF Enqueued
<1>5. asked' = With(asked, id, {who})
  BY <1>2, <1>3
<1>6. /\ DOMAIN waiters' = DOMAIN waiters \cup {id} /\ waiters'[id] = call
      /\ \A k \in DOMAIN waiters : k # id => waiters'[k] = waiters[k]
      /\ DOMAIN asked' = DOMAIN asked \cup {id} /\ asked'[id] = {who}
      /\ \A k \in DOMAIN asked : k # id => asked'[k] = asked[k]
  BY <1>3, <1>5 DEF With
<1>7. call \in Calls /\ call.who = who
  BY DEF Calls
<1> HIDE DEF call, id
<1>8. /\ \A k \in DOMAIN waiters' : waiters'[k] \in Calls
      /\ \A k \in DOMAIN waiters' : asked'[k] = {waiters'[k].who}
      /\ \A k \in DOMAIN waiters : waiters'[k] = waiters[k]
      /\ waiters'[id].who = who
  BY <1>1, <1>2, <1>6, <1>7
<1>9. DOMAIN asked' \subseteq 1 .. session'.nextId - 1
  BY <1>1, <1>4, <1>6
<1>10. CallFrame(id, batch) \in OutgoingFrame
  BY <1>1 DEF CallFrame, OutgoingFrame
<1>11. /\ session'.outgoing # <<>>
       /\ ToSet(session'.outgoing) = ToSet(session.outgoing) \cup {CallFrame(id, batch)}
  BY <1>1, <1>4, <1>10, AppendElements
<1>12. Issued(session', id, batch)
  BY <1>1, <1>4 DEF Issued
<1>13. ASSUME NEW k, NEW kind, Issued(session, k, kind)
       PROVE  Issued(session', k, kind)
  <2>1. k \in 1 .. id - 1 /\ k # id
    BY <1>1, <1>13 DEF Issued, id
  <2>2. k \in 1 .. session'.nextId - 1
    BY <1>1, <1>4, <2>1
  <2> QED
    BY <1>4, <1>13, <2>1, <2>2 DEF Issued
<1> QED
  BY <1>2, <1>3, <1>4, <1>6, <1>8, <1>9, <1>11, <1>12, <1>13 DEF Begun, id

\* What a new call means for the ledger and the filters.
LEMMA BeginLedger ==
    ASSUME IInv, session.phase = "Identified", NEW who \in Waits, NEW batch \in BOOLEAN,
           NEW replies, Begin(who, batch, replies), OneFrameAtMost, UNCHANGED <<wanted, obs>>,
           NobodyMisrouted'
    PROVE  Ledger' /\ Filters'
<1> DEFINE f == CallFrame(session.nextId, batch)
<1>1. /\ WellFormed(session') /\ session'.nextId = session.nextId + 1
      /\ ToSet(session'.outgoing) = ToSet(session.outgoing) \cup {f}
      /\ session'.events = session.events /\ session'.phase = "Identified"
      /\ session'.subs = session.subs
      /\ PendingIds(session') = PendingIds(session) \cup {session.nextId}
      /\ DOMAIN waiters' = DOMAIN waiters \cup {session.nextId}
      /\ \A id \in DOMAIN waiters' : asked'[id] = {waiters'[id].who}
      /\ \A id, kind : Issued(session, id, kind) => Issued(session', id, kind)
      /\ Issued(session', session.nextId, batch)
  BY BeginEffect DEF Begun
<1>2. /\ f.id = session.nextId /\ f.op \notin {OpIdentify, OpReidentify}
      /\ f.op = OpRequestBatch <=> batch
  BY DEF CallFrame, OpRequest, OpRequestBatch, OpIdentify, OpReidentify
<1> HIDE DEF f
<1>3. ToSet(toClient') \subseteq ToSet(toClient)
  BY FramesLeft
<1>4. WaitersMatchPending'
  BY <1>1 DEF IInv, Ledger, WaitersMatchPending
<1>5. Exclusive(session', session'.events)
  <2>1. Exclusive(session, session.events) /\ session.nextId \in Nat
    BY DEF IInv, Ledger, Types, TypeOK, WellFormed, WellTyped
  <2>2. \A i \in DOMAIN session.events : IsCompletion(session.events[i]) =>
            session.events[i].id \in 1 .. session.nextId - 1
    BY <2>1 DEF Exclusive
  <2>3. \A i \in 1 .. session.nextId - 1 :
            i \in 1 .. session'.nextId - 1 /\ i # session.nextId
    BY <1>1, <2>1
  <2> QED
    BY <1>1, <2>1, <2>2, <2>3 DEF Exclusive
<1>6. \A frame \in ToSet(session'.outgoing) :
            IsCall(frame) => Issued(session', frame.id, frame.op = OpRequestBatch)
  <2>1. batch = (f.op = OpRequestBatch)
    BY <1>2, Zenon
  <2>2. Issued(session', f.id, f.op = OpRequestBatch)
    BY <1>1, <1>2, <2>1, Zenon
  <2> QED
    BY <1>1, <2>2, Zenon DEF IInv, Ledger
<1>7. \A r \in obs'.open : Issued(session', r.id, r.batch)
  BY <1>1 DEF IInv, Ledger
<1>8. \A m \in ToSet(toClient') :
            IsAnswer(m) => \/ m.id \in obs'.misled
                           \/ Issued(session', m.id, m.op = OpRequestBatchResponse)
  BY <1>1, <1>3, Zenon DEF IInv, Ledger
<1>9. Filters'
  <2>1. Reidentifies' <=> Reidentifies
    BY <1>1, <1>2 DEF Reidentifies
  <2>2. /\ session.subs = wanted
        /\ \A frame \in ToSet(session.outgoing) :
              frame.op \in {OpIdentify, OpReidentify} => frame.subs = wanted
        /\ obs.stage \in {"identify", "identified"} => obs.subs = wanted \/ Reidentifies
        /\ obs.stage \in {"identified", "closed"}
    BY DEF IInv, Filters
  <2>3. \A frame \in ToSet(session'.outgoing) :
              frame.op \in {OpIdentify, OpReidentify} => frame.subs = wanted
    BY <1>1, <1>2, <2>2
  <2> QED
    BY <1>1, <2>1, <2>2, <2>3 DEF Filters
<1> QED
  BY <1>1, <1>4, <1>5, <1>6, <1>7, <1>8, <1>9 DEF Ledger

\* The driver makes a call of its own.
LEMMA OwnCallInv ==
    ASSUME IInv, NEW n, OwnCallStep(n)
    PROVE  IInv'
<1>1. /\ pc \in {"identify", "wait"} /\ session.phase = "Identified"
      /\ pc' = "wait" /\ stage' = n /\ n \in OwnCalls
      /\ Begin(n, Startup[n], [reply EXCEPT ![n] = Waiting])
      /\ OneFrameAtMost
      /\ UNCHANGED <<ready, conn, attempt, lastError, wanted, commands, dropped, obs>>
  BY DEF OwnCallStep, runVars
<1>2. n \in Waits /\ Startup[n] \in BOOLEAN /\ n \in 1 .. Len(Startup) /\ n \in Nat /\ n \notin Callers
  BY <1>1, LenProperties DEF OwnCalls, Waits
<1> DEFINE batch == Startup[n]
           id == session.nextId
<1> HIDE DEF batch
<1>3. /\ WellFormed(session') /\ session'.nextId = id + 1
      /\ session'.outgoing # <<>> /\ session'.events = session.events
      /\ session'.phase = "Identified"
      /\ \A k \in DOMAIN waiters' : waiters'[k] \in Calls
      /\ DOMAIN waiters' = DOMAIN waiters \cup {id} /\ waiters'[id].who = n
      /\ \A k \in DOMAIN waiters : waiters'[k] = waiters[k]
      /\ DOMAIN asked' = DOMAIN asked \cup {id} /\ DOMAIN asked' \subseteq 1 .. session'.nextId - 1
      /\ reply' = [reply EXCEPT ![n] = Waiting]
  <2> DEFINE after == [reply EXCEPT ![n] = Waiting]
  <2>1. batch \in BOOLEAN /\ Begin(n, batch, after)
    BY <1>1, <1>2 DEF batch
  <2> HIDE DEF after
  <2>2. Begun(n, batch) /\ reply' = after
    BY <1>1, <1>2, <2>1, BeginEffect
  <2> QED
    BY <2>2 DEF after, Begun
<1>4. reply \in [Waits -> Oneshots] /\ Waiting \in Oneshots
  BY DEF IInv, Types, Waiting, Oneshots, Causes
<1>5. /\ reply' \in [Waits -> Oneshots] /\ DOMAIN reply' = Waits
      /\ reply'[n].state = "waiting" /\ reply'[n].ok = FALSE
      /\ \A c \in Waits : c # n => reply'[c] = reply[c]
  BY <1>2, <1>3, <1>4 DEF Waiting
<1>6. toClient' \in Seq(ServerFrame) /\ Len(toClient') <= MaxInFlight
  BY <1>1, FramesLeft
<1>7. Types'
  <2>1. stage' \in 0 .. Len(Startup) /\ DOMAIN waiters' \subseteq DOMAIN asked'
    BY <1>1, <1>2, <1>3, LenProperties DEF IInv, Types, TypeOK
  <2> QED
    BY <1>1, <1>3, <1>5, <1>6, <2>1 DEF IInv, Types, TypeOK
<1>8. Control'
  <2>1. Owners(waiters) \subseteq OwnCalls
    BY <1>1 DEF IInv, Control, Owners
  <2>2. Owners(waiters') \subseteq OwnCalls
    BY <1>1, <1>3, <2>1 DEF Owners
  <2> QED
    BY <1>1, <1>3, <1>5, <2>2 DEF IInv, Control, ServesIdentified
<1>9. Ledger' /\ Filters'
  <2>1. NobodyMisrouted'
    BY <1>5 DEF IInv, Ledger, NobodyMisrouted
  <2> QED
    BY <1>1, <1>2, <2>1, BeginLedger
<1>10. Tracking'
  <2> SUFFICES ASSUME NEW c \in Callers
               PROVE  /\ \A i, j \in Queued(c)' : i = j
                      /\ \A i, j \in Open(c)' : i = j
                      /\ Queued(c)' = {} \/ Open(c)' = {}
                      /\ reply'[c].state = "waiting" => Queued(c)' # {} \/ Open(c)' # {}
                      /\ reply'[c].state = "idle" => Queued(c)' = {} /\ Open(c)' = {}
    BY DEF Tracking
  <2>1. Queued(c)' = Queued(c)
    BY <1>1 DEF Queued
  <2>2. Open(c)' = Open(c)
    BY <1>2, <1>3 DEF Open
  <2>3. reply'[c] = reply[c]
    BY <1>2, <1>5 DEF Waits
  <2> QED
    BY <2>1, <2>2, <2>3 DEF IInv, Tracking
<1>11. Announced'
  BY <1>1 DEF IInv, Announced
<1> QED
  BY <1>7, <1>8, <1>9, <1>10, <1>11 DEF IInv

\* Connected is published.
LEMMA AnnounceInv ==
    ASSUME IInv, AnnounceStep
    PROVE  IInv'
<1>1. /\ pc = "wait" /\ session.outgoing = <<>>
      /\ pc' = "serve" /\ stage' = 0 /\ ready' = "ok"
      /\ conn' = [state |-> "Connected", attempt |-> 0, code |-> 0]
      /\ reply' = CallersOnly(reply) /\ OneFrameAtMost
      /\ UNCHANGED <<session, waiters, asked, attempt, lastError, wanted, commands, dropped, obs>>
  BY DEF AnnounceStep
<1>2. /\ reply' \in [Waits -> Oneshots] /\ DOMAIN reply' = Waits
      /\ \A c \in Callers : reply'[c] = reply[c]
      /\ \A c \in Waits : reply'[c].ok => reply[c] = reply'[c]
  <2>1. reply \in [Waits -> Oneshots] /\ Idle \in Oneshots /\ Idle.ok = FALSE
    BY DEF IInv, Types, Idle, Waiting, Oneshots, Causes
  <2> QED
    BY <1>1, <2>1 DEF CallersOnly, Waits
<1>3. toClient' \in Seq(ServerFrame) /\ Len(toClient') <= MaxInFlight
  BY <1>1, FramesLeft
<1>4. Types'
  <2>1. stage' \in 0 .. Len(Startup)
    BY <1>1, LenProperties
  <2>2. conn' \in [state : {"Connecting", "Connected", "Reconnecting", "Closed"},
                   attempt : 0 .. AttemptMax, code : Nat]
    BY <1>1
  <2> QED
    BY <1>1, <1>2, <1>3, <2>1, <2>2 DEF IInv, Types, TypeOK
<1>5. Control'
  BY <1>1 DEF IInv, Control, ServesIdentified
<1>6. Ledger'
  <2>1. WaitersMatchPending' /\ NobodyMisrouted'
    BY <1>1, <1>2 DEF IInv, Ledger, WaitersMatchPending, NobodyMisrouted
  <2>2. ToSet(toClient') \subseteq ToSet(toClient)
    BY <1>1, FramesLeft
  <2>3. \A m \in ToSet(toClient') :
            IsAnswer(m) => \/ m.id \in obs'.misled
                           \/ Issued(session', m.id, m.op = OpRequestBatchResponse)
    BY <1>1, <2>2, Zenon DEF IInv, Ledger
  <2> QED
    BY <1>1, <2>1, <2>3 DEF IInv, Ledger
<1>7. Tracking'
  BY <1>1, <1>2 DEF IInv, Tracking, Queued, Open
<1>8. Filters'
  BY <1>1, FiltersInv
<1>9. Announced'
  BY <1>1 DEF Announced
<1> QED
  BY <1>4, <1>5, <1>6, <1>7, <1>8, <1>9 DEF IInv

----------------------------------------------------------------------------
(* The commands of the application.                                        *)

\* The command of caller who has been taken from the channel: it was its only
\* one, and every other command is still there.
Taken(who) ==
    /\ who \in Callers /\ Queued(who) # {} /\ Queued(who)' = {}
    /\ commands' \in Seq(CommandRecords)
    /\ \A c \in Callers : \A i, j \in Queued(c)' : i = j
    /\ \A c \in Callers : c # who => (Queued(c)' = {} <=> Queued(c) = {})

\* So it is with the head of the command channel.
LEMMA TakenFromChannel ==
    ASSUME IInv, commands # <<>>, commands' = Tail(commands),
           NEW who, who = Head(commands).who
    PROVE  Taken(who)
<1>1. commands \in Seq(CommandRecords)
  BY DEF IInv, Types, TypeOK
<1> PICK t : t = Tail(commands)
  OBVIOUS
<1>2. /\ Head(commands) \in CommandRecords /\ t \in Seq(CommandRecords)
      /\ 1 \in DOMAIN commands /\ commands[1] = Head(commands)
      /\ \A i \in DOMAIN t : i + 1 \in DOMAIN commands /\ i + 1 # 1 /\ t[i] = commands[i + 1]
      /\ \A j \in DOMAIN commands : j = 1 \/ \E i \in DOMAIN t : j = i + 1
  BY <1>1, TailElements
<1>3. DOMAIN t \subseteq Nat
  BY <1>2, LenProperties
<1>4. who \in Callers /\ commands' = t
  BY <1>2 DEF CommandRecords
<1>5. \A c \in Callers : \A i, j \in Queued(c) : i = j
  BY DEF IInv, Tracking
<1>6. 1 \in Queued(who)
  BY <1>2 DEF Queued
<1>7. \A c : Queued(c)' = {i \in DOMAIN t : t[i].who = c}
  BY <1>4 DEF Queued
<1>8. \A c : \A i \in Queued(c)' : i \in Nat /\ i + 1 \in Queued(c) /\ i + 1 # 1
  <2> SUFFICES ASSUME NEW c, NEW i \in DOMAIN t, t[i].who = c
               PROVE  i \in Nat /\ i + 1 \in Queued(c) /\ i + 1 # 1
    BY <1>7
  <2>1. PICK k \in DOMAIN commands : k = i + 1
    BY <1>2
  <2>2. commands[k] = t[i] /\ i \in Nat /\ k # 1
    BY <1>2, <1>3, <2>1
  <2>3. k \in Queued(c)
    BY <2>1, <2>2 DEF Queued
  <2> QED
    BY <2>1, <2>2, <2>3
<1>9. \A c \in Callers : \A i, j \in Queued(c)' : i = j
  <2> SUFFICES ASSUME NEW c \in Callers, NEW i \in Queued(c)', NEW j \in Queued(c)'
               PROVE  i = j
    OBVIOUS
  <2>1. /\ i \in Nat /\ j \in Nat
        /\ i + 1 \in Queued(c) /\ j + 1 \in Queued(c)
    BY <1>8
  <2>2. i + 1 = j + 1
    BY <1>5, <2>1, Zenon
  <2> QED
    BY <2>1, <2>2
<1>10. Queued(who)' = {}
  <2> SUFFICES ASSUME NEW i \in Queued(who)' PROVE FALSE
    OBVIOUS
  <2>1. i + 1 \in Queued(who) /\ i + 1 # 1
    BY <1>8
  <2> QED
    BY <1>4, <1>5, <1>6, <2>1, Zenon
<1>11. ASSUME NEW c \in Callers, c # who
       PROVE  Queued(c)' = {} <=> Queued(c) = {}
  <2>1. Queued(c)' # {} => Queued(c) # {}
    BY <1>8
  <2>2. ASSUME NEW j \in Queued(c) PROVE Queued(c)' # {}
    <3>1. j \in DOMAIN commands /\ commands[j].who = c /\ j # 1
      BY <1>2, <1>11 DEF Queued
    <3>2. PICK i \in DOMAIN t : j = i + 1
      BY <1>2, <3>1
    <3>3. t[i].who = c
      BY <1>2, <3>1, <3>2
    <3> QED
      BY <1>7, <3>3
  <2> QED
    BY <2>1, <2>2
<1> QED
  BY <1>2, <1>4, <1>6, <1>9, <1>10, <1>11 DEF Taken

\* A command is taken from the channel and becomes a call of the pump.
LEMMA TakeCallInv ==
    ASSUME IInv, TakeCall
    PROVE  IInv'
<1> DEFINE head == Head(commands)
<1>0. PICK who : who = head.who
  OBVIOUS
<1>1. PICK batch \in BOOLEAN : batch = (head.kind = "batch")
  BY Zenon
<1>2. /\ pc = "serve" /\ pc' = "flush" /\ commands # <<>> /\ commands' = Tail(commands)
      /\ Begin(who, batch, reply)
      /\ UNCHANGED <<ready, conn, attempt, lastError, wanted, stage, dropped, obs, toClient>>
  BY <1>0, <1>1 DEF TakeCall, runVars, netVars
<1> HIDE DEF head
<1>3. Taken(who)
  BY <1>0, <1>2, TakenFromChannel DEF head
<1>4. session.phase = "Identified" /\ who \in Waits
  BY <1>2, <1>3 DEF IInv, Control, ServesIdentified, Taken, Waits
<1>5. Begun(who, batch) /\ reply' = reply
  BY <1>2, <1>4, BeginEffect
<1>6. OneFrameAtMost
  BY <1>2 DEF OneFrameAtMost
<1>7. Types'
  <2>1. DOMAIN waiters \subseteq DOMAIN asked /\ commands' \in Seq(CommandRecords)
    BY <1>3 DEF IInv, Types, TypeOK, Taken
  <2>2. DOMAIN waiters' \subseteq DOMAIN asked' /\ DOMAIN asked' \subseteq 1 .. session'.nextId - 1
    BY <1>5, <2>1 DEF Begun
  <2>3. WellFormed(session') /\ \A id \in DOMAIN waiters' : waiters'[id] \in Calls
    BY <1>5 DEF Begun
  <2> QED
    BY <1>2, <1>5, <2>1, <2>2, <2>3 DEF IInv, Types, TypeOK
<1>8. Control'
  <2>1. session'.phase = "Identified"
    BY <1>5 DEF Begun
  <2> QED
    BY <1>2, <2>1 DEF IInv, Control, ServesIdentified
<1>9. Ledger' /\ Filters'
  <2>1. NobodyMisrouted'
    BY <1>5 DEF IInv, Ledger, NobodyMisrouted
  <2> QED
    BY <1>2, <1>4, <1>6, <2>1, BeginLedger
<1>10. Tracking'
  <2> SUFFICES ASSUME NEW c \in Callers
               PROVE  /\ \A i, j \in Queued(c)' : i = j
                      /\ \A i, j \in Open(c)' : i = j
                      /\ Queued(c)' = {} \/ Open(c)' = {}
                      /\ reply'[c].state = "waiting" => Queued(c)' # {} \/ Open(c)' # {}
                      /\ reply'[c].state = "idle" => Queued(c)' = {} /\ Open(c)' = {}
    BY DEF Tracking
  <2>1. /\ \A i, j \in Open(c) : i = j
        /\ Queued(c) = {} \/ Open(c) = {}
        /\ reply[c].state = "waiting" => Queued(c) # {} \/ Open(c) # {}
        /\ reply[c].state = "idle" => Queued(c) = {} /\ Open(c) = {}
    BY DEF IInv, Tracking
  <2>2. \A i, j \in Queued(c)' : i = j
    BY <1>3 DEF Taken
  <2>3. /\ DOMAIN waiters' = DOMAIN waiters \cup {session.nextId}
        /\ waiters'[session.nextId].who = who
        /\ session.nextId \notin DOMAIN waiters
        /\ \A id \in DOMAIN waiters : waiters'[id] = waiters[id]
    BY <1>5 DEF Begun
  <2>4. CASE c = who
    <3>1. Queued(c)' = {} /\ Queued(c) # {} /\ Open(c) = {} /\ reply'[c] = reply[c]
      BY <1>3, <1>5, <2>1, <2>4 DEF Taken
    <3>2. Open(c)' = {session.nextId}
      BY <2>3, <2>4, <3>1 DEF Open
    <3> QED
      BY <2>1, <2>2, <3>1, <3>2
  <2>5. CASE c # who
    <3>1. (Queued(c)' = {} <=> Queued(c) = {}) /\ reply'[c] = reply[c]
      BY <1>3, <1>5, <2>5 DEF Taken
    <3>2. Open(c)' = Open(c)
      BY <2>3, <2>5 DEF Open
    <3> QED
      BY <2>1, <2>2, <3>1, <3>2
  <2> QED
    BY <2>4, <2>5
<1>11. Announced'
  BY <1>2 DEF IInv, Announced
<1> QED
  BY <1>7, <1>8, <1>9, <1>10, <1>11 DEF IInv

\* A change of subscriptions is answered at once, and its frame is queued.
LEMMA TakeReidentifyInv ==
    ASSUME IInv, TakeReidentify
    PROVE  IInv'
<1> PICK who : who = Head(commands).who
  OBVIOUS
<1> PICK subs : subs = Head(commands).subs
  OBVIOUS
<1> DEFINE r == Reidentify(session, subs, TRUE)
           frame == [op |-> OpReidentify, subs |-> subs]
           outcome == Done(TRUE, "ok", {who})
<1>1. /\ pc = "serve" /\ pc' = "flush" /\ commands # <<>> /\ commands' = Tail(commands)
      /\ wanted' = subs /\ session' = r.session
      /\ reply' = Settle(reply, {who}, IF r.error = "none" THEN outcome ELSE Failure("Protocol"))
      /\ UNCHANGED <<ready, conn, attempt, lastError, waiters, stage, asked, dropped, obs, toClient>>
  BY DEF TakeReidentify, runVars, netVars
<1>2. Taken(who)
  BY <1>1, TakenFromChannel
<1>3. subs \in Subscriptions
  <2>1. Head(commands) \in CommandRecords
    BY <1>1, HeadTailProperties DEF IInv, Types, TypeOK
  <2>2. Head(commands).kind = "reidentify"
    BY DEF TakeReidentify
  <2> QED
    BY <2>1, <2>2 DEF CommandRecords
<1>4. /\ WellFormed(session) /\ session.phase = "Identified" /\ session.outgoing = <<>>
      /\ session.events = <<>>
  BY <1>1 DEF IInv, Types, TypeOK, Control, ServesIdentified
<1>5. r.error = "none" /\ Reidentified(session, session', subs)
  <2>1. WellFormed(session) /\ session.phase = "Identified"
    BY <1>4
  <2>2. r.error = "none" /\ Reidentified(session, r.session, subs)
    BY <1>3, <2>1, ReidentifyEffect
  <2> QED
    BY <1>1, <2>2
<1>6. /\ WellFormed(session') /\ session'.subs = subs
      /\ session'.nextId = session.nextId /\ session'.pending = session.pending
      /\ session'.outgoing = Append(session.outgoing, frame)
      /\ session'.events = <<>> /\ session'.phase = "Identified"
  BY <1>4, <1>5 DEF Reidentified
<1>7. reply' = [c \in Waits |->
            IF c = who /\ reply[c].state = "waiting" THEN outcome ELSE reply[c]]
  BY <1>1, <1>5 DEF Settle
<1> HIDE DEF r
<1>8. /\ outcome \in Oneshots /\ outcome.state = "done" /\ outcome.from = {who}
      /\ who \in Callers /\ who \in Waits
  BY <1>2 DEF Taken, Waits, Done, Oneshots, Causes, Results
<1> HIDE DEF outcome
<1>9. frame \in OutgoingFrame /\ frame.op = OpReidentify /\ frame.subs = subs
  BY <1>3 DEF OutgoingFrame
<1> HIDE DEF frame
<1>10. ToSet(session'.outgoing) = {frame}
  <2>1. session.outgoing \in Seq(OutgoingFrame) /\ ToSet(session.outgoing) = {}
    BY <1>4 DEF ToSet
  <2> QED
    BY <1>6, <1>9, <2>1, AppendElements
<1>11. Types'
  <2>1. reply' \in [Waits -> Oneshots] /\ DOMAIN reply' = Waits
    BY <1>7, <1>8 DEF IInv, Types
  <2>2. commands' \in Seq(CommandRecords)
    BY <1>2 DEF Taken
  <2> QED
    BY <1>1, <1>3, <1>6, <2>1, <2>2 DEF IInv, Types, TypeOK
<1>12. Control'
  BY <1>1, <1>6 DEF IInv, Control, ServesIdentified
<1>13. Ledger'
  <2>1. \A id, batch : Issued(session', id, batch) <=> Issued(session, id, batch)
    BY <1>6 DEF Issued, PendingIds
  <2>2. WaitersMatchPending' /\ Exclusive(session', session'.events)
    BY <1>1, <1>4, <1>6 DEF IInv, Ledger, WaitersMatchPending, Exclusive, PendingIds
  <2>3. NobodyMisrouted'
    BY <1>7, <1>8 DEF IInv, Ledger, NobodyMisrouted
  <2>4. \A f \in ToSet(session'.outgoing) :
            IsCall(f) => Issued(session', f.id, f.op = OpRequestBatch)
    BY <1>9, <1>10 DEF IsCall, OpReidentify, OpRequest, OpRequestBatch
  <2>5. \A o \in obs'.open : Issued(session', o.id, o.batch)
    BY <1>1, <2>1 DEF IInv, Ledger
  <2>6. \A m \in ToSet(toClient') :
            IsAnswer(m) => \/ m.id \in obs'.misled
                           \/ Issued(session', m.id, m.op = OpRequestBatchResponse)
    BY <1>1, <2>1, Zenon DEF IInv, Ledger
  <2>7. \A id \in DOMAIN waiters' : asked'[id] = {waiters'[id].who}
    BY <1>1 DEF IInv, Ledger
  <2> QED
    BY <2>2, <2>3, <2>4, <2>5, <2>6, <2>7 DEF Ledger
<1>14. Tracking'
  <2> SUFFICES ASSUME NEW c \in Callers
               PROVE  /\ \A i, j \in Queued(c)' : i = j
                      /\ \A i, j \in Open(c)' : i = j
                      /\ Queued(c)' = {} \/ Open(c)' = {}
                      /\ reply'[c].state = "waiting" => Queued(c)' # {} \/ Open(c)' # {}
                      /\ reply'[c].state = "idle" => Queued(c)' = {} /\ Open(c)' = {}
    BY DEF Tracking
  <2>1. /\ \A i, j \in Open(c) : i = j
        /\ Queued(c) = {} \/ Open(c) = {}
        /\ reply[c].state = "waiting" => Queued(c) # {} \/ Open(c) # {}
        /\ reply[c].state = "idle" => Queued(c) = {} /\ Open(c) = {}
    BY DEF IInv, Tracking
  <2>2. (\A i, j \in Queued(c)' : i = j) /\ Open(c)' = Open(c)
    BY <1>1, <1>2 DEF Taken, Open
  <2>3. CASE c = who
    <3>1. Queued(c)' = {} /\ Queued(c) # {} /\ Open(c) = {}
      BY <1>2, <2>1, <2>3 DEF Taken
    <3>2. reply'[c].state # "waiting"
      BY <1>7, <1>8, <2>3
    <3> QED
      BY <2>2, <3>1, <3>2
  <2>4. CASE c # who
    <3>1. (Queued(c)' = {} <=> Queued(c) = {}) /\ reply'[c] = reply[c]
      BY <1>2, <1>7, <2>4 DEF Taken, Waits
    <3> QED
      BY <2>1, <2>2, <3>1
  <2> QED
    BY <2>3, <2>4
<1>15. Filters'
  <2>1. obs.stage \in {"identified", "closed"}
    BY <1>4 DEF IInv, Filters
  <2> QED
    BY <1>1, <1>6, <1>9, <1>10, <2>1 DEF Filters, Reidentifies
<1>16. Announced'
  BY <1>1 DEF IInv, Announced
<1> QED
  BY <1>11, <1>12, <1>13, <1>14, <1>15, <1>16 DEF IInv

----------------------------------------------------------------------------
(* A frame leaves.                                                         *)

\* What a frame that has arrived at the server leaves of the server's state.
DeliveredTo(frame, after) ==
    /\ after \in ObsStates /\ after.misled = obs.misled
    /\ obs.stage \in {"identified", "closed"} => after.stage = obs.stage
    /\ after.stage \in {"identify", "identified"} =>
            \/ after.subs = wanted
            \/ after.subs = obs.subs /\ after.stage = obs.stage /\ frame.op # OpReidentify
    /\ \A r \in after.open :
            \/ r \in obs.open
            \/ IsCall(frame) /\ r.id = frame.id /\ r.batch = (frame.op = OpRequestBatch)

\* Delivering a frame does that.
LEMMA DeliverEffect ==
    ASSUME IInv, NEW frame \in ToSet(session.outgoing)
    PROVE  DeliveredTo(frame, Deliver(frame))
<1> DEFINE after == Deliver(frame)
<1>1. frame \in OutgoingFrame /\ obs \in ObsStates /\ wanted \in Subscriptions
  BY DEF IInv, Types, TypeOK, WellFormed, WellTyped, ToSet
<1>2. /\ frame.op \in {OpIdentify, OpReidentify} => frame.subs = wanted
      /\ frame.op = OpReidentify => obs.stage \in {"identified", "closed"}
  BY DEF IInv, Filters, Reidentifies
<1>3. /\ OpIdentify # OpReidentify /\ OpIdentify \notin {OpRequest, OpRequestBatch}
      /\ OpReidentify \notin {OpRequest, OpRequestBatch}
  BY DEF OpIdentify, OpReidentify, OpRequest, OpRequestBatch
<1>4. CASE frame.op = OpIdentify /\ obs.stage = "hello"
  <2>1. after = [obs EXCEPT !.stage = "identify", !.subs = wanted]
    BY <1>2, <1>4 DEF Deliver
  <2>2. /\ after \in ObsStates /\ after.subs = wanted /\ after.open = obs.open
        /\ after.misled = obs.misled
    BY <1>1, <2>1 DEF ObsStates
  <2> QED
    BY <1>4, <2>2 DEF DeliveredTo
<1>5. CASE frame.op = OpReidentify /\ obs.stage = "identified"
  <2>1. after = [obs EXCEPT !.subs = wanted, !.confirm = TRUE]
    BY <1>2, <1>3, <1>5 DEF Deliver
  <2>2. /\ after \in ObsStates /\ after.stage = obs.stage
        /\ after.subs = wanted /\ after.open = obs.open /\ after.misled = obs.misled
    BY <1>1, <2>1 DEF ObsStates
  <2> QED
    BY <2>2 DEF DeliveredTo
<1>6. CASE IsCall(frame) /\ obs.stage = "identified"
  <2> PICK batch \in BOOLEAN : batch = (frame.op = OpRequestBatch)
    BY Zenon
  <2> DEFINE call == [id |-> frame.id, batch |-> batch]
  <2>1. after = [obs EXCEPT !.open = obs.open \cup {call}]
    BY <1>3, <1>6, Zenon DEF Deliver, IsCall
  <2>2. frame.id \in Nat
    BY <1>1, <1>3, <1>6 DEF OutgoingFrame, IsCall
  <2>3. call \in OpenRequests /\ call.id = frame.id /\ call.batch = batch
    BY <2>2 DEF OpenRequests
  <2> HIDE DEF call
  <2>4. /\ after \in ObsStates /\ after.stage = obs.stage /\ after.subs = obs.subs
        /\ after.open = obs.open \cup {call} /\ after.misled = obs.misled
    BY <1>1, <2>1, <2>3 DEF ObsStates
  <2>5. frame.op # OpReidentify
    BY <1>3, <1>6 DEF IsCall
  <2>6. \A r \in after.open :
            \/ r \in obs.open
            \/ IsCall(frame) /\ r.id = frame.id /\ r.batch = (frame.op = OpRequestBatch)
    BY <1>6, <2>3, <2>4, Zenon
  <2> QED
    BY <2>4, <2>5, <2>6 DEF DeliveredTo
<1>7. CASE ~ \/ frame.op = OpIdentify /\ obs.stage = "hello"
             \/ frame.op = OpReidentify /\ obs.stage = "identified"
             \/ IsCall(frame) /\ obs.stage = "identified"
  <2>1. after = obs
    BY <1>7 DEF Deliver, IsCall
  <2>2. obs.stage \in {"identify", "identified"} => frame.op # OpReidentify
    BY <1>2, <1>7
  <2> QED
    BY <1>1, <2>1, <2>2 DEF DeliveredTo
<1> QED
  BY <1>4, <1>5, <1>6, <1>7

\* flush() takes from the queue and gives to the server.
LEMMA FlushInv ==
    ASSUME IInv, FlushFrame
    PROVE  IInv'
<1> PICK frame : frame = Head(session.outgoing)
  OBVIOUS
<1>1. /\ pc \in {"identify", "wait", "flush"} /\ session.outgoing # <<>>
      /\ session' = PollTransmit(session) /\ obs' = Deliver(frame)
      /\ UNCHANGED <<pc, ready, conn, attempt, lastError, wanted, waiters, stage, asked,
                     commands, reply, dropped, toClient>>
  BY DEF FlushFrame, runVars
<1>2. WellFormed(session) /\ session.outgoing \in Seq(OutgoingFrame)
  BY DEF IInv, Types, TypeOK, WellFormed, WellTyped
<1>3. /\ WellFormed(session') /\ session'.outgoing = Tail(session.outgoing)
      /\ session'.pending = session.pending /\ session'.nextId = session.nextId
      /\ session'.events = session.events /\ session'.phase = session.phase
      /\ session'.subs = session.subs /\ session'.negotiated = session.negotiated
  BY <1>1, <1>2, PollTransmitEffect
<1>4. ToSet(session.outgoing) = {frame} \cup ToSet(session'.outgoing)
  BY <1>1, <1>2, <1>3, TailElements
<1>5. DeliveredTo(frame, obs')
  BY <1>1, <1>4, DeliverEffect
<1>6. \A id, batch : Issued(session', id, batch) <=> Issued(session, id, batch)
  BY <1>3 DEF Issued, PendingIds
<1>7. Types'
  BY <1>1, <1>3, <1>5 DEF IInv, Types, TypeOK, DeliveredTo
<1>8. Control'
  BY <1>1, <1>3 DEF IInv, Control, ServesIdentified
<1>9. Ledger'
  <2>8. obs'.misled = obs.misled
    BY <1>5 DEF DeliveredTo
  <2>1. WaitersMatchPending' /\ Exclusive(session', session'.events) /\ NobodyMisrouted'
    BY <1>1, <1>3, <2>8
       DEF IInv, Ledger, WaitersMatchPending, NobodyMisrouted, Exclusive, PendingIds
  <2>2. \A f \in ToSet(session.outgoing) :
            IsCall(f) => Issued(session', f.id, f.op = OpRequestBatch)
    BY <1>6, Zenon DEF IInv, Ledger
  <2>3. \A f \in ToSet(session'.outgoing) :
            IsCall(f) => Issued(session', f.id, f.op = OpRequestBatch)
    BY <1>4, <2>2, Zenon
  <2>4. ASSUME NEW r \in obs'.open
        PROVE  Issued(session', r.id, r.batch)
    <3>1. CASE r \in obs.open
      BY <1>6, <3>1 DEF IInv, Ledger
    <3>2. CASE IsCall(frame) /\ r.id = frame.id /\ r.batch = (frame.op = OpRequestBatch)
      <4>1. Issued(session', frame.id, frame.op = OpRequestBatch)
        BY <1>4, <2>2, <3>2, Zenon
      <4> QED
        BY <3>2, <4>1, Zenon
    <3> QED
      BY <1>5, <3>1, <3>2, Zenon DEF DeliveredTo
  <2>5. \A m \in ToSet(toClient') :
            IsAnswer(m) => \/ m.id \in obs'.misled
                           \/ Issued(session', m.id, m.op = OpRequestBatchResponse)
    BY <1>1, <1>6, <2>8, Zenon DEF IInv, Ledger
  <2>6. \A id \in DOMAIN waiters' : asked'[id] = {waiters'[id].who}
    BY <1>1 DEF IInv, Ledger
  <2> QED
    BY <2>1, <2>3, <2>4, <2>5, <2>6 DEF Ledger
<1>10. Tracking'
  BY <1>1 DEF IInv, Tracking, Queued, Open
<1>11. Filters'
  <2>1. /\ session.subs = wanted
        /\ \A f \in ToSet(session.outgoing) :
                f.op \in {OpIdentify, OpReidentify} => f.subs = wanted
        /\ obs.stage \in {"identify", "identified"} => obs.subs = wanted \/ Reidentifies
        /\ \/ Reidentifies
           \/ \E m \in ToSet(toClient) : m.op = OpIdentified
           \/ session.phase = "Identified"
           => obs.stage \in {"identified", "closed"}
    BY DEF IInv, Filters
  <2>2. Reidentifies' => Reidentifies
    BY <1>4 DEF Reidentifies
  <2>3. frame.op # OpReidentify => (Reidentifies' <=> Reidentifies)
    BY <1>4 DEF Reidentifies
  <2>4. obs'.stage \in {"identify", "identified"} => obs'.subs = wanted \/ Reidentifies'
    BY <1>5, <2>1, <2>3 DEF DeliveredTo
  <2>5. \/ Reidentifies'
        \/ \E m \in ToSet(toClient') : m.op = OpIdentified
        \/ session'.phase = "Identified"
        => obs'.stage \in {"identified", "closed"}
    BY <1>1, <1>3, <1>5, <2>1, <2>2 DEF DeliveredTo
  <2> QED
    BY <1>1, <1>3, <1>4, <2>1, <2>4, <2>5 DEF Filters
<1>12. Announced'
  BY <1>1 DEF IInv, Announced
<1> QED
  BY <1>7, <1>8, <1>9, <1>10, <1>11, <1>12 DEF IInv

----------------------------------------------------------------------------
(* The theorems.                                                           *)

\* Every step preserves the invariant.
LEMMA StepInv ==
    ASSUME IInv, [Next]_vars
    PROVE  IInv'
<1>1. Step
  BY EveryStep
<1>2. CASE EndStep
  BY <1>2, EndInv
<1>3. CASE \E s : CompletionStep(s)
  BY <1>3, CompletionInv
<1>4. CASE \E s : GreetingStep(s)
  BY <1>4, GreetingInv
<1>5. CASE \E n : OwnCallStep(n)
  BY <1>5, OwnCallInv
<1>6. CASE AnnounceStep
  BY <1>6, AnnounceInv
<1>7. CASE \E s : SelectStep(s)
  BY <1>7, SelectInv
<1>8. CASE ConnectOk \/ WakeUp
  BY <1>8, OpeningInv
<1>9. CASE FlushFrame
  BY <1>9, FlushInv
<1>10. CASE TakeCall
  BY <1>10, TakeCallInv
<1>11. CASE TakeReidentify
  BY <1>11, TakeReidentifyInv
<1>12. CASE \E c : \E command : CommandStep(c, command)
  BY <1>12, CommandInv
<1>13. CASE (\E c \in Callers : Cancel(c)) \/ DropClients
  BY <1>13, ApplicationInv
<1>14. CASE \E frame, after : ServerStep(frame, after)
  BY <1>14, ServerInv
<1>15. CASE UNCHANGED vars
  BY <1>15, StutterInv
<1> QED
  BY <1>1, <1>2, <1>3, <1>4, <1>5, <1>6, <1>7, <1>8, <1>9, <1>10, <1>11, <1>12, <1>13,
     <1>14, <1>15 DEF Step

\* The inductive invariant of the driver, its clients and its server.
THEOREM DriverHolds == Spec => []IInv
<1>1. Init => IInv
  BY InitInv
<1>2. IInv /\ [Next]_vars => IInv'
  BY StepInv
<1> QED
  BY <1>1, <1>2, PTL DEF Spec

\* The driver's variables keep their types and its session stays well formed,
\* whatever frames arrive and however connections end (run, serve).
THEOREM DriverTyped == Spec => []TypeOK
<1>1. IInv => TypeOK
  BY DEF IInv, Types
<1> QED
  BY <1>1, DriverHolds, PTL

\* The pump's map has an entry for every call the session still owes an end, and
\* for no other but those OBS answered as of the other kind (enqueue_call,
\* complete_call, fail_pending; on_response, on_batch_response).
THEOREM DriverMapsAgree == Spec => []WaitersMatchPending
<1>1. IInv => WaitersMatchPending
  BY DEF IInv, Ledger
<1> QED
  BY <1>1, DriverHolds, PTL

\* Nobody is handed the answer to somebody else's request, although each
\* connection numbers its requests from 1 and late answers come (complete_call).
THEOREM AnswersFindTheirCaller == Spec => []NobodyMisrouted
<1>1. IInv => NobodyMisrouted
  BY DEF IInv, Ledger
<1> QED
  BY <1>1, DriverHolds, PTL

\* Connected is published exactly while commands are served, and they are
\* served on an Identified session only (serve, command_loop).
THEOREM DriverServesIdentified == Spec => []ServesIdentified
<1>1. IInv => ServesIdentified
  BY DEF IInv, Control
<1> QED
  BY <1>1, DriverHolds, PTL

\* A caller who waits has one command or one call that can end its wait, and
\* nobody waits for a driver that has stopped (run, apply, fail_pending).
THEOREM NoCallerIsLost == Spec => []CallersTracked
<1>1. IInv => CallersTracked
  <2> SUFFICES ASSUME IInv, NEW c \in Callers, reply[c].state = "waiting"
               PROVE  /\ pc # "stopped"
                      /\ Cardinality(Queued(c)) + Cardinality(Open(c)) = 1
    BY DEF CallersTracked, Queued, Open
  <2>1. /\ \A i, j \in Queued(c) : i = j
        /\ \A i, j \in Open(c) : i = j
        /\ Queued(c) = {} \/ Open(c) = {}
        /\ Queued(c) # {} \/ Open(c) # {}
    BY DEF IInv, Tracking
  <2>2. ASSUME pc = "stopped" PROVE FALSE
    <3>1. commands = <<>> /\ waiters = <<>>
      BY <2>2 DEF IInv, Control, Offline
    <3> QED
      BY <2>1, <3>1 DEF Queued, Open
  <2>3. \A S : (S # {} /\ \A i, j \in S : i = j) => Cardinality(S) = 1
    <3> SUFFICES ASSUME NEW S, S # {}, \A i, j \in S : i = j
                 PROVE  Cardinality(S) = 1
      OBVIOUS
    <3>1. PICK i \in S : S = {i}
      OBVIOUS
    <3> QED
      BY <3>1, FS_Singleton
  <2>4. Cardinality({}) = 0
    BY FS_EmptySet
  <2>5. PICK p, q : p = Queued(c) /\ q = Open(c)
    OBVIOUS
  <2>6. \/ Cardinality(p) = 1 /\ Cardinality(q) = 0
        \/ Cardinality(p) = 0 /\ Cardinality(q) = 1
    BY <2>1, <2>3, <2>4, <2>5
  <2> QED
    BY <2>2, <2>5, <2>6
<1> QED
  BY <1>1, DriverHolds, PTL

\* Whenever the driver is back at its select!, the OBS it talks to filters
\* events as the application last asked, over reconnects too (apply, serve).
THEOREM DriverKeepsSubscriptions == Spec => []SubscriptionsKept
<1>1. IInv => SubscriptionsKept
  <2> SUFFICES ASSUME IInv, pc = "serve", obs.stage = "identified"
               PROVE  obs.subs = wanted
    BY DEF SubscriptionsKept
  <2>1. session.outgoing = <<>>
    BY DEF IInv, Control
  <2>2. ~Reidentifies
    BY <2>1 DEF Reidentifies, ToSet
  <2> QED
    BY <2>2 DEF IInv, Filters
<1> QED
  BY <1>1, DriverHolds, PTL

\* A refused password is never tried again: whatever the policy says, run()
\* returns (connection_failed, run).
THEOREM RefusalIsFinal == Spec => []NeverRetriesRefused
<1>1. Init => NeverRetriesRefused
  BY DEF Init, NeverRetriesRefused, ErrorOf
<1>2. IInv /\ NeverRetriesRefused /\ [Next]_vars => NeverRetriesRefused'
  <2> SUFFICES ASSUME IInv, NeverRetriesRefused, [Next]_vars
               PROVE  NeverRetriesRefused'
    OBVIOUS
  <2>1. Step
    BY EveryStep
  <2>2. CASE EndStep
    <3>1. PICK error \in Errors : \E replies : Disconnected(error, replies)
      BY <2>2 DEF EndStep
    <3>2. PICK replies : Disconnected(error, replies)
      BY <3>1
    <3>3. lastError' = error
      BY <3>2 DEF Disconnected
    <3>4. error.cause = "AuthFailed" => pc' = "stopped"
      BY <3>2 DEF Disconnected, Retries, Counts, Stop
    <3> QED
      BY <3>3, <3>4 DEF NeverRetriesRefused
  <2>3. CASE ~EndStep
    <3>1. lastError' = lastError /\ (pc' = pc \/ pc # "stopped")
      BY <2>1, <2>3 DEF Step, CompletionStep, GreetingStep, OwnCallStep, AnnounceStep, SelectStep,
                        ConnectOk, WakeUp, FlushFrame, TakeCall, TakeReidentify, CommandStep, Call,
                        Cancel, DropClients, ServerStep, Emit, runVars, vars
    <3> QED
      BY <3>1 DEF NeverRetriesRefused
  <2> QED
    BY <2>2, <2>3
<1> QED
  BY <1>1, <1>2, DriverHolds, PTL DEF Spec

\* connect() returns once, with the outcome of the first attempt; then the
\* published state alternates between Connected and numbered retries within
\* the policy until it is Closed for good (run, serve).
THEOREM DriverImplementsLifecycle == Spec => ImplementsLifecycle
<1>1. Init => Life!Init
  BY DEF Init, Life!Init
<1>2. IInv /\ [Next]_vars => [Life!Next]_<<ready, conn.state, conn.attempt, attempt>>
  <2> SUFFICES ASSUME IInv, [Next]_vars
               PROVE  \/ Life!Next
                      \/ UNCHANGED <<ready, conn.state, conn.attempt, attempt>>
    OBVIOUS
  <2>1. Step
    BY EveryStep
  <2>2. /\ ready = "pending" <=> conn.state = "Connecting"
        /\ ready = "pending" => conn.attempt = 0
        /\ pc \in {"connect", "identify", "wait"} => conn.state \in {"Connecting", "Reconnecting"}
        /\ pc \in {"serve", "flush"} => conn.state = "Connected"
    BY DEF IInv, Announced, Control, ServesIdentified
  <2>3. CASE EndStep
    <3>1. PICK error \in Errors : \E replies : Disconnected(error, replies)
      BY <2>3 DEF EndStep
    <3>2. PICK replies : Disconnected(error, replies)
      BY <3>1
    <3>3. conn.state \in {"Connecting", "Reconnecting", "Connected"}
      BY <2>2, <2>3 DEF EndStep, IInv, Types, TypeOK
    <3>4. attempt \in Nat /\ NextAttempt \in Nat
      BY DEF IInv, Types, TypeOK, NextAttempt
    <3>5. /\ attempt' = IF Counts(error) THEN NextAttempt ELSE attempt
          /\ ready' = IF ready = "pending" THEN "failed" ELSE ready
          /\ Retries(error) =>
                conn' = [state |-> "Reconnecting", attempt |-> NextAttempt, code |-> 0]
          /\ ~Retries(error) =>
                conn' = [state |-> "Closed", attempt |-> 0, code |-> FinalCode(error)]
      BY <3>2 DEF Disconnected, Pause, Stop
    <3>6. CASE Retries(error)
      <4>1. Life!Retry
        BY <2>2, <3>3, <3>5, <3>6 DEF Retries, Counts, Life!Retry, NextAttempt
      <4> QED
        BY <4>1 DEF Life!Next
    <3>7. CASE ~Retries(error) /\ ready = "pending"
      <4>1. Life!FailToConnect
        BY <2>2, <3>5, <3>7 DEF Counts, Life!FailToConnect
      <4> QED
        BY <4>1 DEF Life!Next
    <3>8. CASE ~Retries(error) /\ ready # "pending"
      <4>1. Life!GiveUp
        BY <2>2, <3>3, <3>5, <3>8 DEF Life!GiveUp, NextAttempt
      <4> QED
        BY <4>1 DEF Life!Next
    <3> QED
      BY <3>6, <3>7, <3>8
  <2>4. CASE AnnounceStep
    <3>1. Life!Establish
      BY <2>2, <2>4 DEF AnnounceStep, Life!Establish
    <3> QED
      BY <3>1 DEF Life!Next
  <2>5. CASE ~EndStep /\ ~AnnounceStep
    <3>1. UNCHANGED <<ready, conn, attempt>>
      BY <2>1, <2>5 DEF Step, CompletionStep, GreetingStep, OwnCallStep, SelectStep,
                        ConnectOk, WakeUp, FlushFrame, TakeCall, TakeReidentify, CommandStep, Call,
                        Cancel, DropClients, ServerStep, Emit, runVars, vars
    <3> QED
      BY <3>1
  <2> QED
    BY <2>3, <2>4, <2>5
<1> QED
  BY <1>1, <1>2, DriverHolds, PTL DEF Spec, ImplementsLifecycle, Life!Spec, Life!lifecycle

=============================================================================
