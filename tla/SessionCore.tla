---------------------------- MODULE SessionCore ----------------------------
(***************************************************************************)
(* The sans-I/O client session of obs-websocket-core/src/session.rs as     *)
(* operators on a session record: each method is an operator from a        *)
(* session (and its arguments) to the session it leaves, so that every     *)
(* driver of the session can share them.                                   *)
(*                                                                         *)
(* Payloads are abstracted to what a session decides on.  A request id     *)
(* string is the number it prints; a server may also name ids that were    *)
(* never allocated.  BTreeMap's string order in bulk failures is replaced  *)
(* by an arbitrary fixed order: nothing below tells the two apart.         *)
(***************************************************************************)
EXTENDS Integers, Sequences, FiniteSets, Functions, SequencesExt

CONSTANTS
    NoDeadline,     \* the None of deadline_ms: Option<u64>
    Subscriptions   \* the values event_subscriptions is set to

ASSUME NoDeadlineAssumption == NoDeadline \notin Nat

----------------------------------------------------------------------------
(* Wire opcodes (protocol.rs, mod op).                                     *)

OpHello == 0
OpIdentify == 1
OpIdentified == 2
OpReidentify == 3
OpEvent == 5
OpRequest == 6
OpRequestResponse == 7
OpRequestBatch == 8
OpRequestBatchResponse == 9

Phases == {"AwaitingHello", "Identifying", "Identified", "Closed"}

\* A frame written by the client.
OutgoingFrame ==
    [op : {OpIdentify}, rpc : Nat, auth : BOOLEAN, subs : Subscriptions]
        \cup [op : {OpReidentify}, subs : Subscriptions]
        \cup [op : {OpRequest, OpRequestBatch}, id : Nat]

IsCall(frame) == frame.op \in {OpRequest, OpRequestBatch}

\* How a call ended: OBS answered it, or RequestFailure::{Timeout, Closed}.
Results == {"ok", "status", "timeout", "closed"}

SessionEvent ==
    [type : {"Identified"}, rpc : Nat]
        \cup [type : {"Event"}, id : Nat]
        \cup [type : {"Response", "BatchResponse"}, id : Nat, result : Results]
        \cup [type : {"Unmatched"}, id : Nat]
        \cup [type : {"Closed"}, code : Nat]

\* The events that end a call.
IsCompletion(event) == event.type \in {"Response", "BatchResponse"}

PendingEntry == [deadline : Nat \cup {NoDeadline}, batch : BOOLEAN]

\* A frame from the server.  "decodes" is FALSE when the body does not
\* deserialize to the type its opcode calls for; op -1 is a frame whose
\* envelope does not decode; "id" is the request id of an answer and tells
\* events apart.
IsIncoming(m) ==
    /\ m.op \in Int /\ m.decodes \in BOOLEAN
    /\ m.auth \in BOOLEAN /\ m.rpc \in Nat
    /\ m.id \in Nat /\ m.ok \in BOOLEAN

----------------------------------------------------------------------------

NewSession(password, subs, rpcVersion) ==
    [password |-> password, subs |-> subs, rpcVersion |-> rpcVersion,
     phase |-> "AwaitingHello", negotiated |-> 0, nextId |-> 1,
     outgoing |-> <<>>, events |-> <<>>, pending |-> [id \in {} |-> id]]

\* What a fallible method returns beside the session it leaves.
Ok(s) == [session |-> s, error |-> "none"]
Fail(s, error) == [session |-> s, error |-> error]

PushEvent(s, event) == [s EXCEPT !.events = Append(@, event)]

\* queue(): the codec either encodes the frame, or nothing is queued.
Queue(s, frame) == [s EXCEPT !.outgoing = Append(@, frame)]

\* Seeded fault: every call gets the same id.
AllocIdStuck(s) == s

\* The number of the id that alloc_id hands out is s.nextId.
AllocId(s) == [s EXCEPT !.nextId = @ + 1]

PendingIds(s) == DOMAIN s.pending

InsertPending(s, id, deadline, batch) ==
    [s EXCEPT !.pending =
        [k \in DOMAIN @ \cup {id} |->
            IF k = id THEN [deadline |-> deadline, batch |-> batch]
                      ELSE s.pending[k]]]

RemovePending(s, ids) ==
    [s EXCEPT !.pending = [k \in DOMAIN @ \ ids |-> s.pending[k]]]

EnsureIdentified(s) ==
    CASE s.phase = "Identified" -> "none"
      [] s.phase = "Closed" -> "Closed"
      [] OTHER -> "NotIdentified"

\* The event that settles call id: push_failure() and the two answers.
Completion(id, batch, result) ==
    [type |-> IF batch THEN "BatchResponse" ELSE "Response",
     id |-> id, result |-> result]

Failures(s, ids, failure) ==
    [i \in 1 .. Cardinality(ids) |->
        LET id == SetToSeq(ids)[i]
        IN  Completion(id, s.pending[id].batch, failure)]

PushFailures(s, ids, failure) ==
    [s EXCEPT !.events = @ \o Failures(s, ids, failure)]

\* Seeded fault: the map is taken but nobody is told.
FailPendingSilently(s, failure) == RemovePending(s, PendingIds(s))

FailPending(s, failure) ==
    RemovePending(PushFailures(s, PendingIds(s), failure), PendingIds(s))

\* What the fields of a session hold at any moment, every pending id having
\* been allocated ...
WellTyped(s) ==
    /\ s \in [password : BOOLEAN, subs : Subscriptions, rpcVersion : Nat,
              phase : Phases, negotiated : Nat, nextId : Nat \ {0},
              outgoing : Seq(OutgoingFrame), events : Seq(SessionEvent),
              pending : [PendingIds(s) -> PendingEntry]]
    /\ PendingIds(s) \subseteq 1 .. s.nextId - 1

\* ... and between two calls of its methods: only an Identified session has
\* calls pending.
WellFormed(s) ==
    /\ WellTyped(s)
    /\ PendingIds(s) # {} => s.phase = "Identified"

----------------------------------------------------------------------------
(* Requests of the application.                                            *)

\* Seeded fault: the entry is made before the frame is known to encode.
EnqueueBeforeEncoding(s, deadline, batch, encodes) ==
    IF s.phase # "Identified"
    THEN Fail(s, EnsureIdentified(s))
    ELSE LET id == s.nextId
             op == IF batch THEN OpRequestBatch ELSE OpRequest
             kept == InsertPending(AllocId(s), id, deadline, batch)
         IN  IF encodes THEN Ok(Queue(kept, [op |-> op, id |-> id]))
                        ELSE Fail(kept, "Decode")

\* send_request, send_raw (batch = FALSE) and send_batch (batch = TRUE).  A
\* frame that does not encode costs its id and nothing else.
Enqueue(s, deadline, batch, encodes) ==
    LET id == s.nextId
        op == IF batch THEN OpRequestBatch ELSE OpRequest
    IN  IF s.phase # "Identified"
        THEN Fail(s, EnsureIdentified(s))
        ELSE IF ~encodes
        THEN Fail(AllocId(s), "Decode")
        ELSE Ok(InsertPending(Queue(AllocId(s), [op |-> op, id |-> id]),
                              id, deadline, batch))

Reidentify(s, subs, encodes) ==
    LET updated == [s EXCEPT !.subs = subs]
    IN  IF s.phase # "Identified"
        THEN Fail(s, EnsureIdentified(s))
        ELSE IF ~encodes
        THEN Fail(updated, "Decode")
        ELSE Ok(Queue(updated, [op |-> OpReidentify, subs |-> subs]))

PollTransmit(s) == [s EXCEPT !.outgoing = Tail(@)]

PollEvent(s) == [s EXCEPT !.events = Tail(@)]

----------------------------------------------------------------------------
(* The clock and the socket.                                               *)

\* Seeded fault: calls expire a moment early.
ExpiredEarly(s, now) ==
    {id \in PendingIds(s) : /\ s.pending[id].deadline # NoDeadline
                            /\ s.pending[id].deadline <= now + 1}

Expired(s, now) ==
    {id \in PendingIds(s) : /\ s.pending[id].deadline # NoDeadline
                            /\ s.pending[id].deadline <= now}

\* Seeded fault: only one overdue call is failed at a time.
HandleTimeoutOne(s, now) ==
    LET one == IF Expired(s, now) = {} THEN {} ELSE {CHOOSE id \in Expired(s, now) : TRUE}
    IN  RemovePending(PushFailures(s, one, "timeout"), one)

\* Seeded fault: the overdue calls are failed but stay in the map.
HandleTimeoutKeepsMap(s, now) == PushFailures(s, Expired(s, now), "timeout")

\* Seeded fault: the overdue calls are dropped without an event.
HandleTimeoutSilently(s, now) == RemovePending(s, Expired(s, now))

HandleTimeout(s, now) ==
    RemovePending(PushFailures(s, Expired(s, now), "timeout"), Expired(s, now))

\* Seeded fault: the phase is left as it was.
HandleCloseKeepsPhase(s, code) ==
    FailPending(PushEvent(s, [type |-> "Closed", code |-> code]), "closed")

\* Seeded fault: pending calls fail, and nobody is told why.
HandleCloseUnreported(s, code) == FailPending([s EXCEPT !.phase = "Closed"], "closed")

HandleClose(s, code) ==
    FailPending(PushEvent([s EXCEPT !.phase = "Closed"],
                          [type |-> "Closed", code |-> code]),
                "closed")

----------------------------------------------------------------------------
(* Frames of the server.                                                   *)

AuthenticationFailed == 4009

AgreedRpc(s, m) ==
    IF m.rpc = 0 \/ s.rpcVersion < m.rpc THEN s.rpcVersion ELSE m.rpc

\* Seeded fault: the phase stays AwaitingHello.
OnHelloKeepsPhase(s, m, encodes) ==
    Ok(Queue(s, [op |-> OpIdentify, rpc |-> AgreedRpc(s, m),
                 auth |-> m.auth, subs |-> s.subs]))

OnHello(s, m, encodes) ==
    CASE ~m.decodes -> Fail(s, "Decode")
      [] m.decodes /\ m.auth /\ ~s.password ->
            Fail(PushEvent([s EXCEPT !.phase = "Closed"],
                           [type |-> "Closed", code |-> AuthenticationFailed]),
                 "AuthRequired")
      [] m.decodes /\ (m.auth => s.password) /\ ~encodes -> Fail(s, "Decode")
      [] OTHER ->
            Ok([Queue(s, [op |-> OpIdentify, rpc |-> AgreedRpc(s, m),
                          auth |-> m.auth, subs |-> s.subs])
                EXCEPT !.phase = "Identifying"])

OnIdentified(s, m) ==
    IF ~m.decodes
    THEN Fail(s, "Decode")
    ELSE Ok(PushEvent([s EXCEPT !.phase = "Identified", !.negotiated = m.rpc],
                      [type |-> "Identified", rpc |-> m.rpc]))

\* A payload Event::from_parts rejects still surfaces, as Event::Unknown.
OnEvent(s, m) ==
    IF ~m.decodes THEN Fail(s, "Decode") ELSE Ok(PushEvent(s, [type |-> "Event", id |-> m.id]))

\* on_response (batch = FALSE) and on_batch_response (batch = TRUE).  The
\* entry goes even when the other kind of answer was due.  The result of a
\* batch stands for those of its items: "ok" when none of them failed.
OnAnswer(s, m, batch) ==
    IF ~m.decodes
    THEN Fail(s, "Decode")
    ELSE IF m.id \in PendingIds(s) /\ s.pending[m.id].batch = batch
    THEN Ok(PushEvent(RemovePending(s, {m.id}),
                      Completion(m.id, batch, IF m.ok THEN "ok" ELSE "status")))
    ELSE Ok(PushEvent(RemovePending(s, {m.id}), [type |-> "Unmatched", id |-> m.id]))

\* Seeded fault: events are let through before identification ends.
HandleMessageEarlyEvents(s, m, encodes) ==
    CASE m.op = OpEvent /\ s.phase # "Closed" -> OnEvent(s, m)
      [] m.op = OpHello /\ s.phase = "AwaitingHello" -> OnHello(s, m, encodes)
      [] m.op = OpIdentified /\ s.phase = "Identifying" -> OnIdentified(s, m)
      [] OTHER -> Fail(s, "Unexpected")

HandleMessage(s, m, encodes) ==
    CASE s.phase = "Closed" -> Fail(s, "Closed")
      [] s.phase # "Closed" /\ m.op = -1 -> Fail(s, "Decode")
      [] s.phase = "AwaitingHello" /\ m.op = OpHello -> OnHello(s, m, encodes)
      [] s.phase = "Identifying" /\ m.op = OpIdentified -> OnIdentified(s, m)
      [] s.phase = "Identified" /\ m.op = OpEvent -> OnEvent(s, m)
      [] s.phase = "Identified" /\ m.op = OpRequestResponse -> OnAnswer(s, m, FALSE)
      [] s.phase = "Identified" /\ m.op = OpRequestBatchResponse -> OnAnswer(s, m, TRUE)
      [] OTHER -> Fail(s, "Unexpected")

=============================================================================
