----------------------------- MODULE Callbacks -----------------------------
(***************************************************************************)
(* How an application hears from the driver: callbacks that threads        *)
(* register and unregister at any time (obs-websocket/src/callback.rs and  *)
(* Client::on, on_any, on_connection_state), and streams of events         *)
(* (Client::events).  The driver task reports one thing after the other,   *)
(* an event with emit_event() or a connection state with publish(): it     *)
(* writes it where it can be looked up, copies the callbacks under the     *)
(* registry's lock, runs the copies one by one with the lock released,     *)
(* and sends an event to the streams.                                      *)
(***************************************************************************)
EXTENDS Integers, Sequences, FiniteSets, Functions, SequencesExt, Subsequences

CONSTANTS
    EventCallbacks, \* the callbacks registered by on() and on_any()
    StateCallbacks, \* the callbacks registered by on_connection_state()
    Streams,        \* the streams events() returns
    Payloads,       \* the payload type of each report that is an event
    Wants,          \* event callback -> the payload types it is called with
    Capacity,       \* events the broadcast channel retains
    MaxReports      \* bound on what the driver reports

Callers == EventCallbacks \cup StateCallbacks

ASSUME CallbacksAssumption ==
    /\ EventCallbacks \cap StateCallbacks = {}
    /\ Payloads \in Seq(Range(Payloads))
    /\ Wants \in [EventCallbacks -> SUBSET Range(Payloads)]
    /\ Len(Payloads) >= MaxReports
    /\ Capacity \in Nat \ {0} /\ MaxReports \in Nat

VARIABLES
    registry,   \* Registry: next_id, and the registrations of both kinds
    handle,     \* callback -> its Subscription
    log,        \* everything the driver has reported, the one under way last
    at,         \* what the driver does: "idle", "copy", "run"
    left,       \* the copied callbacks that have not run yet
    visible,    \* report last written to ObsState, and to the connection state
    channel,    \* the broadcast channel: positions in log of the events sent
    stream,     \* stream -> its state, the events sent before its next one, and
                \* (history) those sent before it began
    ended,      \* the driver has ended and every client is dropped
    ran,        \* callback -> the reports it was called with
    heard       \* stream -> the reports it yielded

app == <<registry, handle>>
driver == <<log, at, left, visible>>
reader == <<stream, heard>>
vars == <<app, driver, channel, reader, ended, ran>>

\* status is "none", "held" or "dropped".  "from" is the number of reports whose
\* callbacks had been copied when the callback was registered, "upto" when it
\* was unregistered; both are history.
NoSubscription == [status |-> "none", id |-> 0, from |-> 0, upto |-> 0]

Init ==
    /\ registry = [nextId |-> 1, events |-> <<>>, states |-> <<>>]
    /\ handle = [c \in Callers |-> NoSubscription]
    /\ log = <<>>
    /\ at = "idle"
    /\ left = <<>>
    /\ visible = [event |-> 0, state |-> 0]
    /\ channel = <<>>
    /\ stream = [s \in Streams |-> [status |-> "none", next |-> 0, from |-> 0]]
    /\ ended = FALSE
    /\ ran = [c \in Callers |-> <<>>]
    /\ heard = [s \in Streams |-> <<>>]

\* Reports whose callbacks have been copied.
Copied == IF at = "copy" THEN Len(log) - 1 ELSE Len(log)

----------------------------------------------------------------------------
(* Threads of the application.                                             *)

\* Seeded fault: each kind numbers its own registrations.
AllocIdPerKind(r, c) == IF c \in EventCallbacks THEN Len(r.events) + 1 ELSE Len(r.states) + 1

\* alloc_id(): events and states share one counter.
AllocCallbackId(r, c) == r.nextId

\* Seeded fault: the newest registration comes first.
PushFirst(r, c) ==
    LET entry == [id |-> AllocCallbackId(r, c), callback |-> c]
    IN  IF c \in EventCallbacks
        THEN [r EXCEPT !.nextId = @ + 1, !.events = <<entry>> \o @]
        ELSE [r EXCEPT !.nextId = @ + 1, !.states = <<entry>> \o @]

\* push_event(), push_state().
Push(r, c) ==
    LET entry == [id |-> AllocCallbackId(r, c), callback |-> c]
    IN  IF c \in EventCallbacks
        THEN [r EXCEPT !.nextId = @ + 1, !.events = Append(@, entry)]
        ELSE [r EXCEPT !.nextId = @ + 1, !.states = Append(@, entry)]

\* remove(): the id is looked for among both kinds.
Unlist(r, id) ==
    LET Others(s) == Subsequence(s, {i \in DOMAIN s : s[i].id # id})
    IN  [r EXCEPT !.events = Others(@), !.states = Others(@)]

\* on(), on_any(), on_connection_state().
Register(c) ==
    /\ ~ended
    /\ handle[c].status = "none"
    /\ registry' = Push(registry, c)
    /\ handle' = [handle EXCEPT ![c] =
                    [status |-> "held", id |-> AllocCallbackId(registry, c), from |-> Copied, upto |-> 0]]
    /\ UNCHANGED <<driver, channel, reader, ended, ran>>

\* Subscription::drop(), on any thread, in a callback too; without the
\* registry there is nothing to remove from.
Unregister(c) ==
    /\ handle[c].status = "held"
    /\ registry' = IF ended THEN registry ELSE Unlist(registry, handle[c].id)
    /\ handle' = [handle EXCEPT ![c].status = "dropped", ![c].upto = Copied]
    /\ UNCHANGED <<driver, channel, reader, ended, ran>>

\* events(): the stream starts with the next event sent.
Subscribe(s) ==
    /\ ~ended
    /\ stream[s].status = "none"
    /\ stream' = [stream EXCEPT ![s] =
                    [status |-> "open", next |-> Len(channel), from |-> Len(channel)]]
    /\ UNCHANGED <<app, driver, channel, ended, ran, heard>>

\* The receiver has been overtaken: what it would yield has left the channel.
Lagged(s) == stream[s].next < Len(channel) - Capacity

\* Seeded fault: a receiver that has been overtaken ends its stream.
LagEnds(s) ==
    /\ stream' = [stream EXCEPT ![s].status = "over"]
    /\ UNCHANGED heard

\* Lagged(_) => continue: the receiver goes on with the oldest event retained.
Lag(s) ==
    /\ stream' = [stream EXCEPT ![s].next = Len(channel) - Capacity]
    /\ UNCHANGED heard

\* One turn of the loop in events().
Read(s) ==
    /\ stream[s].status = "open"
    /\ \/ /\ Lagged(s)
          /\ Lag(s)
       \/ /\ ~Lagged(s)
          /\ stream[s].next < Len(channel)
          /\ stream' = [stream EXCEPT ![s].next = @ + 1]
          /\ heard' = [heard EXCEPT ![s] = Append(@, channel[stream[s].next + 1])]
       \/ /\ stream[s].next = Len(channel)
          /\ ended
          /\ stream' = [stream EXCEPT ![s].status = "over"]
          /\ UNCHANGED heard
    /\ UNCHANGED <<app, driver, channel, ended, ran>>

----------------------------------------------------------------------------
(* The driver task.                                                        *)

\* Seeded fault: what is reported is not written before the callbacks run.
WriteNothing(report) == visible

\* apply() under the lock of obs_state, or the connection state under its own.
Write(report) == [visible EXCEPT ![report.kind] = Len(log) + 1]

Report(report) ==
    /\ ~ended
    /\ at = "idle"
    /\ Len(log) < MaxReports
    /\ log' = Append(log, report)
    /\ visible' = Write(report)
    /\ at' = "copy"
    /\ UNCHANGED <<app, left, channel, reader, ended, ran>>

EmitEvent == Report([kind |-> "event", payload |-> Payloads[Len(log) + 1]])

Publish == Report([kind |-> "state"])

\* event_callbacks(), state_callbacks().
Copy ==
    LET entries == IF Last(log).kind = "event" THEN registry.events ELSE registry.states
    IN  /\ at = "copy"
        /\ at' = "run"
        /\ left' = [i \in DOMAIN entries |-> entries[i].callback]
        /\ UNCHANGED <<app, log, visible, channel, reader, ended, ran>>

\* Whether a callback is interested: on() unwraps the payload it is for.
Takes(c, report) ==
    IF report.kind = "event"
    THEN c \in EventCallbacks /\ report.payload \in Wants[c]
    ELSE c \in StateCallbacks

RunCallback ==
    LET c == Head(left)
    IN  /\ at = "run"
        /\ left # <<>>
        /\ left' = Tail(left)
        /\ ran' = IF Takes(c, Last(log)) THEN [ran EXCEPT ![c] = Append(@, Len(log))] ELSE ran
        /\ UNCHANGED <<app, log, at, visible, channel, reader, ended>>

\* After its callbacks an event goes to the streams; a state does not.
Finish ==
    /\ at = "run"
    /\ left = <<>>
    /\ at' = "idle"
    /\ channel' = IF Last(log).kind = "event" THEN Append(channel, Len(log)) ELSE channel
    /\ UNCHANGED <<app, log, left, visible, reader, ended, ran>>

\* run() returns and the last Client goes: the registry and the channel's only
\* sender are dropped with Inner.
End ==
    /\ ~ended
    /\ at = "idle"
    /\ ended' = TRUE
    /\ UNCHANGED <<app, driver, channel, reader, ran>>

Next ==
    \/ \E c \in Callers : Register(c) \/ Unregister(c)
    \/ \E s \in Streams : Subscribe(s) \/ Read(s)
    \/ EmitEvent \/ Publish \/ Copy \/ RunCallback \/ Finish
    \/ End

Spec == Init /\ [][Next]_vars

----------------------------------------------------------------------------
(* Properties.                                                             *)

\* The reports a callback is to be called with: those it takes whose callbacks
\* were copied while it was registered.
Due(c) ==
    LET upto == IF handle[c].status = "dropped" THEN handle[c].upto ELSE Copied
    IN  IF handle[c].status = "none" THEN {}
        ELSE {n \in DOMAIN log : n > handle[c].from /\ n <= upto /\ Takes(c, log[n])}

Waiting(c) == Contains(left, c) /\ Takes(c, Last(log))

\* The reports it has been or is about to be called with.
Calls(c) == ran[c] \o (IF Waiting(c) THEN <<Len(log)>> ELSE <<>>)

Increasing(s) == \A i, j \in DOMAIN s : i < j => s[i] < s[j]

\* Whatever is registered and unregistered meanwhile, a callback is called
\* once, in order, with every report copied between its registration and its
\* removal; after its removal with at most the one whose copy it was in
\* (Registry, emit_event, publish).
CalledWhenDue == \A c \in Callers : Increasing(Calls(c)) /\ ToSet(Calls(c)) = Due(c)

\* Of two callbacks that are both due, the one registered first is called
\* first.
CalledInOrder ==
    \A c, d \in Callers :
        Waiting(c) /\ handle[c].id < handle[d].id => ~Contains(ran[d], Len(log))

\* Who is told something finds it when he looks: in state() or
\* connection_state() for a callback, and an event that a stream yields has
\* gone to every callback before.
NewsIsVisible ==
    /\ \A c \in Callers : \A i \in DOMAIN ran[c] : ran[c][i] <= visible[log[ran[c][i]].kind]
    /\ \A s \in Streams : \A i \in DOMAIN heard[s] :
            /\ heard[s][i] <= visible.event
            /\ ~(heard[s][i] = Len(log) /\ \E c \in Callers : Waiting(c))

\* "Lagged receivers skip missed events" (client.rs:182) and nothing more: what
\* a stream has yielded is in order and complete but for events that had left
\* the channel, and it ends only behind the last event ever sent.
StreamsSkipOnly ==
    \A s \in Streams :
        /\ Increasing(heard[s])
        /\ \A n \in 1 .. stream[s].next :
                n > Len(channel) - Capacity /\ n > stream[s].from => Contains(heard[s], channel[n])
        /\ stream[s].status = "over" => ended /\ stream[s].next = Len(channel)

=============================================================================
