# obs-websocket-rs in TLA+

A model of the client side of obs-websocket-rs: the sans-I/O session, the two
clients that run it (the tokio driver and the single-task connection), the
Embassy transport below one of them, and the state cache, callbacks and typed
interface above the other. TLC checks small instances; TLAPS proves every safety
property that holds of the session, the driver, the single-task connection, the Embassy
transport, the state cache and the callbacks for all values of their constants,
the three refinements among them. Of the typed interface it proves that refusals are
right, and reduces what types can carry to facts about their tables.

## The system

| component | state | operations | talks to |
|---|---|---|---|
| session (`obs-websocket-core/src/session.rs`) | phase, negotiated version, id counter, outgoing frames, events, pending calls | `handle_message`, `handle_close`, `handle_timeout`, `send_*`, `reidentify`, `poll_*` | whoever owns it, through its two queues |
| driver (`obs-websocket/src/driver.rs`) | the socket, a session, `Pump::pending` (id to oneshot and deadline), attempt counter, the subscriptions to identify with | `run` (retry loop), `serve` (connect, identify, startup calls), `command_loop` | clients by an unbounded channel and oneshots; OBS by frames; the shared state it publishes |
| client (`client.rs`, `batch.rs`) | handles on the channel, the published `ConnectionState`, available requests | `connect`, `request`, `batch`, `reidentify`, `events`, `on*` | the driver |
| config (`config.rs`) | reconnect policy and timeouts | `delay`, URL parsing | read by the driver |
| state cache (`state.rs`) | last known settings of OBS | `apply` for events, the writes of `snapshot` | written by the driver task, read by everybody |
| callback registry (`callback.rs`) | callbacks by id | `push_*`, `remove`, the copies taken before a call | changed by any thread, called by the driver task |
| io connection (`obs-websocket-io/src/connection.rs`) | a transport, a session, an inbox | `connect`, `request`, `raw_*`, `reidentify`, `next_event`, `poll` | one owner, no task of its own |
| Embassy transport (`obs-websocket-embassy`) | a receive buffer, a message put together from fragments | `connect`, `recv`, `send`, `close` | the io connection, a byte stream |
| tokio transport (`obs-websocket-tokio`) | a socket | `send`, `recv`, `close` | the io connection |
| protocol, codecs, authentication (`obs-websocket-core`) | none | encode, decode, hash | the session |
| typed interface (`generated/`) | none | one struct per request, response, event and object; one method per request | the client; serde |
| code generator (`xtask`, `protocol/`, `overrides.toml`) | none | choice of a Rust type for each documented field | the generated code |
| mock server, examples, firmware | | | tests and demonstrations |

What is hard here:

- **session**: answers, deadlines and closes race for one entry of the pending
  map; frames come out of turn; a request may fail half way. Correct means:
  each call ends once, at its deadline or when the socket closes at the latest;
  nothing is reported after Closed; Identify is sent once and never without the
  password it is asked for.
- **driver**: it is one task but three parties (clients, OBS, timers) interleave
  at its awaits, every connection brings a new session whose ids start again at
  1, and a call is recorded twice, in the session and in the pump. Correct means:
  nobody gets another caller's answer, nobody is left waiting, subscriptions
  survive a reconnect, a refused password is final, and the published states
  tell the truth.
- **io connection**: a single task, but every `await` can be cancelled and the
  inbox outlives the request that filled it. Correct means: a late or abandoned
  completion never ends another request, a timeout is due when it is reported,
  and no event is lost, repeated or overtaken.
- **state cache**: the snapshot's answers are applied later than events that
  arrived behind them. Correct means: it is known exactly when the cache can
  disagree with OBS, and no value gives way to an older one but in that case.
- **callback registry**: callbacks are copied before they run and registered
  meanwhile. Correct means: each is told what it is due, once and in order.
- **Embassy transport**: `recv` is dropped whenever a timer wins. Correct means:
  the stream is still cut into the same messages.
- **typed interface**: the list of requests OBS has is consulted before a call
  is queued and OBS may be another release when it is sent; the types are made
  from a document by rules with exceptions. Correct means: refusals are right,
  and it is known which documented values cannot be written or read.

`PROJECT.json` lists the hazards, each at its line, with the properties that
cover it.

## Modules

| module | models |
|---|---|
| `SessionCore` | each method of `Session` as an operator from a session record to the one it leaves, with its error where it can fail. No variables: every owner of a session uses these operators. |
| `Session` | one session whose owner calls any method at any time and whose peer sends any frame |
| `RequestLedger` | abstract: what a session promises about calls |
| `Driver` | the driver task, its clients and its server, over `SessionCore` |
| `Lifecycle` | abstract: what an application sees of a connection |
| `Connection` | the single-task client, its owner and its server, over `SessionCore` |
| `EmbassyTransport` | buffer, fragments, awaits and the peer's frames |
| `MessageStream` | abstract: what a transport promises its reader |
| `StateCache` | the cache, the snapshot that fills it, and the OBS it follows |
| `Callbacks` | registry, connection state and event streams, with the threads that use them |
| `Json`, `Types`, `Requests`, `Events`, `Api` | the generated types: what serde writes and reads of each field, and the client's methods |
| `Protocol`, `Codegen` | what obs-websocket documents, and the types the generator makes of it |
| `TypedCalls` | calls and events of every one of those types, against an OBS that changes |
| `Subsequences` | what `retain` leaves of a list, for `Connection` and `Callbacks` |
| `SharedLemmas` | what several proofs rest on: lemmas about sequences, and about the methods of a session, for whoever owns it |
| `SessionProofs`, `DriverProofs`, `ConnectionProofs`, `EmbassyProofs`, `StateCacheProofs`, `CallbacksProofs`, `TypedCallsProofs` | the theorems about `Session`, `Driver`, `Connection`, `EmbassyTransport`, `StateCache`, `Callbacks` and `TypedCalls` |
| `MC*` | bounds, a view, symmetry and named constants for TLC |

`Driver` and `Connection` each compose `SessionCore` with a server and clients.
`StateCache` and `Callbacks` look at parts of the driver that `Driver` leaves
out: what `emit_event`, `publish` and the startup answers write and whom they
tell. `TypedCalls` looks at what a call carries and leaves to `Driver` how calls
interleave.

Definitions named after a *seeded fault* are not used by the specification. Each
is a plausible bug in the definition it precedes and serves to test that a
property notices it.

### SessionCore and Session

A session record has one field for each field of the Rust struct;
`event_subscriptions`, the password (whether there is a non-empty one) and the
RPC version stand for `SessionConfig`. Request ids are the numbers they print;
frames and events keep the fields a property can tell apart. `decodes` says
whether a body deserializes and `encodes` whether the codec takes a frame, so
every `?` of the code is a branch. A failed encode still uses up its id, as in
`enqueue`; `on_response` and `on_batch_response` are one operator because they
differ only in the kind of answer they accept. The order in which a `BTreeMap` of
strings fails several calls at once is replaced by an arbitrary order. Version 0
in `negotiated` stands for `None`: servers that negotiate version 0 are left out.

`Session` adds `surfaced` and `sent`, which record what has been polled, so that
`Trace` (events) and `Wire` (frames) are the full histories. `RequestLedger`
holds one entry for each call: issued while the connection is up, then answered,
failed, or dropped by an answer of the wrong kind, once; closing fails every open
call in the same step. `CallState` and `ConnState` are the refinement mapping.

### Driver

`pc` is the await the task is at, and what it does between two awaits is one
action.

| action | code |
|---|---|
| `ConnectOk`, `ConnectFails`, `WakeUp` | `connect_transport`, the delay in `run` |
| `IdentifyFrame`, `Identified`, `IdentifyTimeout` | `until_identified` with `drive_once` |
| `WaitFrame`, `WaitBadFrame`, `WaitTimeout`, `OwnReply` | the driver's own calls: `record_version`, `snapshot`, `wait_reply` |
| `TakeCall`, `TakeReidentify`, `TakeFrame`, `Deadline` | the branches of the `select!` in `command_loop`, with `apply` and `ingest` |
| `FlushFrame`, `Dispatch` | `flush`, one frame at a time, then `drain` and `dispatch` |
| `SocketFails` | `send` or `recv` returns an error |
| `Disconnected` (an operator all of these use) | `fail_pending`, the end of `serve`, and one pass of `run`'s match: stop, or publish a retry |
| `Request`, `ChangeSubscriptions`, `Cancel`, `DropClients` | `Client`, `Batch` and futures that are dropped |
| `Server*` | OBS, external: handshake, the confirmation of a Reidentify (`ServerConfirms`), events, answers in any order, at any time and of either kind, closes, broken frames |

Time is abstract. Deadlines armed later are never earlier, so the id of a call
serves as its deadline, and a timer that fires at a late moment finds any prefix
of the calls due. `WaitTimeout` differs from `Deadline` as the code does: a wait
for an own call sleeps a whole `request_timeout` after the last frame, the command
loop until the nearest deadline.

Frames to the client are in transit and may be lost with the socket; frames to
the server arrive as they are flushed, which the client cannot tell from a server
that is slow to answer. A oneshot is a field of `reply`: `Settle` sends to it,
and what is sent to a caller that has gone is ignored. `asked` records whose
request each id carries, `lastError` why the last connection ended, and
`obs.misled` which calls OBS has answered as calls of the other kind: these are
histories the properties read and not part of the code.

The branch `Step::Command(None)` has no action: `run` owns a sender of its own
channel through `Arc<Inner>`, so `recv` never returns `None`. The error
branches of `enqueue_call` and of batches are not taken because the session
is Identified whenever commands are applied, which `ServesIdentified` checks.

### Connection

`at` is the await the owner's call is suspended at: `flush` and `settle` are
`transport.send` before a read and after a frame was ingested, `recv` is
`transport.recv`, raced against a timer in the calls that have one.

| action | code |
|---|---|
| `Init` | `connect` up to its first await |
| `StartRequest(kind, encodes)` | `request`, `raw_request` ("single"), `raw_batch` ("batch") |
| `StartReading(kind)` | `next_event`, `poll` |
| `StartReidentify` | `reidentify` |
| `Sent`, `TransportFails` | `flush` and `recv_one` going on or giving up |
| `RecvMessage`, `RecvClose` | `ingest`, then `drain`, `flush` and the loop of the call |
| `SleepFires` | the timer of `recv_with_timeout` |
| `Cancel` | the owner drops the future |
| `Tick` | the clock |
| `Server*` | OBS, external; `ServerBreaks` is the transport |

`Wait` is the body of `wait_single` and `wait_batch`, `AwaitIdentified` that of
`drive_until_identified`, `Dispatched` that of `dispatch`. Here time is a number,
because it matters that a timer is set anew for every frame from a deadline that is
not. A `send` that is dropped may or may not have reached OBS. `asked` is a
history: which calls' frames carried an id. A `connect` that does not succeed
leaves no connection (`gone`).

### EmbassyTransport

Bytes are units: a frame is `size` units long, and what counts is which of them
have been read. `ConnectReads`, `ConnectDone` and `ConnectFails` are the loop of
`connect`, with the bytes behind the HTTP header moved to the front; `NeedsMore`
and `Fill` are `fill`; `TakeData`, `TakePong`, `TakePing` and `TakeClose` are
`take_message` by the kind of frame, `ReadFails` its error exits; `CallRecv`,
`CallSend` and `CallClose` are the owner's calls; `WritePart`, `WriteDone` and
`WriteFails` are `write_all`, whose errors and empty writes end the call with part of a
frame written, as a dropped future does; `Cancel` drops the future of `recv`, `send`
or `close`. `handshake` is what `embedded-websocket` remembers of closing: a Close is
answered unless it answers ours (`CloseCompleted`), and after the handshake nothing is
read. `Peer*` is the other end: fragmented messages of both kinds, control frames
between fragments, frames that are none (`bad`), frames too large for the buffer, and
a stream that ends anywhere. All errors but "too small" are one. What
`embedded-websocket` does with bytes is external: it decodes a frame once the buffer
holds all of it.

### StateCache

A field of the cache is a setting of OBS that one startup call reads and one event
reports; a value is how often OBS has changed it. `Connect` and `Disconnect` are
the ends of a connection; `Frame` is `dispatch` (an event is applied at once, an
answer waits in its oneshot); `OwnReply` is `snapshot` going on with the answer;
`Tolerate` is a call that was refused or timed out; `Reidentify` changes which fields
OBS reports (`subscribed`). `Change`, `Rename` and `Answer` are OBS: a change is
reported by an event only if the subscriptions have it, and a name may change by an
event that `apply` does not look at (`state.rs:67` has no case for
`InputNameChanged`, `SceneNameChanged`, and the like).
The batch of mute flags and volumes is modelled item by item, since `snapshot`
matches items to inputs by their position; an item may fail, or come without its key,
which leaves a mute flag alone and makes a volume `None` (`driver.rs:259`).

Three variables are histories: `fresh`, what the cache has heard of on this
connection; `overtaken`, the fields of which an event came while their answer waited;
and `untold`, those that OBS has changed on this connection without an event that
`apply` reads. What the cache holds of a field that is not in `fresh`, because the
startup call that reads it failed, is what an earlier connection left, or nothing:
that it may be stale is by design (`tolerate`), and no property says otherwise.
`volume_mul` and `volume_db` are one value, since one event and one item carry both.
Inputs neither come nor go nor change their names: the events for these
(`InputCreated`, `InputRemoved`, `InputNameChanged`) are ignored by `apply`, so the
list of inputs itself may be stale.

### Callbacks

`Register` and `Unregister` are `on`, `on_any`, `on_connection_state` and the drop
of a `Subscription`, on any thread and between any two steps of the driver;
`Subscribe` and `Read` are the streams of `events()` over a broadcast channel that
keeps `Capacity` events. The driver's `emit_event` and `publish` are `EmitEvent` or
`Publish` (write what can be looked up), `Copy` (under the registry's lock),
`RunCallback` (one by one, without it) and `Finish` (send to the streams). `End`
drops the registry and the channel.

### The typed interface

`Json` says what serde writes and reads of a Rust type up to the form of the JSON
value (`string`, `bool`, `int`, `decimal`, `list`, `object`, `null`, `absent`).
`Types`, `Requests` and `Events` are the generated structs field by field, with the
release that brought each request (`since`); `Api` is the list of methods.
`Protocol` is what `protocol.json` documents of each field, and `Codegen` the
generator's choice of a type: `BaseType`, `MapType`, `Nullable`, and the paths of
`overrides.toml`.

The document has one type for all numbers and one for all objects, so what it says of
fractions and of the parts of objects has to be put together. `Measures` lists the
fields whose description says that they are measured (percent, MB, FPS, dB, multipliers,
averages), and `Fraction` marks restrictions with a decimal point; both are read from
the document and not from the generator's `FLOAT_FIELDS`. A part of an object has the
types that the document gives to fields of its name anywhere (`DocumentedTypes`). Parts
whose names the document has nowhere else (`transforms`, `sceneIndex` and the like) have
no documented type; for these the Rust type is compared with itself, and the check says
nothing.

`TypedCalls` carries one call or event at a time, of which it tells one field apart
by its path and form; every field of every type, each in every documented form,
comes up. `Request`, `RawRequest` and `SendBatch` are checked against `available`
when they are made; `Send` is the driver taking them later; `Answer*` are OBS
refusing an unknown request, a field it cannot use, or the request itself, or
answering well; `OnEvent` and `OnNewEvent` are events that this build knows and
does not know. `Drop`, `Restart`, `Identify` and `RecordVersion` bring another OBS
between any two of these. `GeneratedIsCurrent` ties the modules together: the
types of `Requests` and `Events` are what `Codegen` makes of `Protocol`.

## Runs

| run | question | distinct states |
|---|---|---|
| `session` | do calls settle once and by their deadlines, do the histories keep their order, and does every step refine `RequestLedger`? | 58 thousand |
| `driver` | two callers, reconnects, closes, broken frames, confirmations and answers of the wrong kind: do the pump, the session, the callers and the server agree, and are the published states those of `Lifecycle`? | 2.0 million |
| `driver_live` | a startup with a batch, an OBS that refuses or starts to ask for a password: does every request, and `connect()`, end, unless frames keep a startup call waiting? | 28 thousand |
| `connection` | calls that are dropped at any await, time out, meet closes and broken frames: do answers and events reach the right call, once and in order? | 1.6 million |
| `connection_live` | do calls under a timeout end, and a close all others? | 34 thousand |
| `embassy` | does `recv` implement `MessageStream`, whatever fails or is closed? | 5.7 million |
| `state_cache` | when can the cache disagree with OBS, and can it go back? | 0.7 million |
| `callbacks` | is everybody told what he is due, once and in order? | 2.2 million |
| `typed_calls` | are refusals right, and what can the types not carry? | 77 thousand |
| `driver_flooded` | does a startup call end while OBS keeps sending events? | violated |
| `driver_dropped` | does dropping the last client stop the driver? | violated |
| `connection_reidentified` | does a call that reads the confirmation of a Reidentify go on? | violated |

What a few of the properties say, where the name does not:

- `CallsAccountedFor` (session): a call on the wire is pending, settled, or named
  by an answer of the wrong kind. The third case is a loss: see below.
- `WaitersMatchPending` (driver): pump and session agree on the calls under way,
  although they change in different steps with a flush in between. A waiter that the
  session no longer knows is the victim of an answer of the wrong kind.
- `ConnectReturns`, `CallsSettle` (driver): both have an exception, `Flooded`: frames
  that arrive for ever in startup calls, each before the timer of `wait_reply` runs out.
- `OwnAnswer` (connection): a request that ends with an answer ends with the one
  to its own frame, whatever earlier requests have left behind.
- `NoAnswerOverlooked` (connection): a request never returns `Timeout` with its
  answer in the inbox.
- `AgreesUnlessOvertaken` (state cache): a field that the cache has heard of on this
  connection, and of which no event is under way, is what OBS has, unless an event came
  between the arrival of its startup answer and its use, or OBS has changed it without
  an event that `apply` reads.
- `NeverGoesBack` (state cache): late answers, answers of calls that were given up, and
  a new connection replace no value by an older one, but for the first of these cases.
- `CalledWhenDue` (callbacks): a callback is called with exactly the reports copied
  between its registration and its removal, and so perhaps once after its removal.
- `ExpressesProtocol` (typed calls): the documented values that a typed request
  cannot carry are a list of eight, which the definition spells out.
- `EverythingIsRead` (typed calls): likewise `KnownUnread` for answers and events, which
  has a null that the generator overlooks and the blend mode of a scene item.

### Bounds

*session* runs until four events, three frames and two ids: a handshake and two
calls that are answered, time out or are cut off in every order, with a close
behind them. Two deadlines, two moments and `NoDeadline` give calls due before, at
and after a tick. The server may name each call before and after it exists. Since
the queues only decide how much of a history has been polled, `MCSession` has a
view that forgets it: two states with the same view have the same histories and
the same successors up to polling, and the properties read nothing else. What the
bounds leave out, the proofs cover.

*driver* has two interchangeable callers, each making one request; the pump treats
callers alike, and two are enough for one to get the other's answer. One startup
call stands for all those of one kind, and `driver_live` adds a batch, the only
other kind. One retry gives a second connection, from which a third differs only in
the count; `driver_live` has two, because on the last one a refused password and
an exhausted limit end the same way. One frame to the client is in transit at a time:
the client takes frames one by one, and no frame of the client keeps OBS from sending
what it could have sent before, so a second frame in transit is like one sent later.
The run `driver` has answers of the wrong kind; the liveness runs have not
(`WrongKinds`), since such an answer leaves its caller waiting until the connection
ends, which is the first of the divergences below. `AttemptMax` stands for `u32::MAX` and is out of reach where
retries are limited.

*connection* has `connect` and two calls behind it, two events, two frames under
way, and a clock that lets a call time out before, while or after its answer
arrives. The second call is what an abandoned first one can disturb.

*embassy* has three frames of up to four units and a buffer of three, so that a
frame fits with room, exactly, or not at all; three frames are two fragments with a
control frame between them. Control frames are short, as the protocol has it, and fit
(`MaxControl`); the owner sends once and closes once.

*state_cache* has two inputs (a batch of four items, one of which may fail or lack its
value), a field read behind them that holds a name, subscriptions with and without the
events of inputs, and two connections. Two changes let a setting change while its answer
is under way and again afterwards. Fields read before the inputs are treated like the
one behind, and are left to the proof.

*callbacks* has one callback of each kind (any event, one payload type, connection
state), a stream over a channel of capacity 1, and three reports, so that a reader
is overtaken and goes on.

*typed_calls* has releases 5.6 and 5.7 (the last brought `GetCanvasList`), raw and
batched requests that exist in one, in both and in none, and two connections. The
types are complete: nothing of them is bounded.

Deadlock is checked for the session, the driver and typed calls. A connection, a
transport, a cache or a callback may come to rest once OBS, the owner or the
application does nothing more, so the other runs do not check it.

### Fairness

`TaskFairness` in `Driver` says that the runtime polls a ready task, that
connection attempts and delays end (`connect_timeout`, `sleep`), and that a socket
takes a frame or breaks. The last is an assumption: `flush` is under no timeout.
`select!` picks among ready branches at random, hence strong fairness for the
branches of the command loop and for `OwnReply`. Clients and the server owe
nothing: answers need never come. A wait for a startup call starts its timer anew with
every frame, so nothing is assumed of that timer but that *either* a frame ends the wait
*or* it does (weak fairness of `WaitFrame \/ WaitBadFrame \/ WaitTimeout`). A server that
keeps sending can then hold a startup call, and `connect()`, for ever:
`StartupCallsEnd` says that it cannot, and the run `driver_flooded` shows how it does.
`CallsSettle` and `ConnectReturns` are stated for the behaviours in which this does not
go on for ever (`Flooded`), where retries are limited.

`FairSpec` in `Connection` says that a future that can go on is polled by its
owner (a call the owner has not dropped), that time passes, and that a broken
transport says so. It needs no strong fairness, because the deadline of a call does
not move. The other modules have safety properties only.

## What the violated runs show

1. `driver.rs:434` (`driver_dropped`): the driver holds a sender of the channel it reads, so it
   never sees the last client go, although `client.rs:86` says that this stops it.
2. `session.rs:273` (`connection_reidentified`): op 2 is accepted only while
   Identifying. OBS confirms a Reidentify with op 2, and the call that reads it fails
   with `Unexpected`; the confirmation never reaches `on_identified` (`handler.rs:12`).
   In the driver the same error ends the connection, so there each `reidentify()` costs
   a reconnect, or the driver where reconnecting is off (`ServerConfirms` in `Driver`);
   the subscriptions survive it (`SubscriptionsKept`).
3. `driver.rs:385` (`driver_flooded`): `wait_reply` gives each frame a timer of a whole
   `request_timeout`, so an OBS that sends events more often than that, and does not
   answer `GetVersion`, keeps `Client::connect` waiting for ever, although
   `config.rs:66` calls it the budget of each request.

Other divergences, met while modelling. The models do what the code does; the
properties above allow for it:

- `generated/requests/transitions.rs:452`: `SetTBarPosition` takes an `i64`, although
  its documentation gives a range from 0.0 to 1.0. The generator makes numbers integers
  unless their name is in a list (`codegen.rs:14`) that lacks `position`. One of the
  eight in `ExpressesProtocol`.
- `overrides.toml:79`: the part `sceneItemBlendMode` of `SceneItem` is an `i64`, while
  the document has a String wherever it names it (`protocol.json:4568`, `:4616`). If OBS
  puts the same into `GetSceneItemList`, the whole answer cannot be decoded. It is in
  `KnownUnread`.
- `session.rs:455`, `:477`: an answer with the wrong answer opcode takes the entry
  of the call it names with it. The call is neither answered nor timed out nor
  failed by a close, and in the driver its oneshot waits until the connection ends.
- `driver.rs:664`: close code 4011 is retried like a dropped socket, although the
  protocol (`enums.rs:497`) says a client must not reconnect after it.
- `driver.rs:424`: deadlines start when a command is taken; a request made during a
  reconnect that never succeeds waits for ever if retries are unlimited, although
  `config.rs:66` calls `request_timeout` the budget of a request.
- `connection.rs:352` (io): a call cut off by a close returns `Error::Request`
  and not `Error::Closed`.
- Embassy `lib.rs:245`, `:259`: when the future of `recv` or `send` is dropped in
  the middle of a write, half a frame stays in the stream, and a Ping or Close that
  was being answered is gone.
- `transitions.rs:87`: `GetSceneTransitionList` documents that the current
  transition "Can be null", without backticks; the generator looks for them
  (`codegen.rs:965`), and the null fails the answer.
- `SetProfileParameter` and `SetSceneSceneTransitionOverride` use null to remove a
  value, but `None` is left out of what is written.
- `overrides.toml` gives optional fields plain types, so `CreateInput`,
  `CreateSourceFilter`, `CallVendorRequest` and `TriggerHotkeyByKeySequence` always
  send them.

Two behaviours were met that no document contradicts: a batch that times out is
returned as `Ok` with a single item (`driver.rs:613`), unlike the io connection,
which returns `Timeout`; and the retry count is never reset after a successful
reconnect (`driver.rs:49`), so `Lifecycle` counts retries over all connections.

## Proofs

Each safety property of the `session`, `driver`, `connection`, `embassy`, `state_cache` and
`callbacks` runs is a theorem, and four of the five of `typed_calls`, two of them under
hypotheses about the tables of types (see there). Those about `Session` hold for all constants that satisfy
`SessionAssumption` and `NoDeadlineAssumption`: any number of calls, any deadlines and
moments, any frames the server may send, and no bound on the histories.

| module | theorem | property |
|---|---|---|
| `SessionProofs` | `TypeCorrect` | `TypeOK` |
| | `SettledOnce` | `SettledAtMostOnce` |
| | `ClosedIsLast` | `NothingAfterClosed` |
| | `IdentifiedIsFirst` | `IdentifiedComesFirst` |
| | `FramesInOrder` | `WireInOrder` |
| | `NoCallIsLost` | `CallsAccountedFor` |
| | `TimeoutsFollowDeadlines` | `DeadlinesInOrder` |
| | `SessionImplementsLedger` | `ImplementsLedger` |
| `DriverProofs` | `DriverTyped` | `TypeOK` |
| | `NoCallerIsLost` | `CallersTracked` |
| | `DriverMapsAgree` | `WaitersMatchPending` |
| | `AnswersFindTheirCaller` | `NobodyMisrouted` |
| | `DriverServesIdentified` | `ServesIdentified` |
| | `DriverKeepsSubscriptions` | `SubscriptionsKept` |
| | `RefusalIsFinal` | `NeverRetriesRefused` |
| | `DriverImplementsLifecycle` | `ImplementsLifecycle` |
| `ConnectionProofs` | `AnswersAreOwn` | `OwnAnswer` |
| | `EventsReachOwner` | `EventsInOrder` |
| | `NoEarlyTimeout` | `TimeoutsAreDue` |
| | `TimeoutsOverlookNothing` | `NoAnswerOverlooked` |
| | `ClosedStays` | `ClosedIsFinal` |
| `EmbassyProofs` | `FramesStayWhole` | `BufferAligned` |
| | `OnlyLargeFramesRefused` | `FittingFramesAreRead` |
| | `TransportImplementsStream` | `ImplementsStream` |
| `StateCacheProofs` | `StaleOnlyIfOvertaken` | `AgreesUnlessOvertaken` |
| | `ItemsGoToTheirInputs` | `NothingMixedUp` |
| | `CacheNeverGoesBack` | `NeverGoesBack` |
| `CallbacksProofs` | `CalledAsDue` | `CalledWhenDue` |
| | `CalledAsRegistered` | `CalledInOrder` |
| | `NewsCanBeSeen` | `NewsIsVisible` |
| | `SkipsOnlyOvertaken` | `StreamsSkipOnly` |
| `TypedCallsProofs` | `OnlyUnknownRefusedHolds` | `OnlyUnknownRefused` |
| | `NeverAskedInVainHolds` | `NeverAskedInVain` |
| | `ExpressesProtocolHolds` | `ExpressesProtocol`, from `GapsAreKnown` and `WrittenIsAccepted` |
| | `EverythingIsReadHolds` | `EverythingIsRead`, from `ResponsesAreRead` and `EventsAreRead` |
| | `GeneratedTypesRead` | generated types read what is documented, for any document |
| | `GeneratedTypesWrite` | generated types write what is documented, for any document |

### The session

`SharedLemmas` looks at the methods one by one and `SessionProofs` at the
histories. A relation between a session before and after a method call says what
the call may do; one lemma for each method shows that it does no more; and one
lemma shows that whatever does no more preserves the invariant.

- **Types.** `TypeOK` is inductive because it includes `WellFormed`: pending ids
  are below `nextId`, so a new call never takes the place of an old one, and only
  an Identified session has pending calls.
- **Settled once.** The invariant is `Exclusive`: no id is completed twice, none is
  both completed and pending, and completed ids are below `nextId`. The histories
  alone are not inductive, since a call that is settled and still pending could be
  settled again. The relation (`Sound`, lemmas `*Sound`) has two cases: nothing about
  calls is reported, or a set of ids leaves the pending map and one completion is
  reported for each. `Failures` enumerates that set by `SetToSeq`;
  `SetToSeqBijection` and `PendingFinite` justify it.
- **Order.** The relation (`Turns`, lemmas `*Turns`) says which events and frames a
  call adds in which phase. The invariants `InOrder` and `SentInOrder` tie the
  histories to the phase: before Identified nothing has been reported, and ids on
  the wire are below `nextId`.
- **Accounts.** The relation (`Accounts`, lemmas `*Accounts`) says for each call added
  to the wire or taken from the map where it went: issued, answered, dropped by a
  mismatch, failed. `Accounted` is the invariant; `DeadlinesInOrder`, an action
  property, follows from the case of a timeout.
- **Refinement.** `LedgerInv` collects the three invariants, which determine the
  state of every call (`CallStateIs`). `CallsMove` and `MovesKeepLedger` show that
  each move of the accounts is a step of `RequestLedger`; polling is a stutter.

### The driver

The theorems about `Driver` assume `DriverAssumption` and `NoDeadlineAssumption`:
any set of callers, any startup calls (at least one), any reconnect policy, with or
without a password, any subscriptions, a server that does or does not answer with the
wrong kind, and any bound on the frames in transit. The safety invariants
of the run are not inductive, not even together; `IInv` is, and has six parts, each of
which TLC checked before it was proved:

- `Types`: `TypeOK`, and what oneshots, frames and the server's state may hold.
- `Control`: what is true at each await. Between connections nothing of a
  connection is left; when the driver waits for a call of its own, only such calls
  are in the pump's map; when commands are served the session is Identified and
  everything is flushed. A frame is taken with these as its context.
- `Ledger`: pump, session and server agree on which calls there are. Beside
  `WaitersMatchPending` and `NobodyMisrouted` it needs `Exclusive` from the session,
  and that every id in a queued frame, in the server's list and in an answer under
  way has been issued with that kind (`Issued`): an answer to an id not yet given out
  would be taken for the answer to the request that later gets it.
- `Tracking`: a caller has at most one entry, in the channel or in the pump's map,
  and a caller who waits has one. Without *at most one*, ending one entry would not
  release the caller for the other.
- `Filters`: what OBS filters by is what was last asked for, or a Reidentify that says
  so has still to be flushed.
- `Announced`: what the published state says of the driver's await.

`EveryStep` sorts the actions into classes by what they do to that state: `EndStep`
(a connection ends, whoever noticed), `GreetingStep`, `OwnCallStep`,
`CompletionStep`, `AnnounceStep`, `SelectStep`, commands, frames flushed, and the
steps of applications and of the server. One lemma for each class (`*Inv`) shows that
it preserves all six parts. What a class needs of the session comes from
`SharedLemmas`: `Settles` and its lemmas say that after a method call every
call that was pending still is or has its completion in the queue. `EndEffect` shows
that `fail_pending` and the end of `serve` leave nobody behind. That every step of the
driver is a step of `Lifecycle` or a stutter follows from `Announced` and the same
classes.

### The connection

The theorems about `Connection` assume `ConnectionAssumption` and
`NoDeadlineAssumption`: any positive request timeout, any number of calls, events and
frames under way, any close codes, and a server that does or does not confirm a
Reidentify. `IInv` has four parts, which TLC checked together on an instance smaller
than that of the run before they were proved:

- `Types`: what the variables hold.
- `Control`: what is true of connection and call at each await. The session has
  been drained (`Fit`); no id is both completed in the inbox and pending
  (`Exclusive`); a Closed in the inbox means that the session is closed. The call
  suits the session (`Suits`): a call that waits has an id that was issued to it. At
  the awaits before a read, nothing in the inbox ends the call (`Unanswered`): that is
  why no answer is overlooked when the timer fires. At `recv` the timer is not set
  before the deadline.
- `Replies` (`Ledger`): which requests OBS has received, and that only those are
  answered, on the link, in the inbox and to the owner. Frames not yet sent are of
  distinct calls that OBS has not received, and no id is used again. Without this an
  answer could arrive for an id before the request that gets it is made, and the
  invariant `OwnAnswer` alone says nothing about that.
- `Order`: the events served, those in the inbox and those under way are together
  the events OBS has sent.

Between two awaits the code runs far: it ingests a frame, drains the session,
dispatches to the inbox, looks for what the call waits for, and flushes. Each piece has
its own relation between the connection before and after (`Ingested`, `Entered`,
`Remains`, `Takes`, `Cut`, `Overdue`, `Renewed`). `Continues` says what a call may do
before it ends or is suspended again, and `LoopContinues`, `AfterFlushContinues` and
`ResumeContinues` show for every kind of call that it does no more. `Passes` adds what
the step did before it came to that, and `Passed` shows that such a step preserves
`IInv` and is `StepsAreSound`, of which the three action properties are parts. There
is one lemma for each action (`*Passes`, and `*Keeps` for those of OBS).
`Subsequence` is a recursive function; what is needed of it (`SubsequenceConcat`,
`SubsequenceParts`) is proved in `SharedLemmas` from `ByAppending`, a
least-counterexample argument for sets of sequences.

### The Embassy transport and the state cache

The theorems about `EmbassyTransport` assume `EmbassyAssumption` (the sizes are
positive) and hold for buffers, responses and frames of any size and any number of
frames. `BufferAligned` compares neighbouring units, which is too little to take a
whole frame off the buffer: that its last unit is where its size says has to be
known. `Placed` says of each unit where all the others of its frame stand, and is
preserved by cutting a stream at any place, by dropping whole frames from its front
and, as long as it is `Whole`, by joining a frame to its end. `Sound` adds that a
stream the peer has not ended is whole and that the response is first before the
upgrade is over, and one lemma (`*Sound`) shows that reading, consuming, the end of
the stream and sending preserve it. A call that fails with any other error leaves stream and buffer as they
are. `Stuck` says what a frame too large leaves behind:
the buffer stays full, and every later `recv()` ends the same way.

That the transport implements `MessageStream` needs to know what the stream still
carries. `DataFrames` are the data frames of which the last unit is there, and
`Messages` what the peer has finished with what it is at. `Delivery` relates the two:

- `InOrder`: fragments are numbered in the order of their messages, and every message
  but the last has one.
- `Numbered`: the data frames on the stream are in the order of their numbers.
- `UnderWay`: each of them carries a fragment that `recv()` has yet to take (`Carries`:
  its number, its kind, and whether it is the last), and all fragments beyond those
  taken are there. Once the peer has cut the stream off that holds of those up to the
  last one there only.
- `Collected`: what has been returned is the messages of the peer, and what has been
  collected the beginning of the next.

The step that matters is `TakeData`: the first data frame has the smallest number, so by
`FirstIsNext` it carries the very next fragment, and `TakenCollected` and
`TakenUnderWay` say what is left when it has been taken. A frame of the peer is added to
the stream and to the messages at once (`JoinFrames`, `Added*`), and the end of the
stream cuts off fragments behind all that stay (`PrefixFrames`, `CutUnderWay`). Reading,
pongs, pings, closes, refused frames and dropped futures leave `DataFrames` as they were.
`DeliveryStep` shows at once that each step preserves `Delivery` and is a step of
`MessageStream` or none: `PeerData` with the last fragment is `Finish`, `TakeData` with it
`Receive`.

The theorems about `StateCache` assume `StateCacheAssumption` (settings
and inputs have distinct names), `NamedAssumption` and `FiltersAssumption`, and hold for any
settings, inputs, subscriptions, changes and connections.
`CacheInv` adds to the two invariants of the run what is still under way: of the
frames in the link (`LinkCurrent`) and of an answer in its oneshot (`ReplyCurrent`), a
value that is no longer that of OBS has a later event behind it, has been overtaken, or
was changed in silence (`untold`). `AskedFields` shows that the items of the batch are about the fields that `snapshot`
takes them for, whatever the number of inputs. There is one lemma for each action
(`*Keeps`). `NeverGoesBack` rests on `Ordered`: the values of one field in the cache, in
the oneshot and along the link never decrease and are none that OBS has yet to get to;
only an overtaken answer may be older than the cache. What a call that was given up left on the link is in that order too, which
is why it does no harm.

### Callbacks and streams

The theorems about `Callbacks` assume `CallbacksAssumption` (a callback is of one kind,
payloads have types, and the channel retains something) and hold for any callbacks and
streams, interests, capacity and number of reports. The four invariants of the run say
nothing of the registry, so they are not inductive. `IInv` has five parts:

- `Types`: what the variables hold.
- `Control`: copies are left to run only while the driver runs them, and it does not
  end in the middle of a report.
- `Listed`: an id is given out once, across both kinds (`Numbered`), and each list of
  the registry has exactly the callbacks of its kind that are registered, in the order
  of their ids (`Lists`). That ids are distinct *across* kinds is what `remove()` relies
  on: it looks for the id in both lists. Once the client is dropped nobody removes
  anything, so then the lists may have callbacks whose handle is gone.
- `Called`: `CalledWhenDue`, and `LeftInOrder`: the copies still to run are in the order of
  their ids and behind all that have been called with this report. Without it a callback
  called before could have a second copy waiting.
- `Sent`: whatever has been reported has been written, and the channel has had events in
  order, the one under way only when its callbacks have run (`Written`); every stream
  `Follows` the channel.

Application and driver interleave at every step, so each action has a lemma for each part
that it touches: `*Listed` for the registry, `*Called` for callbacks, `*Sent` for streams.
Those that touch none are covered by `ListedStays`, `CalledStays` and `SentStays`.
`Copied`, the number of reports whose callbacks have been copied, moves only with `Copy`
(`CopiedGrows`, `CopiedNext`): this is the moment that decides who is told of a report.
`DueNext` says that the report then becomes due to those who are registered and take it,
and to nobody else; `CopyCalled` that just these wait for it; and `RunCalled` that running
a copy turns the wait into a call.

### The typed interface

The theorems about `TypedCalls` hold for any releases, batches and untyped requests and
any number of reconnections; new events are events not in the table
(`NewEventsAssumption`). `NeverAskedInVain` is not inductive: it says nothing of calls
not yet answered. `IInv`, which TLC checked on the instance of the run, adds

- `ListIsCurrent`: while commands are served the list is that of the OBS at the other
  end, or there is none. OBS changes only while the connection is down, and
  `record_version` runs before commands are taken.
- `CheckedIsKnown`: a call checked against the list of this connection, and still on its
  way, is one OBS has. Calls that waited in the channel through a reconnection are told
  from it by `at`, the connection they were checked in (`WaitedBefore`): they are the
  exception that the property names.
- `Undecided`: a call has no outcome before it is done.

`RefusalIsRight` is the step of `OnlyUnknownRefused`; of all steps only `Begin` refuses.

`CarriedAsTyped` follows a call and its field through waiting, sending, answering and
losing the connection: what OBS refuses was written by the type of that request, and
what cannot be decoded is a documented form that the type of that response, or event,
does not read: no form is lost on the way, only in serde. Whether there are such forms is a matter of the tables alone, which are
finite and have no parameters: `GapsAreKnown`, `WrittenIsAccepted`, `ResponsesAreRead`
and `EventsAreRead` say what the tables must satisfy, and are the hypotheses of
`ExpressesProtocolHolds` and `EverythingIsReadHolds`. They are not proved, since a
proof would only go through about 200 requests and events again: TLC does so in the
run `typed_calls`, where every field comes up in every form.

About the generator more can be said than a table shows. `GeneratedTypesRead` and
`GeneratedTypesWrite` quantify over the document: for any field of a type that
`map_type` knows, without a type of its own in `overrides.toml`, the generated type reads
every documented form, and writes no other. Their hypotheses are the generator's blind
spots: null that the description does not put as code (as of the current transition),
fractions in numbers that are not in `FLOAT_FIELDS` (as of the T-bar), and, for
writing, null where it is a value.

### Only model-checked

`GeneratedIsCurrent` and the facts about the tables (with them that `KnownUnread` is all
there is), and all liveness. The former compare
constants, field by field. Liveness under fairness and ENABLED
are outside what the proof system can do. So is induction over data with the library's
theorems, which is why `SharedLemmas` proves what it needs of `Subsequence` with a
principle of its own; what other recursive definitions compute for every input is not
proved. No module contains a RECURSIVE operator.

## Not modelled

- **Config**: `delay` decides only how long a reconnect sleeps, and URL parsing what
  it connects to; the policy's flag and limit are constants of `Driver`.
- **Codecs and authentication**: opcodes are in `SessionCore` and the forms of values
  in `Json`; bytes of JSON and MessagePack and the SHA-256 challenge are data that
  no property tells apart.
- **Tokio transport**: an adapter without state; its sockets and timers are part of
  `Driver`.
- **Generated enums and round-trip tests**: constants with their conversions, and
  tests.
- **Text of the generator, protocol diff, download**: formatting and I/O.
- **Mock server, examples, firmware**: the servers of the models are written from
  what the client relies on.
- **Panics** in callbacks and poisoned locks.

## What could follow

`delay` with its 32-bit shifts; the protocol diff as sets.
