----------------------------- MODULE StateCache -----------------------------
(***************************************************************************)
(* The cached view of OBS (obs-websocket/src/state.rs) as the driver       *)
(* writes it: a snapshot of calls made one after the other on every new    *)
(* connection (snapshot() in driver.rs), and events all the while          *)
(* (emit_event() in client.rs, apply() in state.rs).                       *)
(*                                                                         *)
(* A field of the cache is a setting of OBS that is read by one call and   *)
(* reported by one event; a value is the number of times OBS has changed   *)
(* it, tagged with the field.  The event is sent if the client subscribed  *)
(* to it, and a name may change by an event that apply() does not look at. *)
(* The inputs of OBS are the same throughout.                              *)
(***************************************************************************)
EXTENDS Integers, Sequences, FiniteSets, Functions, SequencesExt

CONSTANTS
    Before,         \* settings read by a call each, before the inputs
    Inputs,         \* the inputs of OBS, in the order GetInputList has them
    After,          \* settings read by a call each, after the inputs
    None,           \* the None of the cache
    Named,          \* settings that hold a name, which OBS may change
    Filters,        \* for each event_subscriptions the fields it reports
    MaxChanges,     \* bound on the changes in OBS
    MaxConnections, \* bound on the connections
    MaxInFlight     \* bound on the frames under way

ASSUME StateCacheAssumption ==
    /\ Before \in Seq(STRING) /\ Inputs \in Seq(STRING) /\ After \in Seq(STRING)
    /\ IsInjective(Before \o Inputs \o After)
    /\ MaxChanges \in Nat /\ MaxConnections \in Nat /\ MaxInFlight \in Nat

Muted(i) == <<Inputs[i], "muted">>
Volume(i) == <<Inputs[i], "volume">>

Names(s) == {<<s[i], "value">> : i \in DOMAIN s}

InputFields == {Muted(i) : i \in DOMAIN Inputs} \cup {Volume(i) : i \in DOMAIN Inputs}

Fields == Names(Before) \cup Names(After) \cup InputFields

ASSUME NamedAssumption == Named \subseteq Fields
ASSUME FiltersAssumption == Filters \subseteq SUBSET Fields /\ Filters # {}

List == <<"inputs", "list">>
Batch == <<"inputs", "batch">>

\* The calls of snapshot(), in order; List is GetInputList and Batch the
\* GetInputMute and GetInputVolume of every input it named.
Steps ==
    [i \in DOMAIN Before |-> <<Before[i], "value">>] \o <<List, Batch>>
        \o [i \in DOMAIN After |-> <<After[i], "value">>]

VARIABLES
    settings,   \* what OBS has: field -> number of changes
    link,       \* frames from OBS
    up,         \* whether the client is connected and identified
    step,       \* the call of snapshot() being made; past the last: serving
    open,       \* whether OBS has that call to answer
    reply,      \* the oneshot of that call
    cache,      \* ObsState
    fresh,      \* fields the cache has heard of on this connection
    overtaken,  \* fields whose answer an event overtook
    untold,     \* fields changed on this connection, and no event said so since
    subscribed, \* fields of which OBS reports changes
    connections

histories == <<fresh, overtaken, untold>>
vars == <<settings, link, up, step, open, reply, cache, histories, subscribed, connections>>

Value(f) == [of |-> f, changes |-> settings[f]]

NoReply == [kind |-> "none", items |-> <<>>]

Serving == up /\ step > Len(Steps)

----------------------------------------------------------------------------

Init ==
    /\ settings = [f \in Fields |-> 0]
    /\ link = <<>>
    /\ up = FALSE
    /\ step = 1
    /\ open = FALSE
    /\ reply = NoReply
    /\ cache = [f \in Fields |-> None]
    /\ fresh = {}
    /\ overtaken = {}
    /\ untold = {}
    /\ subscribed \in Filters
    /\ connections = 0

\* A new connection comes as far as record_version(). Its Identify asks for the
\* subscriptions of the last.
Connect ==
    /\ ~up
    /\ connections < MaxConnections
    /\ connections' = connections + 1
    /\ up' = TRUE
    /\ step' = 1
    /\ open' = TRUE
    /\ link' = <<>>
    /\ reply' = NoReply
    /\ fresh' = {}
    /\ overtaken' = {}
    /\ untold' = {}
    /\ UNCHANGED <<settings, cache, subscribed>>

\* connection_failed(): whatever snapshot() was doing is abandoned.
Disconnect ==
    /\ up
    /\ up' = FALSE
    /\ link' = <<>>
    /\ reply' = NoReply
    /\ open' = FALSE
    /\ UNCHANGED <<settings, step, cache, histories, subscribed, connections>>

\* apply() of a Reidentify, once commands are served.
Reidentify(filter) ==
    /\ Serving
    /\ subscribed' = filter
    /\ UNCHANGED <<settings, link, up, step, open, reply, cache, histories, connections>>

\* Seeded fault: events are held back while the snapshot is taken, and lost.
ApplyWhenServing(f, v) == IF Serving THEN [cache EXCEPT ![f] = v] ELSE cache

\* apply(): the event's value is the field's.
Apply(f, v) == [cache EXCEPT ![f] = v]

\* Seeded fault: an answer is taken for that of the call being made, whatever
\* call it answers.
AnswersAny(m) == step <= Len(Steps)

\* An answer to a call that has been given up finds no waiter.
Answers(m) == m.step = step

\* dispatch() for a frame: an event is applied at once, an answer goes to the
\* oneshot of its call.
Frame ==
    LET m == Head(link)
    IN  /\ up
        /\ link # <<>>
        /\ link' = Tail(link)
        /\ IF m.kind = "event"
           THEN /\ cache' = Apply(m.of, m.value)
                /\ fresh' = fresh \cup {m.of}
                /\ overtaken' = IF reply.kind = "none" THEN overtaken \ {m.of}
                                ELSE overtaken \cup
                                     {f \in {m.of} : \E i \in DOMAIN reply.items :
                                                        reply.items[i].of = f}
                /\ UNCHANGED reply
           ELSE /\ reply' = IF Answers(m) THEN [kind |-> "answer", items |-> m.items] ELSE reply
                /\ UNCHANGED <<cache, fresh, overtaken>>
        /\ UNCHANGED <<settings, up, step, open, untold, subscribed, connections>>

\* Seeded fault: the volume is taken for the first item of each input.
ItemFieldShifted(i) ==
    IF Steps[step] = Batch
    THEN IF i % 2 = 1 THEN Volume((i + 1) \div 2) ELSE Muted(i \div 2)
    ELSE Steps[step]

\* What an answer to the step writes.  The items of a batch alternate between
\* the mute flag and the volume of one input after the other, whatever they
\* hold.
ItemField(i) ==
    IF Steps[step] = Batch
    THEN IF i % 2 = 1 THEN Muted((i + 1) \div 2) ELSE Volume(i \div 2)
    ELSE Steps[step]

Good(items) == {i \in DOMAIN items : items[i].result = "ok"}

\* The volumes that came without their key.
Blank(items) == {i \in DOMAIN items : items[i].result = "bare" /\ ItemField(i)[2] = "volume"}

NextStep ==
    /\ step' = step + 1
    /\ open' = (step < Len(Steps))
    /\ reply' = NoReply

\* The oneshot is ready and select! picks it, now or after further frames. A
\* mute flag that is missing is left alone, a volume that is missing is None.
OwnReply ==
    LET written == {ItemField(i) : i \in Good(reply.items)}
        blank == {ItemField(i) : i \in Blank(reply.items)}
        value(f) == reply.items[CHOOSE i \in Good(reply.items) : ItemField(i) = f]
    IN  /\ up
        /\ reply.kind = "answer"
        /\ cache' = [f \in Fields |->
                        IF f \in written
                        THEN [of |-> value(f).of, changes |-> value(f).changes]
                        ELSE IF f \in blank THEN None ELSE cache[f]]
        /\ fresh' = (fresh \ blank) \cup written
        /\ NextStep
        /\ UNCHANGED <<settings, link, up, overtaken, untold, subscribed, connections>>

\* tolerate(): a call that is refused or times out leaves its field alone.
\* Without the list there are no inputs to ask for.
Tolerate ==
    /\ up
    /\ step <= Len(Steps)
    /\ reply.kind = "none"
    /\ IF Steps[step] = List
       THEN /\ step' = step + 2
            /\ open' = (step + 1 < Len(Steps))
            /\ UNCHANGED reply
       ELSE NextStep
    /\ UNCHANGED <<settings, link, up, cache, histories, subscribed, connections>>

----------------------------------------------------------------------------
(* OBS (external).                                                         *)

Changes == FoldFunction(+, 0, settings)

\* A setting changes by the event that apply() reads, if that is asked for.
Change(f) ==
    /\ Changes < MaxChanges
    /\ Len(link) < MaxInFlight
    /\ settings' = [settings EXCEPT ![f] = @ + 1]
    /\ IF up /\ f \in subscribed
       THEN /\ link' = Append(link, [kind |-> "event", of |-> f,
                                     value |-> [of |-> f, changes |-> settings[f] + 1]])
            /\ untold' = untold \ {f}
       ELSE /\ untold' = untold \cup {f}
            /\ UNCHANGED link
    /\ UNCHANGED <<up, step, open, reply, cache, fresh, overtaken, subscribed, connections>>

\* A name changes by an event that apply() leaves alone (SceneNameChanged).
Rename(f) ==
    /\ Changes < MaxChanges
    /\ settings' = [settings EXCEPT ![f] = @ + 1]
    /\ untold' = untold \cup {f}
    /\ UNCHANGED <<link, up, step, open, reply, cache, fresh, overtaken, subscribed, connections>>

Item(f, result) == [of |-> f, changes |-> settings[f], result |-> result]

\* The fields the items of the answer are about, in order.
Asked ==
    CASE Steps[step] = List -> <<>>
      [] Steps[step] = Batch ->
            [i \in 1 .. 2 * Len(Inputs) |->
                IF i % 2 = 1 THEN Muted((i + 1) \div 2) ELSE Volume(i \div 2)]
      [] OTHER -> <<Steps[step]>>

\* OBS answers; one item of a batch may have failed, or have no value.
Answer(bad, result) ==
    /\ up
    /\ open
    /\ Len(link) < MaxInFlight
    /\ open' = FALSE
    /\ bad # 0 => Steps[step] = Batch /\ bad \in DOMAIN Asked
    /\ link' = Append(link, [kind |-> "answer", step |-> step,
                             items |-> [i \in DOMAIN Asked |->
                                        Item(Asked[i], IF i = bad THEN result ELSE "ok")]])
    /\ UNCHANGED <<settings, up, step, reply, cache, histories, subscribed, connections>>

----------------------------------------------------------------------------

Next ==
    \/ Connect \/ Disconnect
    \/ Frame \/ OwnReply \/ Tolerate
    \/ \E filter \in Filters : Reidentify(filter)
    \/ \E f \in Fields : Change(f)
    \/ \E f \in Named : Rename(f)
    \/ \E bad \in 0 .. 2 * Len(Inputs), result \in {"failed", "bare"} : Answer(bad, result)

Spec == Init /\ [][Next]_vars

----------------------------------------------------------------------------
(* Properties.                                                             *)

Reported(f) == \E i \in DOMAIN link : link[i].kind = "event" /\ link[i].of = f

\* A field that the cache has heard of on this connection, and of which no event
\* is under way, is what OBS has, unless an event came between the arrival of its
\* answer and the moment snapshot() wrote it, or OBS has changed the field since
\* without an event that apply() reads (snapshot, apply, emit_event).
AgreesUnlessOvertaken ==
    \A f \in fresh \ (overtaken \cup untold) :
        up /\ ~Reported(f) => cache[f] = Value(f)

\* The cache does not go back in time: calls that were given up and answered
\* late, answers and events of a lost connection, and those of this one in any
\* order replace no value by an older one of the same setting. Only an answer that
\* an event overtook while it waited in its oneshot does (wait_reply, snapshot).
NeverGoesBack ==
    [][\A f \in Fields \ overtaken :
        cache[f] # None /\ cache'[f] # None => cache[f].changes <= cache'[f].changes]_vars

\* The cache never takes one setting for another (the pairs of batch items).
NothingMixedUp == \A f \in Fields : cache[f] # None => cache[f].of = f

=============================================================================
