--------------------------- MODULE CallbacksProofs ---------------------------
(***************************************************************************)
(* Callbacks and streams (Callbacks.tla) for any number of them, any       *)
(* payloads and interests, any capacity of the channel and any number of   *)
(* reports.                                                                *)
(*                                                                         *)
(* The inductive invariant consists of what the variables hold (Types),    *)
(* what the driver's await implies (Control), the registry as it is to the *)
(* handles (Listed), and of two parts that say what the properties need:   *)
(* Called for callbacks and Sent for streams.                              *)
(***************************************************************************)
EXTENDS Callbacks, SharedLemmas

USE CallbacksAssumption

----------------------------------------------------------------------------
(* The invariant.                                                          *)

ReportForms == [kind : {"event"}, payload : Range(Payloads)] \cup [kind : {"state"}]

Handles == [status : {"none", "held", "dropped"}, id : Nat, from : Nat, upto : Nat]

Registrations(C) == [id : Nat, callback : C]

Registries == [nextId : Nat, events : Seq(Registrations(EventCallbacks)),
                             states : Seq(Registrations(StateCallbacks))]

Places == [status : {"none", "open", "over"}, next : Nat, from : Nat]

Types ==
    /\ registry \in Registries
    /\ handle \in [Callers -> Handles]
    /\ log \in Seq(ReportForms) /\ at \in {"idle", "copy", "run"} /\ left \in Seq(Callers)
    /\ visible \in [event : Nat, state : Nat]
    /\ channel \in Seq(Nat)
    /\ stream \in [Streams -> Places]
    /\ ended \in BOOLEAN
    /\ ran \in [Callers -> Seq(Nat)] /\ heard \in [Streams -> Seq(Nat)]

\* The driver is at a report when it copies and runs callbacks, and only then
\* has copies; it does not end in the middle of a report.
Control ==
    /\ at # "run" => left = <<>>
    /\ at # "idle" => ~ended /\ log # <<>>

\* Ids are given out once, and no handle is of a later report than those whose
\* callbacks have been copied.
Numbered ==
    /\ \A c \in Callers : handle[c].status # "none" =>
            handle[c].id < registry.nextId /\ handle[c].from <= Copied
    /\ \A c \in Callers : handle[c].status = "dropped" => handle[c].upto <= Copied
    /\ \A c, d \in Callers :
            /\ handle[c].status # "none" /\ handle[d].status # "none"
            /\ handle[c].id = handle[d].id
            => c = d

\* The list s has those of C that are registered, oldest first.
Lists(s, C) ==
    /\ \A i \in DOMAIN s :
            /\ handle[s[i].callback].id = s[i].id
            /\ handle[s[i].callback].status = "held" \/ ended
    /\ \A i, j \in DOMAIN s : i < j => s[i].id < s[j].id
    /\ \A c \in C : handle[c].status = "held" => \E i \in DOMAIN s : s[i].callback = c

Listed ==
    /\ Numbered
    /\ Lists(registry.events, EventCallbacks)
    /\ Lists(registry.states, StateCallbacks)

\* The copies still to run are in the order of their ids, and behind those that
\* have been called with this report.
LeftInOrder ==
    /\ \A i \in DOMAIN left : handle[left[i]].status # "none"
    /\ \A i, j \in DOMAIN left : i < j => handle[left[i]].id < handle[left[j]].id
    /\ \A i \in DOMAIN left, d \in Callers :
            Len(log) \in ToSet(ran[d]) => handle[d].id < handle[left[i]].id

Called == CalledWhenDue /\ LeftInOrder

\* What the channel has had are events, written before, in order, and the one
\* under way only when its callbacks have run.
Written ==
    /\ \A n \in DOMAIN log : n <= visible[log[n].kind]
    /\ Increasing(channel)
    /\ \A i \in DOMAIN channel :
            /\ channel[i] \in DOMAIN log /\ log[channel[i]].kind = "event"
            /\ at # "idle" => channel[i] < Len(log)

\* What a stream at the place p has yielded is from the events sent before that
\* place, in order, and all of them but those it was not there for or too late.
Follows(events, p, yielded) ==
    /\ p.next <= Len(events)
    /\ \A i \in DOMAIN yielded : \E k \in 1 .. p.next : yielded[i] = events[k]
    /\ Increasing(yielded)
    /\ \A n \in 1 .. p.next :
            n > Len(events) - Capacity /\ n > p.from => events[n] \in ToSet(yielded)

Sent ==
    /\ Written
    /\ \A s \in Streams :
            /\ Follows(channel, stream[s], heard[s])
            /\ stream[s].status = "over" => ended /\ stream[s].next = Len(channel)

IInv == Types /\ Control /\ Listed /\ Called /\ Sent

----------------------------------------------------------------------------
(* ReportForms.                                                                *)

\* The kinds of reports.
LEMMA ReportKinds ==
    ASSUME NEW r \in ReportForms
    PROVE  r.kind \in {"event", "state"}
BY DEF ReportForms

\* The last report is one.
LEMMA LastReport ==
    ASSUME Types, log # <<>>
    PROVE  /\ Len(log) \in Nat /\ Len(log) > 0 /\ Len(log) \in DOMAIN log
           /\ Last(log) = log[Len(log)] /\ Last(log) \in ReportForms
<1>1. log \in Seq(ReportForms)
  BY DEF Types
<1>2. Len(log) \in Nat /\ Len(log) > 0 /\ DOMAIN log = 1 .. Len(log)
  BY <1>1, EmptySeq, LenProperties
<1>3. Len(log) \in DOMAIN log
  BY <1>2
<1> QED
  BY <1>1, <1>2, <1>3, ElementOfSeq DEF Last

\* Copied counts reports.
LEMMA CopiedReports ==
    ASSUME Types, Control
    PROVE  /\ Copied \in Nat /\ Copied <= Len(log)
           /\ at = "copy" => Copied = Len(log) - 1
           /\ at # "copy" => Copied = Len(log)
<1>1. Len(log) \in Nat
  BY LenProperties DEF Types
<1>2. CASE at = "copy"
  BY <1>2, <1>1, LastReport DEF Copied, Control
<1>3. CASE at # "copy"
  BY <1>1, <1>3 DEF Copied
<1> QED
  BY <1>2, <1>3

----------------------------------------------------------------------------
(* What the variables hold.                                                *)

\* A registry with other lists is one.
LEMMA RegistryWith ==
    ASSUME NEW r \in Registries, NEW n \in Nat, NEW x \in Seq(Registrations(EventCallbacks)),
           NEW y \in Seq(Registrations(StateCallbacks)), NEW q,
           q = [r EXCEPT !.nextId = n, !.events = x, !.states = y]
    PROVE  q \in Registries
<1> PICK E : E = Seq(Registrations(EventCallbacks))
  OBVIOUS
<1> PICK S : S = Seq(Registrations(StateCallbacks))
  OBVIOUS
<1>1. r \in [nextId : Nat, events : E, states : S] /\ x \in E /\ y \in S
  BY Zenon DEF Registries
<1>2. q \in [nextId : Nat, events : E, states : S]
  BY <1>1
<1> QED
  BY <1>2, Zenon DEF Registries

\* A registration joins the list of its kind.
LEMMA PushTyped ==
    ASSUME Types, NEW c \in Callers, NEW e, e = [id |-> registry.nextId, callback |-> c],
           NEW r, r = Push(registry, c)
    PROVE  /\ r \in Registries /\ r.nextId = registry.nextId + 1
           /\ c \in EventCallbacks => r.events = Append(registry.events, e) /\ r.states = registry.states
           /\ c \notin EventCallbacks =>
                r.states = Append(registry.states, e) /\ r.events = registry.events
<1>1. registry \in Registries
  BY DEF Types, Registries
<1>2. CASE c \in EventCallbacks
  <2>1. e \in Registrations(EventCallbacks)
    BY <1>1, <1>2 DEF Registrations, Registries
  <2>2. Append(registry.events, e) \in Seq(Registrations(EventCallbacks))
    BY <1>1, <2>1, AppendProperties DEF Registries
  <2>3. r = [registry EXCEPT !.nextId = registry.nextId + 1, !.events = Append(registry.events, e)]
    BY <1>1, <1>2 DEF Push, AllocCallbackId
  <2>4. r \in Registries
    <3> PICK list : list = Append(registry.events, e)
      OBVIOUS
    <3>1. /\ registry.events \in Seq(Registrations(EventCallbacks)) /\ registry.nextId + 1 \in Nat
          /\ registry.states \in Seq(Registrations(StateCallbacks))
      BY <1>1 DEF Registries
    <3>2. r = [registry EXCEPT !.nextId = registry.nextId + 1,
                               !.events = list,
                               !.states = registry.states]
      BY <1>1, <2>3 DEF Registries
    <3> QED
      BY <1>1, <2>2, <3>1, <3>2, RegistryWith
  <2>5. /\ r.nextId = registry.nextId + 1 /\ r.states = registry.states
        /\ r.events = Append(registry.events, e)
    <3>1. registry = [nextId |-> registry.nextId, events |-> registry.events,
                      states |-> registry.states]
      BY <1>1 DEF Registries
    <3> QED
      BY <2>3, <3>1, Zenon
  <2> QED
    BY <1>2, <2>4, <2>5, Zenon
<1>3. CASE c \notin EventCallbacks
  <2>1. e \in Registrations(StateCallbacks)
    BY <1>1, <1>3 DEF Registrations, Callers, Registries
  <2>2. Append(registry.states, e) \in Seq(Registrations(StateCallbacks))
    BY <1>1, <2>1, AppendProperties DEF Registries
  <2>3. r = [registry EXCEPT !.nextId = registry.nextId + 1, !.states = Append(registry.states, e)]
    BY <1>1, <1>3 DEF Push, AllocCallbackId
  <2>4. r \in Registries
    <3> PICK list : list = Append(registry.states, e)
      OBVIOUS
    <3>1. /\ registry.events \in Seq(Registrations(EventCallbacks)) /\ registry.nextId + 1 \in Nat
          /\ registry.states \in Seq(Registrations(StateCallbacks))
      BY <1>1 DEF Registries
    <3>2. r = [registry EXCEPT !.nextId = registry.nextId + 1,
                               !.events = registry.events,
                               !.states = list]
      BY <1>1, <2>3 DEF Registries
    <3> QED
      BY <1>1, <2>2, <3>1, <3>2, RegistryWith
  <2>5. /\ r.nextId = registry.nextId + 1 /\ r.events = registry.events
        /\ r.states = Append(registry.states, e)
    <3>1. registry = [nextId |-> registry.nextId, events |-> registry.events,
                      states |-> registry.states]
      BY <1>1 DEF Registries
    <3> QED
      BY <2>3, <3>1, Zenon
  <2> QED
    BY <1>3, <2>4, <2>5, Zenon
<1> QED
  BY <1>2, <1>3

\* Those of a list that have another id than the one given.
Others(s, id) == Subsequence(s, {i \in DOMAIN s : s[i].id # id})

\* Removing an id removes it from both lists and does nothing else.
LEMMA UnlistTyped ==
    ASSUME Types, NEW id, NEW r, r = Unlist(registry, id)
    PROVE  /\ r \in Registries /\ r.nextId = registry.nextId
           /\ r.events = Others(registry.events, id) /\ r.states = Others(registry.states, id)
<1>1. registry \in Registries
  BY DEF Types
<1>2. /\ Others(registry.events, id) \in Seq(Registrations(EventCallbacks))
      /\ Others(registry.states, id) \in Seq(Registrations(StateCallbacks))
  BY <1>1, SubsequenceParts DEF Others, Registries
<1>3. r = [registry EXCEPT !.events = Others(registry.events, id),
                             !.states = Others(registry.states, id)]
  BY <1>1 DEF Unlist, Others
<1> HIDE DEF Others
<1> QED
  BY <1>1, <1>2, <1>3 DEF Registries

\* Registering changes the registry and the handle.
LEMMA RegisterTypes ==
    ASSUME Types, Control, NEW c \in Callers, Register(c)
    PROVE  Types' /\ Control'
<1>1. /\ registry' = Push(registry, c) /\ AllocCallbackId(registry, c) = registry.nextId
      /\ handle' = [handle EXCEPT ![c] = [status |-> "held", id |-> registry.nextId,
                                          from |-> Copied, upto |-> 0]]
      /\ UNCHANGED <<log, at, left, visible, channel, stream, heard, ended, ran>>
  BY DEF Register, AllocCallbackId, driver, reader
<1>2. registry' \in Registries
  BY <1>1, PushTyped
<1>3. registry.nextId \in Nat /\ Copied \in Nat
  BY CopiedReports DEF Types, Registries
<1>4. handle' \in [Callers -> Handles]
  BY <1>1, <1>3 DEF Types, Handles
<1> QED
  BY <1>1, <1>2, <1>4 DEF Types, Control

\* So does unregistering.
LEMMA UnregisterTypes ==
    ASSUME Types, Control, NEW c \in Callers, Unregister(c)
    PROVE  Types' /\ Control'
<1>1. /\ registry' = IF ended THEN registry ELSE Unlist(registry, handle[c].id)
      /\ handle' = [handle EXCEPT ![c].status = "dropped", ![c].upto = Copied]
      /\ UNCHANGED <<log, at, left, visible, channel, stream, heard, ended, ran>>
  BY DEF Unregister, driver, reader
<1>2. registry' \in Registries
  <2>1. registry \in Registries
    BY DEF Types
  <2>2. CASE ended
    BY <1>1, <2>1, <2>2
  <2>3. CASE ~ended
    BY <1>1, <2>3, UnlistTyped
  <2> QED
    BY <2>2, <2>3
<1>3. handle' \in [Callers -> Handles]
  <2> PICK h : h = [handle[c] EXCEPT !.status = "dropped", !.upto = Copied]
    OBVIOUS
  <2>1. handle \in [Callers -> Handles] /\ handle[c] \in Handles /\ Copied \in Nat
    BY CopiedReports DEF Types
  <2>2. h \in Handles
    BY <2>1 DEF Handles
  <2>3. handle' = [handle EXCEPT ![c] = h]
    BY <1>1, <2>1
  <2> QED
    BY <2>1, <2>2, <2>3
<1> QED
  BY <1>1, <1>2, <1>3 DEF Types, Control

\* Streams change where they are and what they have yielded.
LEMMA StreamTypes ==
    ASSUME Types, Control, NEW s \in Streams, Subscribe(s) \/ Read(s)
    PROVE  Types' /\ Control'
<1>1. /\ channel \in Seq(Nat) /\ Len(channel) \in Nat
      /\ stream \in [Streams -> Places] /\ heard \in [Streams -> Seq(Nat)]
      /\ heard[s] \in Seq(Nat) /\ stream[s] \in Places /\ stream[s].next \in Nat
  BY LenProperties DEF Types, Places
<1>2. UNCHANGED <<registry, handle, log, at, left, visible, channel, ended, ran>>
  BY DEF Subscribe, Read, app, driver
<1>3. stream' \in [Streams -> Places] /\ heard' \in [Streams -> Seq(Nat)]
  <2>1. CASE Subscribe(s)
    BY <1>1, <2>1 DEF Subscribe, Places
  <2>2. CASE Lagged(s) /\ Lag(s)
    <3>1. Len(channel) - Capacity \in Nat
      BY <1>1, <2>2 DEF Lagged
    <3> QED
      BY <1>1, <2>2, <3>1 DEF Lag, Places
  <2>3. CASE /\ stream[s].next < Len(channel)
             /\ stream' = [stream EXCEPT ![s].next = @ + 1]
             /\ heard' = [heard EXCEPT ![s] = Append(@, channel[stream[s].next + 1])]
    <3>1. stream[s].next + 1 \in 1 .. Len(channel)
      BY <1>1, <2>3
    <3>2. channel[stream[s].next + 1] \in Nat
      BY <1>1, <3>1, ElementOfSeq
    <3>3. Append(heard[s], channel[stream[s].next + 1]) \in Seq(Nat)
      BY <1>1, <3>2, AppendProperties
    <3>4. stream' \in [Streams -> Places]
      <4> PICK o : o = stream[s]
        OBVIOUS
      <4> PICK p : p = [o EXCEPT !.next = o.next + 1]
        OBVIOUS
      <4>1. p \in Places
        <5>1. o \in Places
          BY <1>1
        <5> QED
          BY <5>1 DEF Places
      <4>2. stream' = [stream EXCEPT ![s] = p]
        BY <1>1, <2>3
      <4> QED
        BY <1>1, <4>1, <4>2
    <3> QED
      BY <1>1, <2>3, <3>3, <3>4
  <2>4. CASE stream' = [stream EXCEPT ![s].status = "over"] /\ UNCHANGED heard
    BY <1>1, <2>4 DEF Places
  <2> QED
    BY <2>1, <2>2, <2>3, <2>4 DEF Read
<1> QED
  BY <1>2, <1>3 DEF Types, Control

\* What is written about a report is where its kind is looked up.
LEMMA WriteTyped ==
    ASSUME Types, NEW r \in ReportForms
    PROVE  /\ Write(r) \in [event : Nat, state : Nat]
           /\ Write(r)[r.kind] = Len(log) + 1
           /\ \A k \in {"event", "state"} : k # r.kind => Write(r)[k] = visible[k]
<1>1. visible \in [event : Nat, state : Nat] /\ Len(log) \in Nat
  BY LenProperties DEF Types
<1>2. CASE r.kind = "event"
  BY <1>1, <1>2 DEF Write
<1>3. CASE r.kind = "state"
  BY <1>1, <1>3 DEF Write
<1> QED
  BY <1>2, <1>3, ReportKinds

\* Reporting adds a report.
LEMMA ReportTypes ==
    ASSUME Types, Control, NEW r \in ReportForms, Report(r)
    PROVE  Types' /\ Control'
<1>1. /\ ~ended /\ log' = Append(log, r) /\ visible' = Write(r) /\ at' = "copy" /\ at = "idle"
      /\ UNCHANGED <<registry, handle, left, channel, stream, heard, ended, ran>>
  BY DEF Report, app, reader
<1>2. log' \in Seq(ReportForms) /\ log' # <<>>
  BY <1>1, AppendElements DEF Types
<1>3. visible' \in [event : Nat, state : Nat]
  BY <1>1, WriteTyped
<1>4. left = <<>>
  BY <1>1 DEF Control
<1> QED
  BY <1>1, <1>2, <1>3, <1>4 DEF Types, Control

\* What is reported is a report.
LEMMA ReportsMade ==
    ASSUME Types, EmitEvent \/ Publish
    PROVE  \E r \in ReportForms : Report(r)
<1>1. CASE EmitEvent
  <2>1. Len(log) \in Nat /\ Len(log) < MaxReports
    BY <1>1, LenProperties DEF EmitEvent, Report, Types
  <2>2. Len(log) + 1 \in 1 .. Len(Payloads) /\ DOMAIN Payloads = 1 .. Len(Payloads)
    BY <2>1, LenProperties
  <2>3. Payloads[Len(log) + 1] \in Range(Payloads)
    BY <2>2 DEF Range
  <2>4. [kind |-> "event", payload |-> Payloads[Len(log) + 1]] \in ReportForms
    BY <2>3 DEF ReportForms
  <2> QED
    BY <1>1, <2>4 DEF EmitEvent
<1>2. CASE Publish
  BY <1>2 DEF Publish, ReportForms
<1> QED
  BY <1>1, <1>2

\* The list of the registry that the last report is for, and whose it is.
Current == IF Last(log).kind = "event" THEN registry.events ELSE registry.states

CurrentCallbacks == IF Last(log).kind = "event" THEN EventCallbacks ELSE StateCallbacks

\* What is copied are the callbacks of that list, in its order.
LEMMA CopyEffect ==
    ASSUME Types, Copy
    PROVE  /\ Current \in Seq(Registrations(CurrentCallbacks)) /\ CurrentCallbacks \subseteq Callers
           /\ left' \in Seq(Callers) /\ DOMAIN left' = DOMAIN Current
           /\ \A i \in DOMAIN Current : left'[i] = Current[i].callback
<1>1. Current \in Seq(Registrations(CurrentCallbacks)) /\ CurrentCallbacks \subseteq Callers
  BY DEF Current, CurrentCallbacks, Types, Registries, Callers
<1>2. left' = [i \in DOMAIN Current |-> Current[i].callback]
  BY DEF Copy, Current
<1> PICK entries : entries = Current
  OBVIOUS
<1>3. /\ Len(entries) \in Nat /\ DOMAIN entries = 1 .. Len(entries)
      /\ \A i \in DOMAIN entries : entries[i].callback \in Callers
  <2>1. entries \in Seq(Registrations(CurrentCallbacks))
    BY <1>1
  <2>2. \A i \in DOMAIN entries : entries[i] \in Registrations(CurrentCallbacks)
    BY <2>1, ElementOfSeq, LenProperties
  <2>3. \A i \in DOMAIN entries : entries[i].callback \in Callers
    BY <1>1, <2>2 DEF Registrations
  <2> QED
    BY <2>1, <2>3, LenProperties
<1>4. left' \in Seq(Callers)
  BY <1>2, <1>3, IsASeq
<1> QED
  BY <1>1, <1>2, <1>4

\* The driver's steps behind a report.
LEMMA DriverTypes ==
    ASSUME Types, Control, Copy \/ RunCallback \/ Finish \/ End
    PROVE  Types' /\ Control'
<1>1. CASE Copy
  BY <1>1, CopyEffect DEF Copy, Types, Control, app, reader
<1>2. CASE RunCallback
  <2>1. left \in Seq(Callers) /\ left # <<>> /\ at = "run" /\ log # <<>>
    BY <1>2 DEF RunCallback, Types, Control
  <2>2. left' \in Seq(Callers) /\ Head(left) \in Callers
    BY <1>2, <2>1, TailElements DEF RunCallback
  <2>3. ran' \in [Callers -> Seq(Nat)]
    <3> PICK c : c = Head(left)
      OBVIOUS
    <3>1. c \in Callers /\ ran \in [Callers -> Seq(Nat)] /\ Len(log) \in Nat
      BY <2>1, <2>2, LastReport DEF Types
    <3>2. Append(ran[c], Len(log)) \in Seq(Nat)
      BY <3>1, AppendProperties
    <3>3. ran' = ran \/ ran' = [ran EXCEPT ![c] = Append(ran[c], Len(log))]
      BY <1>2 DEF RunCallback
    <3> QED
      BY <3>1, <3>2, <3>3
  <2> QED
    BY <1>2, <2>2, <2>3 DEF RunCallback, Types, Control, app, reader
<1>3. CASE Finish
  <2>1. channel' \in Seq(Nat)
    <3>1. channel \in Seq(Nat) /\ Len(log) \in Nat
      BY LenProperties DEF Types
    <3>2. Append(channel, Len(log)) \in Seq(Nat)
      BY <3>1, AppendProperties
    <3> QED
      BY <1>3, <3>1, <3>2 DEF Finish
  <2> QED
    BY <1>3, <2>1 DEF Finish, Types, Control, app, reader
<1>4. CASE End
  BY <1>4 DEF End, Types, Control, app, driver, reader
<1> QED
  BY <1>1, <1>2, <1>3, <1>4

----------------------------------------------------------------------------
(* The registry.                                                           *)

\* An application's step does not change how many reports have been copied, and
\* the driver's do not make it fewer.
LEMMA CopiedGrows ==
    ASSUME Types, Control, Types', Control',
           \/ UNCHANGED <<log, at>>
           \/ (EmitEvent \/ Publish) \/ RunCallback \/ Finish \/ End
    PROVE  Copied' = Copied
<1>0. Len(log) \in Nat
  BY LenProperties DEF Types
<1>1. CASE UNCHANGED <<log, at>>
  BY <1>1 DEF Copied
<1>2. CASE EmitEvent \/ Publish
  <2>1. PICK r \in ReportForms : Report(r)
    BY <1>2, ReportsMade
  <2>2. log' = Append(log, r) /\ at' = "copy" /\ at = "idle"
    BY <2>1 DEF Report
  <2>3. Len(log') = Len(log) + 1
    BY <2>2, AppendElements DEF Types
  <2> QED
    BY <1>0, <2>2, <2>3 DEF Copied
<1>3. CASE RunCallback
  BY <1>3 DEF RunCallback, Copied
<1>4. CASE Finish
  BY <1>4 DEF Finish, Copied
<1>5. CASE End
  BY <1>5 DEF End, Copied, driver
<1> QED
  BY <1>1, <1>2, <1>3, <1>4, <1>5

\* Copying completes a report.
LEMMA CopiedNext ==
    ASSUME Types, Control, Copy
    PROVE  Copied' = Copied + 1 /\ Copied' = Len(log) /\ Copied \in Nat /\ log' = log
<1>1. at = "copy" /\ at' = "run" /\ log' = log /\ log # <<>>
  BY DEF Copy, Control
<1>2. Len(log) \in Nat
  BY <1>1, LastReport
<1> QED
  BY <1>1, <1>2, CopiedReports DEF Copied

\* Whatever leaves registry and handles alone keeps them together.
LEMMA ListedStays ==
    ASSUME Types, Listed, UNCHANGED app, Copied \in Nat, Copied' \in Nat, Copied <= Copied',
           ended => ended'
    PROVE  Listed'
<1>1. registry' = registry /\ handle' = handle
  BY DEF app
<1>2. \A c \in Callers : handle[c].from \in Nat /\ handle[c].upto \in Nat
  BY DEF Types, Handles
<1>3. Numbered'
  <2>1. \A c \in Callers : handle[c].from <= Copied => handle[c].from <= Copied'
    BY <1>2
  <2>2. \A c \in Callers : handle[c].upto <= Copied => handle[c].upto <= Copied'
    BY <1>2
  <2> QED
    BY <1>1, <2>1, <2>2 DEF Listed, Numbered
<1>4. Lists(registry.events, EventCallbacks)' /\ Lists(registry.states, StateCallbacks)'
  BY <1>1 DEF Listed, Lists
<1> QED
  BY <1>3, <1>4 DEF Listed

\* Elements of a list are registrations.
LEMMA ListElements ==
    ASSUME NEW C, NEW s \in Seq(Registrations(C))
    PROVE  \A i \in DOMAIN s : s[i].callback \in C /\ s[i].id \in Nat /\ i \in Nat
<1>1. \A i \in DOMAIN s : s[i] \in Registrations(C) /\ i \in Nat
  BY ElementOfSeq, LenProperties
<1> QED
  BY <1>1 DEF Registrations

\* c gets a handle that is held, of an id not yet given out.
Registers(c) ==
    /\ ~ended /\ ~ended' /\ handle[c].status = "none"
    /\ handle'[c].status = "held" /\ handle'[c].id = registry.nextId
    /\ handle'[c].from = Copied
    /\ \A d \in Callers \ {c} : handle'[d] = handle[d]

\* A list that its newest member joins has who is registered.
LEMMA GrownList ==
    ASSUME Types, Numbered, NEW C, C \subseteq Callers, NEW s \in Seq(Registrations(C)),
           Lists(s, C), NEW c \in C, Registers(c),
           NEW e, e = [id |-> registry.nextId, callback |-> c], NEW t, t = Append(s, e)
    PROVE  Lists(t, C)'
<1> PICK m : m = Len(s) + 1
  OBVIOUS
<1> PICK n : n = registry.nextId
  OBVIOUS
<1>1. n \in Nat /\ e \in Registrations(C) /\ e.callback = c /\ e.id = n
  BY DEF Types, Registries, Registrations
<1>2. /\ DOMAIN t = DOMAIN s \cup {m} /\ m \notin DOMAIN s /\ t[m] = e
      /\ \A i \in DOMAIN s : t[i] = s[i]
  BY <1>1, AppendElements
<1>3. m \in Nat /\ \A i \in DOMAIN s : i \in Nat /\ i < m
  BY LenProperties
<1>4. \A i \in DOMAIN s : s[i].callback \in C /\ s[i].id \in Nat
  BY ListElements
<1>5. \A i \in DOMAIN s : /\ s[i].callback # c /\ handle[s[i].callback].status = "held"
                          /\ handle[s[i].callback].id = s[i].id /\ s[i].id < n
  BY <1>4 DEF Lists, Registers, Numbered
<1>6. \A i \in DOMAIN s : handle'[s[i].callback] = handle[s[i].callback]
  BY <1>4, <1>5 DEF Registers
<1>7. \A i \in DOMAIN t : /\ handle'[t[i].callback].id = t[i].id
                          /\ handle'[t[i].callback].status = "held"
  BY <1>1, <1>2, <1>5, <1>6 DEF Registers
<1>8. \A i, j \in DOMAIN t : i < j => t[i].id < t[j].id
  <2> SUFFICES ASSUME NEW i \in DOMAIN t, NEW j \in DOMAIN t, i < j PROVE t[i].id < t[j].id
    OBVIOUS
  <2>1. i \in DOMAIN s
    BY <1>2, <1>3
  <2>2. CASE j \in DOMAIN s
    BY <1>2, <2>1, <2>2 DEF Lists
  <2>3. CASE j = m
    BY <1>1, <1>2, <1>5, <2>1, <2>3
  <2> QED
    BY <1>2, <2>2, <2>3
<1>9. \A d \in C : handle'[d].status = "held" => \E i \in DOMAIN t : t[i].callback = d
  <2> SUFFICES ASSUME NEW d \in C, handle'[d].status = "held"
               PROVE  \E i \in DOMAIN t : t[i].callback = d
    OBVIOUS
  <2>1. CASE d = c
    BY <1>1, <1>2, <2>1
  <2>2. CASE d # c
    <3>1. handle[d].status = "held"
      BY <2>2 DEF Registers
    <3>2. PICK i \in DOMAIN s : s[i].callback = d
      BY <3>1 DEF Lists
    <3> QED
      BY <1>2, <3>2
  <2> QED
    BY <2>1, <2>2
<1> QED
  BY <1>7, <1>8, <1>9 DEF Lists

\* The other list still has who is registered.
LEMMA SameList ==
    ASSUME NEW C, C \subseteq Callers, NEW s \in Seq(Registrations(C)), Lists(s, C),
           NEW c \in Callers \ C, \A d \in Callers \ {c} : handle'[d] = handle[d],
           ended' = ended
    PROVE  Lists(s, C)'
<1>1. \A i \in DOMAIN s : s[i].callback \in C
  BY ListElements
<1>2. \A d \in C : handle'[d] = handle[d]
  OBVIOUS
<1> QED
  BY <1>1, <1>2 DEF Lists

\* Registering keeps registry and handles together.
LEMMA RegisterListed ==
    ASSUME Types, Control, Listed, NEW c \in Callers, Register(c), Copied' = Copied
    PROVE  Listed'
<1> PICK e : e = [id |-> registry.nextId, callback |-> c]
  OBVIOUS
<1> PICK r : r = registry'
  OBVIOUS
<1>1. /\ r = Push(registry, c) /\ handle[c].status = "none" /\ ~ended /\ ended' = ended
      /\ handle' = [handle EXCEPT ![c] = [status |-> "held", id |-> registry.nextId,
                                          from |-> Copied, upto |-> 0]]
  BY DEF Register, AllocCallbackId
<1>2. /\ registry.events \in Seq(Registrations(EventCallbacks)) /\ registry.nextId \in Nat
      /\ registry.states \in Seq(Registrations(StateCallbacks))
      /\ handle \in [Callers -> Handles] /\ Copied \in Nat
  BY CopiedReports DEF Types, Registries
<1>3. /\ r.nextId = registry.nextId + 1
      /\ c \in EventCallbacks => r.events = Append(registry.events, e) /\ r.states = registry.states
      /\ c \notin EventCallbacks =>
            r.states = Append(registry.states, e) /\ r.events = registry.events
  BY <1>1, PushTyped
<1>4. Registers(c)
  BY <1>1, <1>2 DEF Registers
<1>5. \A d \in Callers : handle[d].id \in Nat /\ handle[d].from \in Nat
  BY <1>2 DEF Handles
<1>6. Numbered'
  <2>1. registry'.nextId = registry.nextId + 1
    BY <1>3
  <2>2. ASSUME NEW d \in Callers, handle'[d].status # "none"
        PROVE  handle'[d].id < registry'.nextId /\ handle'[d].from <= Copied
    <3>1. CASE d = c
      BY <1>2, <1>4, <2>1, <3>1 DEF Registers
    <3>2. CASE d # c
      <4>1. handle'[d] = handle[d]
        BY <1>4, <3>2 DEF Registers
      <4>2. handle[d].id < registry.nextId /\ handle[d].from <= Copied
        BY <2>2, <4>1 DEF Listed, Numbered
      <4> QED
        BY <1>2, <1>5, <2>1, <4>1, <4>2
    <3> QED
      BY <3>1, <3>2
  <2>3. \A d \in Callers : handle'[d].status = "dropped" => handle'[d].upto <= Copied
    BY <1>4 DEF Registers, Listed, Numbered
  <2>4. ASSUME NEW d \in Callers, NEW f \in Callers, handle'[d].status # "none",
               handle'[f].status # "none", handle'[d].id = handle'[f].id
        PROVE  d = f
    <3>1. \A x \in Callers \ {c} : handle'[x].status # "none" => handle'[x].id # registry.nextId
      BY <1>2, <1>4, <1>5 DEF Registers, Listed, Numbered
    <3>2. CASE d = c \/ f = c
      BY <1>4, <2>4, <3>1, <3>2 DEF Registers
    <3>3. CASE d # c /\ f # c
      BY <1>4, <2>4, <3>3 DEF Registers, Listed, Numbered
    <3> QED
      BY <3>2, <3>3
  <2> QED
    BY <2>2, <2>3, <2>4 DEF Numbered
<1>7. Lists(r.events, EventCallbacks)' /\ Lists(r.states, StateCallbacks)'
  <2> PICK x : x = registry.events
    OBVIOUS
  <2> PICK y : y = registry.states
    OBVIOUS
  <2>1. /\ x \in Seq(Registrations(EventCallbacks)) /\ Lists(x, EventCallbacks)
        /\ y \in Seq(Registrations(StateCallbacks)) /\ Lists(y, StateCallbacks) /\ Numbered
    BY <1>2 DEF Listed
  <2>2. /\ EventCallbacks \subseteq Callers /\ StateCallbacks \subseteq Callers
        /\ EventCallbacks \cap StateCallbacks = {}
    BY DEF Callers
  <2>3. \A d \in Callers \ {c} : handle'[d] = handle[d]
    BY <1>4 DEF Registers
  <2>4. CASE c \in EventCallbacks
    <3> PICK t : t = Append(x, e)
      OBVIOUS
    <3>1. Lists(t, EventCallbacks)'
      BY <1>4, <2>1, <2>2, <2>4, GrownList
    <3>2. Lists(y, StateCallbacks)'
      BY <1>1, <2>1, <2>2, <2>3, <2>4, SameList
    <3>3. r.events = t /\ r.states = y
      BY <1>3, <2>4
    <3> QED
      BY <3>1, <3>2, <3>3, Zenon
  <2>5. CASE c \notin EventCallbacks
    <3> PICK t : t = Append(y, e)
      OBVIOUS
    <3>0. c \in StateCallbacks
      BY <2>5 DEF Callers
    <3>1. Lists(t, StateCallbacks)'
      BY <1>4, <2>1, <2>2, <3>0, GrownList
    <3>2. Lists(x, EventCallbacks)'
      BY <1>1, <2>1, <2>2, <2>3, <2>5, SameList
    <3>3. r.events = x /\ r.states = t
      BY <1>3, <2>5
    <3> QED
      BY <3>1, <3>2, <3>3, Zenon
  <2> QED
    BY <2>4, <2>5
<1>8. Lists(registry.events, EventCallbacks)' /\ Lists(registry.states, StateCallbacks)'
  BY <1>7 DEF Lists
<1> QED
  BY <1>6, <1>8 DEF Listed

\* c's handle is dropped, and keeps its id.
Unregisters(c) ==
    /\ handle[c].status = "held" /\ handle'[c].status = "dropped"
    /\ handle'[c].id = handle[c].id /\ handle'[c].from = handle[c].from
    /\ handle'[c].upto = Copied
    /\ \A d \in Callers \ {c} : handle'[d] = handle[d]

\* A list from which an id is removed has who is still registered.
LEMMA ShrunkList ==
    ASSUME Types, Numbered, NEW C, C \subseteq Callers, NEW s \in Seq(Registrations(C)),
           Lists(s, C), NEW c \in Callers, Unregisters(c), ~ended,
           NEW t, t = Others(s, handle[c].id)
    PROVE  Lists(t, C)'
<1> PICK J : J = {i \in DOMAIN s : s[i].id # handle[c].id}
  OBVIOUS
<1>1. t = Subsequence(s, J)
  BY DEF Others
<1>2. ToSet(t) = {s[j] : j \in J \cap DOMAIN s} /\ InOrderOf(t, s)
  BY <1>1, SubsequenceParts, SubsequenceOrder
<1>3. t \in Seq(Registrations(C))
  BY <1>1, SubsequenceParts
<1>4. \A i \in DOMAIN s : s[i].callback \in C /\ s[i].id \in Nat /\ i \in Nat
  BY ListElements
<1>5. \A i \in DOMAIN t : \E j \in DOMAIN s : s[j].id # handle[c].id /\ t[i] = s[j]
  <2> SUFFICES ASSUME NEW i \in DOMAIN t
               PROVE  \E j \in DOMAIN s : s[j].id # handle[c].id /\ t[i] = s[j]
    OBVIOUS
  <2>1. t[i] \in ToSet(t)
    BY Zenon DEF ToSet
  <2>2. PICK j \in J \cap DOMAIN s : t[i] = s[j]
    BY <1>2, <2>1, Zenon
  <2> QED
    BY <2>2
<1>6. ASSUME NEW i \in DOMAIN t
      PROVE  handle'[t[i].callback].id = t[i].id /\ handle'[t[i].callback].status = "held"
  <2>1. PICK j \in DOMAIN s : s[j].id # handle[c].id /\ t[i] = s[j]
    BY <1>5
  <2>2. handle[s[j].callback].id = s[j].id /\ handle[s[j].callback].status = "held"
    BY DEF Lists
  <2>3. s[j].callback # c /\ s[j].callback \in Callers
    BY <1>4, <2>1, <2>2
  <2> QED
    BY <2>1, <2>2, <2>3 DEF Unregisters
<1>7. \A i, j \in DOMAIN t : i < j => t[i].id < t[j].id
  <2>1. PICK g \in [DOMAIN t -> DOMAIN s] : /\ \A i \in DOMAIN t : t[i] = s[g[i]]
                                            /\ \A i, j \in DOMAIN t : i < j => g[i] < g[j]
    BY <1>2 DEF InOrderOf
  <2> SUFFICES ASSUME NEW i \in DOMAIN t, NEW j \in DOMAIN t, i < j PROVE t[i].id < t[j].id
    OBVIOUS
  <2>2. g[i] \in DOMAIN s /\ g[j] \in DOMAIN s /\ g[i] < g[j]
    BY <2>1
  <2>3. s[g[i]].id < s[g[j]].id
    BY <2>2 DEF Lists
  <2> QED
    BY <2>1, <2>3
<1>8. ASSUME NEW d \in C, handle'[d].status = "held" PROVE \E i \in DOMAIN t : t[i].callback = d
  <2>1. d # c /\ handle[d].status = "held"
    BY <1>8 DEF Unregisters
  <2>2. PICK j \in DOMAIN s : s[j].callback = d
    BY <2>1 DEF Lists
  <2>3. s[j].id = handle[d].id
    BY <2>2 DEF Lists
  <2>4. handle[d].id # handle[c].id
    BY <2>1 DEF Numbered, Unregisters
  <2>5. j \in J \cap DOMAIN s
    BY <2>3, <2>4
  <2>6. s[j] \in ToSet(t)
    BY <1>2, <2>5, Zenon
  <2>7. PICK i \in DOMAIN t : t[i] = s[j]
    BY <2>6, Zenon DEF ToSet
  <2> QED
    BY <2>2, <2>7
<1> QED
  BY <1>6, <1>7, <1>8 DEF Lists

\* Once the driver has ended, what the lists have no longer matters.
LEMMA DeadList ==
    ASSUME NEW C, C \subseteq Callers, NEW s \in Seq(Registrations(C)), Lists(s, C),
           NEW c \in Callers, Unregisters(c), ended'
    PROVE  Lists(s, C)'
<1>1. \A i \in DOMAIN s : s[i].callback \in C
  BY ListElements
<1>2. \A d \in Callers : /\ handle'[d].id = handle[d].id
                         /\ handle'[d].status = "held" => handle[d].status = "held"
  BY DEF Unregisters
<1> QED
  BY <1>1, <1>2 DEF Lists

\* Unregistering keeps registry and handles together.
LEMMA UnregisterListed ==
    ASSUME Types, Control, Listed, NEW c \in Callers, Unregister(c), Copied' = Copied
    PROVE  Listed'
<1> PICK r : r = registry'
  OBVIOUS
<1>1. /\ handle[c].status = "held" /\ ended' = ended
      /\ r = IF ended THEN registry ELSE Unlist(registry, handle[c].id)
      /\ handle' = [handle EXCEPT ![c].status = "dropped", ![c].upto = Copied]
  BY DEF Unregister
<1>2. /\ registry.events \in Seq(Registrations(EventCallbacks)) /\ registry.nextId \in Nat
      /\ registry.states \in Seq(Registrations(StateCallbacks))
      /\ handle \in [Callers -> Handles] /\ Copied \in Nat
  BY CopiedReports DEF Types, Registries
<1>3. Unregisters(c)
  <2>1. handle[c] \in Handles
    BY <1>2
  <2>2. handle' = [handle EXCEPT ![c] = [handle[c] EXCEPT !.status = "dropped", !.upto = Copied]]
    BY <1>1, <1>2
  <2>3. handle'[c] = [handle[c] EXCEPT !.status = "dropped", !.upto = Copied]
    BY <1>2, <2>2
  <2> QED
    BY <1>1, <1>2, <2>1, <2>2, <2>3 DEF Unregisters, Handles
<1>4. r.nextId = registry.nextId
  BY <1>1, UnlistTyped
<1>5. Numbered'
  <2>1. registry'.nextId = registry.nextId
    BY <1>4
  <2>2. \A d \in Callers : /\ handle'[d].id = handle[d].id /\ handle'[d].from = handle[d].from
                           /\ handle'[d].status # "none" => handle[d].status # "none"
    BY <1>3 DEF Unregisters
  <2>3. \A d \in Callers : handle'[d].status = "dropped" => handle'[d].upto <= Copied
    BY <1>2, <1>3 DEF Unregisters, Listed, Numbered
  <2> QED
    BY <2>1, <2>2, <2>3 DEF Listed, Numbered
<1>6. Lists(r.events, EventCallbacks)' /\ Lists(r.states, StateCallbacks)'
  <2> PICK x : x = registry.events
    OBVIOUS
  <2> PICK y : y = registry.states
    OBVIOUS
  <2>1. /\ x \in Seq(Registrations(EventCallbacks)) /\ Lists(x, EventCallbacks)
        /\ y \in Seq(Registrations(StateCallbacks)) /\ Lists(y, StateCallbacks) /\ Numbered
    BY <1>2 DEF Listed
  <2>2. EventCallbacks \subseteq Callers /\ StateCallbacks \subseteq Callers
    BY DEF Callers
  <2>3. CASE ended
    <3>1. Lists(x, EventCallbacks)' /\ Lists(y, StateCallbacks)'
      BY <1>1, <1>3, <2>1, <2>2, <2>3, DeadList
    <3>2. r.events = x /\ r.states = y
      BY <1>1, <2>3
    <3> QED
      BY <3>1, <3>2, Zenon
  <2>4. CASE ~ended
    <3> PICK p : p = Others(x, handle[c].id)
      OBVIOUS
    <3> PICK q : q = Others(y, handle[c].id)
      OBVIOUS
    <3>1. Lists(p, EventCallbacks)'
      BY <1>3, <2>1, <2>2, <2>4, ShrunkList
    <3>2. Lists(q, StateCallbacks)'
      BY <1>3, <2>1, <2>2, <2>4, ShrunkList
    <3>3. r.events = p /\ r.states = q
      BY <1>1, <2>4, UnlistTyped
    <3> QED
      BY <3>1, <3>2, <3>3, Zenon
  <2> QED
    BY <2>3, <2>4
<1>7. Lists(registry.events, EventCallbacks)' /\ Lists(registry.states, StateCallbacks)'
  BY <1>6 DEF Lists
<1> QED
  BY <1>5, <1>7 DEF Listed

----------------------------------------------------------------------------
(* Callbacks.                                                              *)

\* Joining nothing and one.
LEMMA JoinOne ==
    ASSUME NEW s \in Seq(Nat), NEW n \in Nat
    PROVE  s \o <<>> = s /\ s \o <<n>> = Append(s, n)
<1>1. s \o <<>> = s
  BY ConcatEmptySeq
<1>2. s \o <<n>> = Append(s, n)
  OBVIOUS
<1> QED
  BY <1>1, <1>2

\* Appending a number.
LEMMA AppendNumber ==
    ASSUME NEW s \in Seq(Nat), NEW n \in Nat
    PROVE  /\ Append(s, n) \in Seq(Nat) /\ ToSet(Append(s, n)) = ToSet(s) \cup {n}
           /\ (\A x \in ToSet(s) : x < n) /\ Increasing(s) => Increasing(Append(s, n))
<1> DEFINE t == Append(s, n)
<1>1. /\ t \in Seq(Nat) /\ ToSet(t) = ToSet(s) \cup {n}
      /\ DOMAIN t = DOMAIN s \cup {Len(s) + 1} /\ Len(s) + 1 \notin DOMAIN s
      /\ t[Len(s) + 1] = n /\ \A i \in DOMAIN s : t[i] = s[i]
  BY AppendElements
<1> HIDE DEF t
<1>2. Len(s) \in Nat /\ \A i \in DOMAIN s : i \in Nat /\ i < Len(s) + 1 /\ s[i] \in Nat
  BY LenProperties, ElementOfSeq
<1>3. ASSUME \A x \in ToSet(s) : x < n, Increasing(s) PROVE Increasing(t)
  <2> SUFFICES ASSUME NEW i \in DOMAIN t, NEW j \in DOMAIN t, i < j PROVE t[i] < t[j]
    BY DEF Increasing
  <2>1. i \in DOMAIN s
    BY <1>1, <1>2
  <2>2. s[i] \in ToSet(s)
    BY <2>1, Zenon DEF ToSet
  <2>3. CASE j \in DOMAIN s
    BY <1>1, <1>3, <2>1, <2>3 DEF Increasing
  <2>4. CASE j \notin DOMAIN s
    BY <1>1, <1>3, <2>1, <2>2, <2>4
  <2> QED
    BY <2>3, <2>4
<1> QED
  BY <1>1, <1>3 DEF t

\* A callback that waits adds the report under way to its calls.
LEMMA CallsAre ==
    ASSUME Types, NEW c \in Callers
    PROVE  /\ ran[c] \in Seq(Nat) /\ Len(log) \in Nat /\ Calls(c) \in Seq(Nat)
           /\ Waiting(c) => Calls(c) = Append(ran[c], Len(log))
           /\ ~Waiting(c) => Calls(c) = ran[c]
<1> PICK n : n = Len(log)
  OBVIOUS
<1>1. ran[c] \in Seq(Nat) /\ n \in Nat
  BY LenProperties DEF Types
<1>2. ran[c] \o <<>> = ran[c] /\ ran[c] \o <<n>> = Append(ran[c], n)
  BY <1>1, JoinOne
<1>3. Append(ran[c], n) \in Seq(Nat)
  BY <1>1, AppendProperties
<1>4. CASE Waiting(c)
  <2>1. Calls(c) = ran[c] \o <<n>>
    BY <1>4 DEF Calls
  <2> QED
    BY <1>1, <1>2, <1>3, <1>4, <2>1, Zenon
<1>5. CASE ~Waiting(c)
  <2>1. Calls(c) = ran[c] \o <<>>
    BY <1>5 DEF Calls
  <2> QED
    BY <1>1, <1>2, <1>5, <2>1, Zenon
<1> QED
  BY <1>4, <1>5

\* Who waits has a copy still to run.
LEMMA WaitingIs ==
    ASSUME Types, NEW c \in Callers
    PROVE  Waiting(c) <=> c \in ToSet(left) /\ Takes(c, Last(log))
<1>1. left \in Seq(Callers) /\ DOMAIN left = 1 .. Len(left)
  BY LenProperties DEF Types
<1>2. Contains(left, c) <=> \E i \in DOMAIN left : left[i] = c
  BY <1>1, Zenon DEF Contains
<1>3. Contains(left, c) <=> c \in ToSet(left)
  BY <1>2 DEF ToSet
<1> QED
  BY <1>3 DEF Waiting

\* An empty queue of copies.
LEMMA NobodyWaits ==
    ASSUME Types, left = <<>>
    PROVE  LeftInOrder /\ \A c \in Callers : ~Waiting(c)
<1>1. DOMAIN left = {}
  BY EmptySeq
<1>2. ToSet(left) = {}
  BY <1>1 DEF ToSet
<1> QED
  BY <1>1, <1>2, WaitingIs DEF LeftInOrder

\* What concerns neither handles nor copies nor calls.
LEMMA CalledStays ==
    ASSUME Types, Called, UNCHANGED <<handle, log, left, ran>>, Copied' = Copied
    PROVE  Called'
<1>1. ASSUME NEW c \in Callers PROVE Calls(c)' = Calls(c) /\ Due(c)' = Due(c)
  <2>1. Waiting(c)' <=> Waiting(c)
    BY DEF Waiting, Takes
  <2>2. Calls(c)' = Calls(c)
    BY <2>1 DEF Calls
  <2>3. Due(c)' = Due(c)
    BY DEF Due, Takes
  <2> QED
    BY <2>2, <2>3
<1>2. CalledWhenDue'
  BY <1>1 DEF Called, CalledWhenDue, Increasing
<1>3. LeftInOrder'
  BY DEF Called, LeftInOrder
<1> QED
  BY <1>2, <1>3 DEF Called

\* The calls of a callback are among those due, and these have been copied.
LEMMA RanWasDue ==
    ASSUME Types, Control, CalledWhenDue, Numbered, NEW c \in Callers
    PROVE  /\ ToSet(ran[c]) \subseteq Due(c)
           /\ Due(c) \subseteq DOMAIN log
           /\ \A n \in Due(c) : n \in Nat /\ n <= Copied /\ handle[c].status # "none"
<1>1. ToSet(Calls(c)) = Due(c)
  BY DEF CalledWhenDue
<1>2. ToSet(ran[c]) \subseteq ToSet(Calls(c))
  <2>1. CASE Waiting(c)
    <3> PICK n : n = Len(log)
      OBVIOUS
    <3> PICK s : s = ran[c]
      OBVIOUS
    <3>1. s \in Seq(Nat) /\ n \in Nat /\ Calls(c) = Append(s, n)
      BY <2>1, CallsAre
    <3>2. ToSet(Append(s, n)) = ToSet(s) \cup {n}
      BY <3>1, AppendNumber
    <3> QED
      BY <3>1, <3>2
  <2>2. CASE ~Waiting(c)
    BY <2>2, CallsAre
  <2> QED
    BY <2>1, <2>2
<1>3. \A n \in DOMAIN log : n \in Nat
  BY LenProperties DEF Types
<1>4. Copied \in Nat /\ handle[c].upto \in Nat
  BY CopiedReports DEF Types, Handles
<1>5. handle[c].status = "dropped" => handle[c].upto <= Copied
  BY DEF Numbered
<1>6. Due(c) \subseteq DOMAIN log
  BY DEF Due
<1>7. ASSUME NEW n \in Due(c) PROVE n <= Copied /\ handle[c].status # "none"
  <2>1. handle[c].status # "none"
    BY DEF Due
  <2>2. n <= IF handle[c].status = "dropped" THEN handle[c].upto ELSE Copied
    BY <2>1 DEF Due
  <2> QED
    BY <1>3, <1>4, <1>5, <1>6, <2>1, <2>2
<1> QED
  BY <1>1, <1>2, <1>3, <1>6, <1>7

\* Who registers is due nothing, and has been called with nothing.
LEMMA RegisterCalled ==
    ASSUME Types, Control, Listed, Called, NEW c \in Callers, Register(c), Copied' = Copied
    PROVE  Called'
<1>1. /\ handle[c].status = "none" /\ UNCHANGED <<log, left, ran>>
      /\ handle'[c].status = "held" /\ handle'[c].from = Copied
      /\ \A d \in Callers \ {c} : handle'[d] = handle[d]
  BY DEF Register, driver, Types
<1>2. Copied \in Nat /\ \A n \in DOMAIN log : n \in Nat
  BY CopiedReports, LenProperties DEF Types
<1>3. Due(c) = {} /\ Due(c)' = {}
  <2>1. Due(c) = {}
    BY <1>1 DEF Due
  <2>2. Due(c)' = {n \in DOMAIN log : n > Copied /\ n <= Copied /\ Takes(c, log[n])}
    BY <1>1 DEF Due, Takes
  <2> QED
    BY <1>2, <2>1, <2>2
<1>4. \A d \in Callers : Due(d)' = Due(d)
  BY <1>1, <1>3 DEF Due, Takes
<1>5. \A d \in Callers : Calls(d)' = Calls(d)
  BY <1>1 DEF Calls, Waiting, Takes
<1>6. CalledWhenDue'
  BY <1>4, <1>5 DEF Called, CalledWhenDue, Increasing
<1>7. LeftInOrder'
  <2>1. \A i \in DOMAIN left : left[i] \in Callers /\ left[i] # c
    BY <1>1, ElementOfSeq, LenProperties DEF Types, Called, LeftInOrder
  <2>2. \A i \in DOMAIN left : handle'[left[i]] = handle[left[i]]
    BY <1>1, <2>1
  <2>3. \A d \in Callers : Len(log) \in ToSet(ran[d]) => handle'[d] = handle[d]
    <3>1. ToSet(ran[c]) = {}
      BY <1>3, RanWasDue DEF Called, Listed
    <3> QED
      BY <1>1, <3>1
  <2> QED
    BY <1>1, <2>2, <2>3 DEF Called, LeftInOrder
<1> QED
  BY <1>6, <1>7 DEF Called

\* Who unregisters is due what it was, and nothing more.
LEMMA UnregisterCalled ==
    ASSUME Types, Control, Called, NEW c \in Callers, Unregister(c), Copied' = Copied
    PROVE  Called'
<1>1. /\ handle[c].status = "held" /\ UNCHANGED <<log, left, ran>>
      /\ handle'[c].status = "dropped" /\ handle'[c].upto = Copied
      /\ \A d \in Callers : handle'[d].id = handle[d].id /\ handle'[d].from = handle[d].from
      /\ \A d \in Callers \ {c} : handle'[d] = handle[d]
  <2>1. handle \in [Callers -> Handles] /\ handle[c] \in Handles
    BY DEF Types
  <2>2. handle' = [handle EXCEPT ![c] = [handle[c] EXCEPT !.status = "dropped", !.upto = Copied]]
    BY <2>1 DEF Unregister
  <2>3. handle'[c] = [handle[c] EXCEPT !.status = "dropped", !.upto = Copied]
    BY <2>1, <2>2
  <2>4. /\ handle'[c].status = "dropped" /\ handle'[c].upto = Copied
        /\ handle'[c].id = handle[c].id /\ handle'[c].from = handle[c].from
    BY <2>1, <2>3 DEF Handles
  <2> QED
    BY <2>1, <2>2, <2>4 DEF Unregister, driver
<1>2. \A d \in Callers : Due(d)' = Due(d)
  BY <1>1 DEF Due, Takes
<1>3. \A d \in Callers : Calls(d)' = Calls(d)
  BY <1>1 DEF Calls, Waiting, Takes
<1>4. CalledWhenDue'
  BY <1>2, <1>3 DEF Called, CalledWhenDue, Increasing
<1>5. LeftInOrder'
  <2>1. \A i \in DOMAIN left : left[i] \in Callers /\ handle[left[i]].status # "none"
    BY ElementOfSeq, LenProperties DEF Types, Called, LeftInOrder
  <2>2. \A i \in DOMAIN left : /\ handle'[left[i]].id = handle[left[i]].id
                               /\ handle'[left[i]].status # "none"
    BY <1>1, <2>1
  <2> QED
    BY <1>1, <2>2 DEF Called, LeftInOrder
<1> QED
  BY <1>4, <1>5 DEF Called

\* A report is due to nobody before its callbacks are copied.
LEMMA ReportCalled ==
    ASSUME Types, Control, Listed, Called, NEW r \in ReportForms, Report(r), Types', Control',
           Copied' = Copied
    PROVE  Called'
<1>1. /\ log' = Append(log, r) /\ at = "idle" /\ UNCHANGED <<handle, left, ran>> /\ left = <<>>
  BY DEF Report, app, Control
<1>2. /\ DOMAIN log' = DOMAIN log \cup {Len(log) + 1} /\ Len(log) + 1 \notin DOMAIN log
      /\ \A n \in DOMAIN log : log'[n] = log[n]
  BY <1>1, AppendElements DEF Types
<1>3. Copied = Len(log) /\ Len(log) \in Nat
  BY <1>1, CopiedReports
<1>4. \A c \in Callers : /\ handle[c].upto \in Nat
                         /\ handle[c].status = "dropped" => handle[c].upto <= Copied
  BY DEF Types, Handles, Listed, Numbered
<1>5. ASSUME NEW c \in Callers PROVE Due(c)' = Due(c)
  <2> PICK upto : upto = IF handle[c].status = "dropped" THEN handle[c].upto ELSE Copied
    OBVIOUS
  <2>1. upto \in Nat /\ upto <= Len(log)
    BY <1>3, <1>4
  <2>2. Due(c) = IF handle[c].status = "none" THEN {}
                 ELSE {n \in DOMAIN log : n > handle[c].from /\ n <= upto /\ Takes(c, log[n])}
    BY DEF Due
  <2>3. Due(c)' = IF handle[c].status = "none" THEN {}
                  ELSE {n \in DOMAIN log' : n > handle[c].from /\ n <= upto /\ Takes(c, log'[n])}
    BY <1>1 DEF Due, Takes
  <2>4. ~(Len(log) + 1 <= upto)
    BY <1>3, <2>1
  <2> QED
    BY <1>2, <2>2, <2>3, <2>4
<1>6. ASSUME NEW c \in Callers PROVE Calls(c)' = Calls(c)
  <2>1. left' = <<>> /\ Len(<<>>) = 0
    BY <1>1
  <2>2. ~Waiting(c)'
    BY <2>1 DEF Waiting, Contains
  <2>3. ~Waiting(c)
    BY <1>1, NobodyWaits
  <2> QED
    BY <1>1, <2>2, <2>3 DEF Calls
<1>7. CalledWhenDue'
  BY <1>5, <1>6 DEF Called, CalledWhenDue, Increasing
<1>8. LeftInOrder'
  <2>1. DOMAIN left' = {}
    BY <1>1, EmptySeq
  <2> QED
    BY <2>1 DEF LeftInOrder
<1> QED
  BY <1>7, <1>8 DEF Called

\* Containment is membership.
LEMMA ContainsIs ==
    ASSUME NEW s \in Seq(Callers), NEW c
    PROVE  Contains(s, c) <=> c \in ToSet(s)
<1>1. DOMAIN s = 1 .. Len(s)
  BY LenProperties
<1>2. Contains(s, c) <=> \E i \in DOMAIN s : s[i] = c
  BY <1>1, Zenon DEF Contains
<1> QED
  BY <1>2 DEF ToSet

\* Containment of a number is membership.
LEMMA ContainedNumber ==
    ASSUME NEW s \in Seq(Nat), NEW c
    PROVE  Contains(s, c) <=> c \in ToSet(s)
<1>1. DOMAIN s = 1 .. Len(s)
  BY LenProperties
<1>2. Contains(s, c) <=> \E i \in DOMAIN s : s[i] = c
  BY <1>1, Zenon DEF Contains
<1> QED
  BY <1>2 DEF ToSet

\* The calls after a step, by who waits then.
LEMMA CallsNext ==
    ASSUME Types', NEW c \in Callers
    PROVE  /\ Waiting(c)' => Calls(c)' = Append(ran'[c], Len(log'))
           /\ ~Waiting(c)' => Calls(c)' = ran'[c]
           /\ Waiting(c)' <=> c \in ToSet(left') /\ Takes(c, Last(log'))
<1> PICK n : n = Len(log')
  OBVIOUS
<1>1. ran'[c] \in Seq(Nat) /\ n \in Nat
  BY LenProperties DEF Types
<1>2. ran'[c] \o <<>> = ran'[c] /\ ran'[c] \o <<n>> = Append(ran'[c], n)
  BY <1>1, JoinOne
<1>3. ASSUME Waiting(c)' PROVE Calls(c)' = Append(ran'[c], Len(log'))
  <2>1. Calls(c)' = ran'[c] \o <<n>>
    BY <1>3 DEF Calls
  <2> QED
    BY <1>2, <2>1, Zenon
<1>4. ASSUME ~Waiting(c)' PROVE Calls(c)' = ran'[c]
  <2>1. Calls(c)' = ran'[c] \o <<>>
    BY <1>4 DEF Calls
  <2> QED
    BY <1>2, <2>1, Zenon
<1>5. Waiting(c)' <=> c \in ToSet(left') /\ Takes(c, Last(log'))
  <2>1. left' \in Seq(Callers)
    BY DEF Types
  <2>2. Contains(left', c) <=> c \in ToSet(left')
    BY <2>1, ContainsIs
  <2>3. Waiting(c)' <=> Contains(left', c) /\ Takes(c, Last(log'))
    BY DEF Waiting, Takes
  <2> QED
    BY <2>2, <2>3, Zenon
<1> QED
  BY <1>3, <1>4, <1>5

\* The list that is copied is of those that are registered.
LEMMA CopiedList ==
    ASSUME Types, Control, Listed, Copy, Types'
    PROVE  /\ \A i \in DOMAIN left' :
                /\ left'[i] \in CurrentCallbacks /\ handle[left'[i]].status = "held"
                /\ handle[left'[i]].id = Current[i].id
           /\ \A i, j \in DOMAIN left' : i < j => Current[i].id < Current[j].id
           /\ \A c \in Callers : Takes(c, Last(log)) /\ handle[c].status = "held" => c \in ToSet(left')
<1> PICK list : list = Current
  OBVIOUS
<1> PICK C : C = CurrentCallbacks
  OBVIOUS
<1>1. /\ list \in Seq(Registrations(C)) /\ C \subseteq Callers
      /\ DOMAIN left' = DOMAIN list /\ \A i \in DOMAIN list : left'[i] = list[i].callback
  BY CopyEffect
<1>2. Lists(list, C)
  BY DEF Listed, Current, CurrentCallbacks
<1>3. ~ended
  BY DEF Copy, Control
<1>4. \A i \in DOMAIN list : list[i].callback \in C
  BY <1>1, ListElements
<1>5. ASSUME NEW c \in Callers, Takes(c, Last(log)), handle[c].status = "held"
      PROVE  c \in ToSet(left')
  <2>1. c \in C
    BY <1>5 DEF Takes, CurrentCallbacks
  <2>2. PICK i \in DOMAIN list : list[i].callback = c
    BY <1>2, <1>5, <2>1 DEF Lists
  <2>3. i \in DOMAIN left' /\ left'[i] = c
    BY <1>1, <2>2
  <2> QED
    BY <2>3, Zenon DEF ToSet
<1> QED
  BY <1>1, <1>2, <1>3, <1>4, <1>5 DEF Lists

\* What a report adds to what is due when its callbacks are copied.
LEMMA DueNext ==
    ASSUME Types, Control, Listed, Copy, NEW c \in Callers
    PROVE  Due(c)' = Due(c) \cup (IF handle[c].status = "held" /\ Takes(c, Last(log))
                                  THEN {Len(log)} ELSE {})
<1> PICK n : n = Len(log)
  OBVIOUS
<1>1. /\ n \in DOMAIN log /\ Last(log) = log[n] /\ log' = log /\ handle' = handle /\ n \in Nat
      /\ Copied' = n /\ Copied = n - 1
  <2>1. log # <<>> /\ at = "copy" /\ log' = log /\ handle' = handle
    BY DEF Copy, Control, app
  <2>2. n \in DOMAIN log /\ Last(log) = log[n] /\ n \in Nat
    BY <2>1, LastReport
  <2>3. Copied' = n
    BY CopiedNext
  <2> QED
    BY <2>1, <2>2, <2>3, CopiedReports
<1>2. /\ handle[c].from \in Nat /\ handle[c].upto \in Nat
      /\ handle[c].status # "none" => handle[c].from <= n - 1
  BY <1>1 DEF Types, Handles, Listed, Numbered
<1>3. \A m \in DOMAIN log : m \in Nat /\ (m <= n <=> m <= n - 1 \/ m = n)
  BY <1>1, LenProperties DEF Types
<1>4. CASE handle[c].status = "held"
  <2>1. Due(c) = {m \in DOMAIN log : m > handle[c].from /\ m <= n - 1 /\ Takes(c, log[m])}
    BY <1>1, <1>4 DEF Due
  <2>2. Due(c)' = {m \in DOMAIN log : m > handle[c].from /\ m <= n /\ Takes(c, log[m])}
    BY <1>1, <1>4 DEF Due, Takes
  <2>3. n > handle[c].from
    BY <1>1, <1>2, <1>4
  <2> QED
    BY <1>1, <1>3, <1>4, <2>1, <2>2, <2>3
<1>5. CASE handle[c].status # "held"
  BY <1>1, <1>5 DEF Due, Takes, Types, Handles
<1> QED
  BY <1>4, <1>5

\* Copying makes the report due to those who are registered, and them wait.
LEMMA CopyCalled ==
    ASSUME Types, Control, Listed, Called, Copy, Types'
    PROVE  Called'
<1> PICK n : n = Len(log)
  OBVIOUS
<1>1. /\ at = "copy" /\ log' = log /\ handle' = handle /\ ran' = ran /\ left = <<>>
      /\ n \in Nat /\ Copied = n - 1
  BY LastReport, CopiedReports DEF Copy, Control, app
<1>2. ASSUME NEW c \in Callers PROVE Waiting(c)' <=> handle[c].status = "held" /\ Takes(c, Last(log))
  <2>1. Waiting(c)' <=> c \in ToSet(left') /\ Takes(c, Last(log))
    BY <1>1, CallsNext
  <2>2. c \in ToSet(left') => handle[c].status = "held"
    BY CopiedList DEF ToSet
  <2> QED
    BY <2>1, <2>2, CopiedList
<1>3. ASSUME NEW c \in Callers PROVE Increasing(Calls(c))' /\ ToSet(Calls(c))' = Due(c)'
  <2> PICK s : s = ran[c]
    OBVIOUS
  <2> PICK t : t = Calls(c)'
    OBVIOUS
  <2>1. s \in Seq(Nat) /\ Calls(c) = s
    BY <1>1, CallsAre, NobodyWaits
  <2>2. Increasing(s) /\ ToSet(s) = Due(c)
    BY <2>1 DEF Called, CalledWhenDue
  <2>3. \A x \in ToSet(s) : x < n
    BY <1>1, <2>2, RanWasDue DEF Called, Listed
  <2>4. CASE Waiting(c)'
    <3>1. t = Append(s, n)
      BY <1>1, <2>4, CallsNext
    <3>2. Increasing(t) /\ ToSet(t) = ToSet(s) \cup {n}
      BY <1>1, <2>1, <2>2, <2>3, <3>1, AppendNumber
    <3>3. Due(c)' = Due(c) \cup {n}
      BY <1>2, <2>4, DueNext
    <3> QED
      BY <2>2, <3>2, <3>3 DEF Increasing
  <2>5. CASE ~Waiting(c)'
    <3>1. t = s
      BY <1>1, <2>5, CallsNext
    <3>2. Due(c)' = Due(c)
      BY <1>2, <2>5, DueNext
    <3> QED
      BY <2>2, <3>1, <3>2 DEF Increasing
  <2> QED
    BY <2>4, <2>5
<1>4. CalledWhenDue'
  BY <1>3 DEF CalledWhenDue
<1>5. LeftInOrder'
  <2>1. \A d \in Callers : n \notin ToSet(ran[d])
    BY <1>1, RanWasDue DEF Called, Listed
  <2> QED
    BY <1>1, <2>1, CopiedList DEF LeftInOrder
<1> QED
  BY <1>4, <1>5 DEF Called

\* Running a copy turns waiting for a call into the call.
LEMMA RunCalled ==
    ASSUME Types, Control, Called, RunCallback, Types', Copied' = Copied
    PROVE  Called'
<1> PICK n : n = Len(log)
  OBVIOUS
<1> PICK c : c = Head(left)
  OBVIOUS
<1> PICK queue : queue = left
  OBVIOUS
<1> PICK rest : rest = Tail(left)
  OBVIOUS
<1>1. /\ at = "run" /\ log' = log /\ handle' = handle /\ left' = rest /\ queue # <<>>
      /\ ran' = IF Takes(c, Last(log)) THEN [ran EXCEPT ![c] = Append(@, n)] ELSE ran
  BY DEF RunCallback, app
<1>2. /\ queue \in Seq(Callers) /\ c \in Callers /\ rest \in Seq(Callers)
      /\ ToSet(queue) = {c} \cup ToSet(rest)
      /\ 1 \in DOMAIN queue /\ queue[1] = c
      /\ \A i \in DOMAIN rest : i + 1 \in DOMAIN queue /\ rest[i] = queue[i + 1]
  BY <1>1, TailElements DEF Types
<1>3. n \in Nat /\ ran \in [Callers -> Seq(Nat)]
  BY <1>1, LastReport DEF Types, Control
<1>4. /\ \A i \in DOMAIN queue : handle[queue[i]].status # "none"
      /\ \A i, j \in DOMAIN queue : i < j => handle[queue[i]].id < handle[queue[j]].id
      /\ \A i \in DOMAIN queue, d \in Callers :
            n \in ToSet(ran[d]) => handle[d].id < handle[queue[i]].id
  BY DEF Called, LeftInOrder
<1>5. \A i \in DOMAIN rest : i \in Nat /\ i >= 1
  BY <1>2, LenProperties
<1>6. \A i \in DOMAIN rest : handle[c].id < handle[rest[i]].id
  <2> SUFFICES ASSUME NEW i \in DOMAIN rest PROVE handle[c].id < handle[rest[i]].id
    OBVIOUS
  <2>1. i + 1 \in DOMAIN queue /\ 1 < i + 1 /\ rest[i] = queue[i + 1]
    BY <1>2, <1>5
  <2> QED
    BY <1>2, <1>4, <2>1
<1>7. c \notin ToSet(rest)
  <2>1. handle[c].id \in Nat
    BY <1>2 DEF Types, Handles
  <2> QED
    BY <1>6, <2>1 DEF ToSet
<1>8. \A d \in Callers : Due(d)' = Due(d)
  BY <1>1 DEF Due, Takes
<1>9. ASSUME NEW d \in Callers PROVE Calls(d)' = Calls(d)
  <2>1. /\ Waiting(d)' <=> d \in ToSet(rest) /\ Takes(d, Last(log))
        /\ Waiting(d) <=> d \in ToSet(queue) /\ Takes(d, Last(log))
        /\ Waiting(d) => Calls(d) = Append(ran[d], n)
        /\ ~Waiting(d) => Calls(d) = ran[d]
        /\ Waiting(d)' => Calls(d)' = Append(ran'[d], n)
        /\ ~Waiting(d)' => Calls(d)' = ran'[d]
    BY <1>1, CallsNext, CallsAre, WaitingIs
  <2>2. CASE d # c
    <3>1. ran'[d] = ran[d]
      BY <1>1, <1>3, <2>2
    <3>2. d \in ToSet(rest) <=> d \in ToSet(queue)
      BY <1>2, <2>2
    <3>3. Waiting(d)' <=> Waiting(d)
      BY <2>1, <3>2
    <3>4. CASE Waiting(d)
      BY <2>1, <3>1, <3>3, <3>4
    <3>5. CASE ~Waiting(d)
      BY <2>1, <3>1, <3>3, <3>5
    <3> QED
      BY <3>4, <3>5
  <2>3. CASE d = c
    <3>1. ~Waiting(d)' /\ d \in ToSet(queue)
      BY <1>2, <1>7, <2>1, <2>3
    <3>2. CASE Takes(d, Last(log))
      <4>1. ran'[d] = Append(ran[d], n)
        BY <1>1, <1>3, <2>3, <3>2
      <4> QED
        BY <2>1, <3>1, <3>2, <4>1, Zenon
    <3>3. CASE ~Takes(d, Last(log))
      <4>1. ran'[d] = ran[d]
        BY <1>1, <2>3, <3>3
      <4> QED
        BY <2>1, <3>1, <3>3, <4>1, Zenon
    <3> QED
      BY <3>2, <3>3
  <2> QED
    BY <2>2, <2>3
<1>10. CalledWhenDue'
  BY <1>8, <1>9 DEF Called, CalledWhenDue, Increasing
<1>11. LeftInOrder'
  <2>1. \A i \in DOMAIN rest : handle[rest[i]].status # "none"
    BY <1>2, <1>4
  <2>2. ASSUME NEW i \in DOMAIN rest, NEW j \in DOMAIN rest, i < j
        PROVE  handle[rest[i]].id < handle[rest[j]].id
    <3>1. i + 1 \in DOMAIN queue /\ j + 1 \in DOMAIN queue /\ i + 1 < j + 1
      BY <1>2, <1>5, <2>2
    <3>2. handle[queue[i + 1]].id < handle[queue[j + 1]].id
      BY <1>4, <3>1
    <3> QED
      BY <1>2, <3>2
  <2>3. ASSUME NEW i \in DOMAIN rest, NEW d \in Callers, n \in ToSet(ran'[d])
        PROVE  handle[d].id < handle[rest[i]].id
    <3>1. CASE d = c
      BY <1>6, <3>1
    <3>2. CASE d # c
      <4>1. ran'[d] = ran[d]
        BY <1>1, <1>3, <3>2
      <4>2. i + 1 \in DOMAIN queue /\ n \in ToSet(ran[d]) /\ rest[i] = queue[i + 1]
        BY <1>2, <2>3, <4>1
      <4>3. handle[d].id < handle[queue[i + 1]].id
        BY <1>4, <4>2
      <4> QED
        BY <4>2, <4>3
    <3> QED
      BY <3>1, <3>2
  <2> QED
    BY <1>1, <2>1, <2>2, <2>3 DEF LeftInOrder
<1> QED
  BY <1>10, <1>11 DEF Called

----------------------------------------------------------------------------
(* Streams.                                                                *)

\* What concerns no stream.
LEMMA SentStays ==
    ASSUME Sent, UNCHANGED <<log, visible, channel, stream, heard>>, ended => ended',
           at' # "idle" => at # "idle"
    PROVE  Sent'
<1>1. Written'
  BY DEF Sent, Written, Increasing
<1>2. \A s \in Streams : Follows(channel, stream[s], heard[s])'
  BY DEF Sent, Follows, Increasing
<1> QED
  BY <1>1, <1>2 DEF Sent

\* A report is written before anything else happens with it.
LEMMA ReportSent ==
    ASSUME Types, Sent, NEW r \in ReportForms, Report(r)
    PROVE  Sent'
<1> PICK n : n = Len(log)
  OBVIOUS
<1>1. /\ log' = Append(log, r) /\ visible' = Write(r) /\ at' = "copy"
      /\ UNCHANGED <<channel, stream, heard, ended>>
  BY DEF Report, reader
<1>2. /\ DOMAIN log' = DOMAIN log \cup {n + 1} /\ log'[n + 1] = r /\ Len(log') = n + 1
      /\ \A i \in DOMAIN log : log'[i] = log[i] /\ log[i] \in ReportForms /\ i \in Nat /\ i <= n
      /\ n \in Nat
  BY <1>1, AppendElements, ElementOfSeq, LenProperties DEF Types
<1>3. /\ visible'[r.kind] = n + 1
      /\ \A k \in {"event", "state"} : k # r.kind => visible'[k] = visible[k]
  BY <1>1, WriteTyped
<1>4. \A i \in DOMAIN log' : i <= visible'[log'[i].kind]
  <2> SUFFICES ASSUME NEW i \in DOMAIN log' PROVE i <= visible'[log'[i].kind]
    OBVIOUS
  <2>1. CASE i = n + 1
    BY <1>2, <1>3, <2>1
  <2>2. CASE i \in DOMAIN log
    <3>1. log'[i] = log[i] /\ log[i].kind \in {"event", "state"} /\ i <= n /\ i \in Nat
      BY <1>2, <2>2, ReportKinds
    <3>2. i <= visible[log[i].kind]
      BY <2>2 DEF Sent, Written
    <3> QED
      BY <1>2, <1>3, <3>1, <3>2
  <2> QED
    BY <1>2, <2>1, <2>2
<1>5. \A i \in DOMAIN channel : /\ channel[i] \in DOMAIN log' /\ log'[channel[i]].kind = "event"
                                /\ channel[i] < Len(log')
  BY <1>2 DEF Sent, Written
<1>6. Written'
  BY <1>1, <1>4, <1>5 DEF Sent, Written, Increasing
<1>7. \A s \in Streams : Follows(channel, stream[s], heard[s])'
  BY <1>1 DEF Sent, Follows, Increasing
<1> QED
  BY <1>1, <1>6, <1>7 DEF Sent

\* A stream stays where it is when an event is sent behind it.
LEMMA FollowsLonger ==
    ASSUME NEW events \in Seq(Nat), NEW n \in Nat, NEW p \in Places, NEW yielded \in Seq(Nat),
           Follows(events, p, yielded)
    PROVE  Follows(Append(events, n), p, yielded)
<1> PICK more : more = Append(events, n)
  OBVIOUS
<1>1. /\ Len(more) = Len(events) + 1 /\ Len(events) \in Nat
      /\ DOMAIN events = 1 .. Len(events) /\ \A i \in DOMAIN events : more[i] = events[i]
  BY AppendElements, LenProperties
<1>2. p.next \in Nat /\ p.next <= Len(events) /\ Capacity \in Nat
  BY DEF Places, Follows
<1>3. \A k \in 1 .. p.next : k \in DOMAIN events
  BY <1>1, <1>2
<1>4. \A k \in 1 .. p.next : more[k] = events[k]
  BY <1>1, <1>3
<1>5. \A k \in 1 .. p.next : k > Len(more) - Capacity => k > Len(events) - Capacity
  BY <1>1, <1>2
<1>6. p.next <= Len(more)
  BY <1>1, <1>2
<1> QED
  BY <1>4, <1>5, <1>6 DEF Follows

\* An event is sent when all before it have been, and to streams that are not over.
LEMMA FinishSent ==
    ASSUME Types, Control, Sent, Finish
    PROVE  Sent'
<1> PICK n : n = Len(log)
  OBVIOUS
<1>1. /\ at = "run" /\ at' = "idle" /\ ~ended
      /\ channel' = IF Last(log).kind = "event" THEN Append(channel, n) ELSE channel
      /\ UNCHANGED <<log, visible, stream, heard, ended>>
  BY DEF Finish, Control, reader
<1>2. n \in DOMAIN log /\ n \in Nat /\ Last(log) = log[n]
  <2>1. log # <<>>
    BY <1>1 DEF Control
  <2> QED
    BY <2>1, LastReport
<1>3. channel \in Seq(Nat) /\ stream \in [Streams -> Places] /\ heard \in [Streams -> Seq(Nat)]
  BY DEF Types
<1>4. CASE Last(log).kind # "event"
  <2>1. channel' = channel
    BY <1>1, <1>4
  <2> QED
    BY <1>1, <2>1, SentStays
<1>5. CASE Last(log).kind = "event"
  <2>1. channel' = Append(channel, n)
    BY <1>1, <1>5
  <2>2. \A x \in ToSet(channel) : x < n /\ x \in DOMAIN log /\ log[x].kind = "event"
    BY <1>1 DEF Sent, Written, ToSet
  <2>3. Increasing(channel') /\ ToSet(channel') = ToSet(channel) \cup {n}
    BY <1>2, <1>3, <2>1, <2>2, AppendNumber DEF Sent, Written
  <2>4. \A i \in DOMAIN channel' : channel'[i] \in ToSet(channel')
    BY Zenon DEF ToSet
  <2>5. \A i \in DOMAIN channel' : channel'[i] \in DOMAIN log /\ log[channel'[i]].kind = "event"
    BY <1>2, <1>5, <2>2, <2>3, <2>4
  <2>6. Written'
    BY <1>1, <2>3, <2>5 DEF Sent, Written, Increasing
  <2>7. ASSUME NEW s \in Streams PROVE Follows(channel, stream[s], heard[s])'
    <3> PICK p : p = stream[s]
      OBVIOUS
    <3> PICK h : h = heard[s]
      OBVIOUS
    <3> PICK e : e = channel
      OBVIOUS
    <3>1. p \in Places /\ h \in Seq(Nat) /\ e \in Seq(Nat) /\ Follows(e, p, h)
      BY <1>3 DEF Sent
    <3>2. Follows(Append(e, n), p, h)
      BY <1>2, <3>1, FollowsLonger
    <3>3. stream'[s] = p /\ heard'[s] = h /\ channel' = Append(e, n)
      BY <1>1, <2>1
    <3> QED
      BY <3>2, <3>3 DEF Follows, Increasing
  <2>8. \A s \in Streams : stream'[s].status # "over"
    BY <1>1 DEF Sent
  <2> QED
    BY <2>6, <2>7, <2>8 DEF Sent
<1> QED
  BY <1>4, <1>5

\* A stream that yields the event at its place still follows.
LEMMA FollowsYield ==
    ASSUME NEW events \in Seq(Nat), NEW p \in Places, NEW q \in Places, NEW yielded \in Seq(Nat),
           Follows(events, p, yielded), Increasing(events), p.next < Len(events),
           q.next = p.next + 1, q.from = p.from
    PROVE  Follows(events, q, Append(yielded, events[p.next + 1]))
<1> PICK m : m = p.next + 1
  OBVIOUS
<1> PICK x : x = events[m]
  OBVIOUS
<1> PICK more : more = Append(yielded, x)
  OBVIOUS
<1>1. /\ Len(events) \in Nat /\ DOMAIN events = 1 .. Len(events) /\ p.next \in Nat
      /\ m \in DOMAIN events /\ q.next = m /\ q.next <= Len(events)
  BY LenProperties DEF Places
<1>2. x \in Nat
  BY <1>1, ElementOfSeq
<1>3. ASSUME NEW k \in 1 .. p.next PROVE k \in 1 .. q.next /\ events[k] < x
  <2>1. k \in 1 .. q.next /\ k \in DOMAIN events /\ k < m
    BY <1>1
  <2> QED
    BY <1>1, <2>1 DEF Increasing
<1>4. \A y \in ToSet(yielded) : \E k \in 1 .. p.next : y = events[k]
  BY DEF Follows, ToSet
<1>5. \A y \in ToSet(yielded) : y < x
  BY <1>3, <1>4
<1>6. ToSet(more) = ToSet(yielded) \cup {x} /\ Increasing(more)
  BY <1>2, <1>5, AppendNumber DEF Follows
<1>7. m \in 1 .. q.next
  BY <1>1
<1>8. \A y \in ToSet(more) : \E k \in 1 .. q.next : y = events[k]
  BY <1>3, <1>4, <1>6, <1>7
<1>9. \A i \in DOMAIN more : more[i] \in ToSet(more)
  BY Zenon DEF ToSet
<1>10. ASSUME NEW n \in 1 .. q.next, n > Len(events) - Capacity, n > q.from
       PROVE  events[n] \in ToSet(more)
  <2>1. CASE n = m
    BY <1>6, <2>1
  <2>2. CASE n # m
    <3>1. n \in 1 .. p.next
      BY <1>1, <2>2
    <3>2. events[n] \in ToSet(yielded)
      BY <1>10, <3>1 DEF Follows
    <3> QED
      BY <1>6, <3>2
  <2> QED
    BY <2>1, <2>2
<1> QED
  BY <1>1, <1>6, <1>8, <1>9, <1>10 DEF Follows

\* A stream that begins, or goes on where the channel still has events, follows
\* from there: of what is behind it nothing is asked.
LEMMA FollowsFrom ==
    ASSUME NEW events \in Seq(Nat), NEW p \in Places, NEW q \in Places, NEW yielded \in Seq(Nat),
           Follows(events, p, yielded), q.next <= Len(events), p.next <= q.next,
           \/ q.next <= q.from
           \/ q.next <= Len(events) - Capacity
           \/ q.next = p.next /\ q.from = p.from
    PROVE  Follows(events, q, yielded)
<1>1. Len(events) \in Nat /\ p.next \in Nat /\ q.next \in Nat /\ q.from \in Nat /\ Capacity \in Nat
  BY LenProperties DEF Places
<1>2. \A k \in 1 .. p.next : k \in 1 .. q.next
  BY <1>1
<1>3. \A i \in DOMAIN yielded : \E k \in 1 .. q.next : yielded[i] = events[k]
  BY <1>2 DEF Follows
<1>4. ASSUME NEW n \in 1 .. q.next, n > Len(events) - Capacity, n > q.from
      PROVE  events[n] \in ToSet(yielded)
  <2>1. q.next = p.next /\ q.from = p.from
    BY <1>1, <1>4
  <2> QED
    BY <1>4, <2>1 DEF Follows
<1> QED
  BY <1>3, <1>4 DEF Follows

\* A stream that begins, reads or ends leaves the others alone.
LEMMA StreamSent ==
    ASSUME Types, Sent, NEW s \in Streams, Subscribe(s) \/ Read(s), Types'
    PROVE  Sent'
<1> PICK p : p = stream[s]
  OBVIOUS
<1> PICK q : q = stream'[s]
  OBVIOUS
<1> PICK h : h = heard[s]
  OBVIOUS
<1> PICK e : e = channel
  OBVIOUS
<1>1. /\ UNCHANGED <<log, at, visible, channel, ended>>
      /\ \A o \in Streams \ {s} : stream'[o] = stream[o] /\ heard'[o] = heard[o]
  BY DEF Types, Subscribe, Read, Lag, driver
<1>2. /\ p \in Places /\ q \in Places /\ h \in Seq(Nat) /\ e \in Seq(Nat) /\ Follows(e, p, h)
      /\ Increasing(e) /\ Len(e) \in Nat /\ p.next \in Nat /\ p.next <= Len(e)
  <2>1. p \in Places /\ q \in Places /\ h \in Seq(Nat) /\ e \in Seq(Nat)
    BY DEF Types
  <2>2. Follows(e, p, h) /\ Increasing(e)
    BY DEF Sent, Written
  <2> QED
    BY <2>1, <2>2, LenProperties DEF Places, Follows
<1>3. stream \in [Streams -> Places] /\ heard \in [Streams -> Seq(Nat)]
  BY DEF Types
<1>4. /\ Follows(e, q, heard'[s])
      /\ q.status = "over" => ended /\ q.next = Len(e)
  <2>1. CASE Subscribe(s)
    <3>1. q.status = "open" /\ q.next = Len(e) /\ q.from = Len(e) /\ heard'[s] = h
      BY <1>3, <2>1 DEF Subscribe
    <3>2. q.next <= q.from /\ q.next <= Len(e) /\ p.next <= q.next
      BY <1>2, <3>1
    <3>3. Follows(e, q, h)
      BY <1>2, <3>2, FollowsFrom
    <3> QED
      BY <3>1, <3>3
  <2>2. CASE Lagged(s) /\ Lag(s) /\ stream[s].status = "open"
    <3>1. q = [p EXCEPT !.next = Len(e) - Capacity] /\ heard'[s] = h
      BY <1>3, <2>2 DEF Lag
    <3>2. q.status = "open" /\ q.next = Len(e) - Capacity /\ p.next < Len(e) - Capacity
      BY <1>2, <2>2, <3>1 DEF Lagged, Places
    <3>3. q.next <= Len(e) /\ p.next <= q.next /\ q.next <= Len(e) - Capacity
      BY <1>2, <3>2
    <3>4. Follows(e, q, h)
      BY <1>2, <3>3, FollowsFrom
    <3> QED
      BY <3>1, <3>2, <3>4
  <2>3. CASE /\ stream[s].status = "open" /\ stream[s].next < Len(channel)
             /\ stream' = [stream EXCEPT ![s].next = @ + 1]
             /\ heard' = [heard EXCEPT ![s] = Append(@, channel[stream[s].next + 1])]
    <3>1. /\ q = [p EXCEPT !.next = p.next + 1] /\ p.next < Len(e)
          /\ heard'[s] = Append(h, e[p.next + 1])
      BY <1>3, <2>3
    <3>2. q.status = "open" /\ q.next = p.next + 1 /\ q.from = p.from
      BY <1>2, <2>3, <3>1 DEF Places
    <3>3. Follows(e, q, Append(h, e[p.next + 1]))
      BY <1>2, <3>1, <3>2, FollowsYield
    <3> QED
      BY <3>1, <3>2, <3>3
  <2>4. CASE /\ stream[s].next = Len(channel) /\ ended
             /\ stream' = [stream EXCEPT ![s].status = "over"] /\ UNCHANGED heard
    <3>1. q = [p EXCEPT !.status = "over"] /\ heard'[s] = h
      BY <1>3, <2>4
    <3>2. q.next = p.next /\ q.from = p.from /\ q.next <= Len(e) /\ p.next <= q.next
      BY <1>2, <3>1 DEF Places
    <3>3. Follows(e, q, h)
      BY <1>2, <3>2, FollowsFrom
    <3> QED
      BY <2>4, <3>1, <3>2, <3>3
  <2> QED
    BY <2>1, <2>2, <2>3, <2>4 DEF Read
<1>5. \A o \in Streams : Follows(channel, stream[o], heard[o])'
  <2> SUFFICES ASSUME NEW o \in Streams PROVE Follows(channel', stream'[o], heard'[o])
    BY DEF Follows, Increasing
  <2>1. CASE o = s
    BY <1>1, <1>4, <2>1
  <2>2. CASE o # s
    BY <1>1, <2>2 DEF Sent
  <2> QED
    BY <2>1, <2>2
<1>6. \A o \in Streams : stream'[o].status = "over" => ended' /\ stream'[o].next = Len(channel')
  BY <1>1, <1>4 DEF Sent
<1>7. Written'
  BY <1>1 DEF Sent, Written, Increasing
<1> QED
  BY <1>5, <1>6, <1>7 DEF Sent

----------------------------------------------------------------------------
(* The invariant holds.                                                    *)

\* It does initially.
LEMMA InitHolds == Init => IInv
<1> SUFFICES ASSUME Init PROVE IInv
  OBVIOUS
<1>1. /\ DOMAIN <<>> = {} /\ Len(<<>>) = 0
      /\ \A S : <<>> \in Seq(S)
  BY EmptySeq
<1>2. Types
  <2>1. registry \in Registries
    BY <1>1 DEF Init, Registries
  <2>2. handle \in [Callers -> Handles] /\ stream \in [Streams -> Places]
    BY DEF Init, NoSubscription, Handles, Places
  <2>3. ran \in [Callers -> Seq(Nat)] /\ heard \in [Streams -> Seq(Nat)]
    BY <1>1 DEF Init
  <2> QED
    BY <1>1, <2>1, <2>2, <2>3 DEF Init, Types
<1>3. Control
  BY DEF Init, Control
<1>4. Copied = 0
  BY <1>1 DEF Init, Copied
<1>5. \A c \in Callers : handle[c].status = "none"
  BY DEF Init, NoSubscription
<1>6. Listed
  BY <1>1, <1>5 DEF Init, Listed, Numbered, Lists, Callers
<1>7. LeftInOrder /\ \A c \in Callers : ~Waiting(c)
  BY <1>2, NobodyWaits DEF Init
<1>8. CalledWhenDue
  <2> SUFFICES ASSUME NEW c \in Callers PROVE Increasing(Calls(c)) /\ ToSet(Calls(c)) = Due(c)
    BY DEF CalledWhenDue
  <2>1. Calls(c) = <<>>
    BY <1>2, <1>7, CallsAre DEF Init
  <2>2. Due(c) = {}
    BY <1>5 DEF Due
  <2>3. ToSet(Calls(c)) = {}
    BY <1>1, <2>1 DEF ToSet
  <2> QED
    BY <1>1, <2>1, <2>2, <2>3 DEF Increasing
<1>9. Sent
  <2>1. Written
    BY <1>1 DEF Init, Written, Increasing
  <2>2. ASSUME NEW s \in Streams
        PROVE  Follows(channel, stream[s], heard[s]) /\ stream[s].status = "none"
    <3>1. /\ stream[s] = [status |-> "none", next |-> 0, from |-> 0] /\ heard[s] = <<>>
          /\ channel = <<>>
      BY DEF Init
    <3> QED
      BY <1>1, <3>1 DEF Follows, Increasing
  <2> QED
    BY <2>1, <2>2 DEF Sent
<1> QED
  BY <1>2, <1>3, <1>6, <1>7, <1>8, <1>9 DEF IInv, Called

\* Every step keeps it.
LEMMA StepHolds == IInv /\ [Next]_vars => IInv'
<1> SUFFICES ASSUME Types, Control, Listed, Called, Sent, [Next]_vars PROVE IInv'
  BY DEF IInv
<1>0. Copied \in Nat
  BY CopiedReports
<1>1. ASSUME NEW c \in Callers, Register(c) PROVE IInv'
  <2>1. Types' /\ Control'
    BY <1>1, RegisterTypes
  <2>2. Copied' = Copied
    BY <1>1, <2>1, CopiedGrows DEF Register, driver
  <2>3. Listed'
    BY <1>1, <2>2, RegisterListed
  <2>4. Called'
    BY <1>1, <2>2, RegisterCalled
  <2>5. Sent'
    BY <1>1, SentStays DEF Register, driver, reader
  <2> QED
    BY <2>1, <2>3, <2>4, <2>5 DEF IInv
<1>2. ASSUME NEW c \in Callers, Unregister(c) PROVE IInv'
  <2>1. Types' /\ Control'
    BY <1>2, UnregisterTypes
  <2>2. Copied' = Copied
    BY <1>2, <2>1, CopiedGrows DEF Unregister, driver
  <2>3. Listed'
    BY <1>2, <2>2, UnregisterListed
  <2>4. Called'
    BY <1>2, <2>2, UnregisterCalled
  <2>5. Sent'
    BY <1>2, SentStays DEF Unregister, driver, reader
  <2> QED
    BY <2>1, <2>3, <2>4, <2>5 DEF IInv
<1>3. ASSUME NEW s \in Streams, Subscribe(s) \/ Read(s) PROVE IInv'
  <2>1. Types' /\ Control'
    BY <1>3, StreamTypes
  <2>2. UNCHANGED <<log, at>> /\ UNCHANGED app /\ UNCHANGED <<handle, log, left, ran, ended>>
    BY <1>3 DEF Subscribe, Read, app, driver
  <2>3. Copied' = Copied
    BY <2>1, <2>2, CopiedGrows
  <2>4. Listed'
    BY <1>0, <2>2, <2>3, ListedStays
  <2>5. Called'
    BY <2>2, <2>3, CalledStays
  <2>6. Sent'
    BY <1>3, <2>1, StreamSent
  <2> QED
    BY <2>1, <2>4, <2>5, <2>6 DEF IInv
<1>4. ASSUME EmitEvent \/ Publish PROVE IInv'
  <2>1. PICK r \in ReportForms : Report(r)
    BY <1>4, ReportsMade
  <2>2. Types' /\ Control'
    BY <2>1, ReportTypes
  <2>3. Copied' = Copied
    BY <1>4, <2>2, CopiedGrows
  <2>4. Listed'
    BY <1>0, <2>1, <2>3, ListedStays DEF Report
  <2>5. Called'
    BY <2>1, <2>2, <2>3, ReportCalled
  <2>6. Sent'
    BY <2>1, ReportSent
  <2> QED
    BY <2>2, <2>4, <2>5, <2>6 DEF IInv
<1>5. ASSUME Copy PROVE IInv'
  <2>1. Types' /\ Control'
    BY <1>5, DriverTypes
  <2>2. Copied' = Copied + 1 /\ Copied <= Copied' /\ Copied' \in Nat
    BY <1>0, <1>5, CopiedNext
  <2>3. Listed'
    BY <1>0, <1>5, <2>2, ListedStays DEF Copy
  <2>4. Called'
    BY <1>5, <2>1, CopyCalled
  <2>5. Sent'
    BY <1>5, SentStays DEF Copy, reader
  <2> QED
    BY <2>1, <2>3, <2>4, <2>5 DEF IInv
<1>6. ASSUME RunCallback PROVE IInv'
  <2>1. Types' /\ Control'
    BY <1>6, DriverTypes
  <2>2. Copied' = Copied
    BY <1>6, <2>1, CopiedGrows
  <2>3. Listed'
    BY <1>0, <1>6, <2>2, ListedStays DEF RunCallback
  <2>4. Called'
    BY <1>6, <2>1, <2>2, RunCalled
  <2>5. Sent'
    BY <1>6, SentStays DEF RunCallback, reader
  <2> QED
    BY <2>1, <2>3, <2>4, <2>5 DEF IInv
<1>7. ASSUME Finish PROVE IInv'
  <2>1. Types' /\ Control'
    BY <1>7, DriverTypes
  <2>2. Copied' = Copied
    BY <1>7, <2>1, CopiedGrows
  <2>3. Listed'
    BY <1>0, <1>7, <2>2, ListedStays DEF Finish
  <2>4. Called'
    BY <1>7, <2>2, CalledStays DEF Finish, app
  <2>5. Sent'
    BY <1>7, FinishSent
  <2> QED
    BY <2>1, <2>3, <2>4, <2>5 DEF IInv
<1>8. ASSUME End PROVE IInv'
  <2>1. Types' /\ Control'
    BY <1>8, DriverTypes
  <2>2. Copied' = Copied
    BY <1>8, <2>1, CopiedGrows
  <2>3. Listed'
    BY <1>0, <1>8, <2>2, ListedStays DEF End
  <2>4. Called'
    BY <1>8, <2>2, CalledStays DEF End, app, driver
  <2>5. Sent'
    BY <1>8, SentStays DEF End, driver, reader
  <2> QED
    BY <2>1, <2>3, <2>4, <2>5 DEF IInv
<1>9. CASE UNCHANGED vars
  <2>1. /\ UNCHANGED <<registry, handle, log, at, left, visible, channel, stream, heard, ended, ran>>
        /\ UNCHANGED app
    BY <1>9 DEF vars, app, driver, reader
  <2>2. Types' /\ Control'
    BY <2>1 DEF Types, Control
  <2>3. Copied' = Copied
    BY <2>1 DEF Copied
  <2>4. Listed'
    BY <1>0, <2>1, <2>3, ListedStays
  <2>5. Called'
    BY <2>1, <2>3, CalledStays
  <2>6. Sent'
    BY <2>1, SentStays
  <2> QED
    BY <2>2, <2>4, <2>5, <2>6 DEF IInv
<1> QED
  BY <1>1, <1>2, <1>3, <1>4, <1>5, <1>6, <1>7, <1>8, <1>9 DEF Next

\* The inductive invariant: what the registry lists, whom the driver still has
\* to call, and how far every stream is, whatever threads register, unregister
\* and read meanwhile.
THEOREM CallbacksHold == Spec => []IInv
<1> QED
  BY InitHolds, StepHolds, PTL DEF Spec

----------------------------------------------------------------------------
(* The properties.                                                         *)

\* Whatever is registered and unregistered meanwhile, a callback is called
\* once, in order, with every report copied while it was registered, and with
\* no other (Registry, emit_event, publish).
THEOREM CalledAsDue == Spec => []CalledWhenDue
<1>1. IInv => CalledWhenDue
  BY DEF IInv, Called
<1> QED
  BY <1>1, CallbacksHold, PTL

\* Of two callbacks that are due the one registered first is called first.
LEMMA InTurn == IInv => CalledInOrder
<1> SUFFICES ASSUME Types, LeftInOrder, NEW c \in Callers, NEW d \in Callers, Waiting(c),
                    handle[c].id < handle[d].id, Contains(ran[d], Len(log))
             PROVE  FALSE
  BY DEF IInv, Called, CalledInOrder
<1>1. PICK i \in DOMAIN left : left[i] = c
  BY WaitingIs DEF ToSet
<1>2. Len(log) \in ToSet(ran[d])
  BY ContainedNumber DEF Types
<1>3. handle[d].id < handle[c].id
  BY <1>1, <1>2 DEF LeftInOrder
<1>4. handle[c].id \in Nat /\ handle[d].id \in Nat
  BY DEF Types, Handles
<1> QED
  BY <1>3, <1>4

\* Callbacks of either kind run in the order of their registration: ids are
\* allocated, and the lists appended to, under one lock (push_event, push_state).
THEOREM CalledAsRegistered == Spec => []CalledInOrder
<1> QED
  BY CallbacksHold, InTurn, PTL

\* What has been called with or yielded has been written.
LEMMA SeenIsWritten == IInv => NewsIsVisible
<1> SUFFICES ASSUME Types, Control, Listed, Called, Sent PROVE NewsIsVisible
  BY DEF IInv
<1>1. ASSUME NEW c \in Callers, NEW i \in DOMAIN ran[c]
      PROVE  ran[c][i] <= visible[log[ran[c][i]].kind]
  <2>1. ran[c][i] \in ToSet(ran[c])
    BY Zenon DEF ToSet
  <2>2. ran[c][i] \in DOMAIN log
    BY <2>1, RanWasDue DEF Called, Listed
  <2> QED
    BY <2>2 DEF Sent, Written
<1>2. ASSUME NEW s \in Streams, NEW i \in DOMAIN heard[s]
      PROVE  /\ heard[s][i] <= visible.event
             /\ ~(heard[s][i] = Len(log) /\ \E c \in Callers : Waiting(c))
  <2>1. PICK k \in 1 .. stream[s].next : heard[s][i] = channel[k]
    BY DEF Sent, Follows
  <2>2. k \in DOMAIN channel
    <3>1. stream[s].next \in Nat /\ Len(channel) \in Nat /\ DOMAIN channel = 1 .. Len(channel)
      BY LenProperties DEF Types, Places
    <3>2. stream[s].next <= Len(channel)
      BY DEF Sent, Follows
    <3> QED
      BY <3>1, <3>2
  <2>3. /\ channel[k] \in DOMAIN log /\ log[channel[k]].kind = "event"
        /\ at # "idle" => channel[k] < Len(log)
    BY <2>2 DEF Sent, Written
  <2>4. channel[k] <= visible.event
    BY <2>3 DEF Sent, Written
  <2>5. ASSUME NEW c \in Callers, Waiting(c), channel[k] = Len(log) PROVE FALSE
    <3>1. at # "idle"
      BY <2>5, NobodyWaits DEF Control
    <3>2. Len(log) \in Nat
      BY LenProperties DEF Types
    <3> QED
      BY <2>3, <2>5, <3>1, <3>2
  <2> QED
    BY <2>1, <2>4, <2>5
<1> QED
  BY <1>1, <1>2 DEF NewsIsVisible

\* Who is told something finds it in state() or connection_state(), and an event
\* that a stream yields has gone to every callback before.
THEOREM NewsCanBeSeen == Spec => []NewsIsVisible
<1> QED
  BY CallbacksHold, SeenIsWritten, PTL

\* What a stream yields is in order and lacks nothing that had not left the
\* channel.
LEMMA SkipsLate == IInv => StreamsSkipOnly
<1> SUFFICES ASSUME Types, Sent, NEW s \in Streams
             PROVE  /\ Increasing(heard[s])
                    /\ \A n \in 1 .. stream[s].next :
                            n > Len(channel) - Capacity /\ n > stream[s].from
                            => Contains(heard[s], channel[n])
                    /\ stream[s].status = "over" => ended /\ stream[s].next = Len(channel)
  BY DEF IInv, StreamsSkipOnly
<1>1. Follows(channel, stream[s], heard[s])
  BY DEF Sent
<1>2. heard[s] \in Seq(Nat)
  BY DEF Types
<1>3. \A x : Contains(heard[s], x) <=> x \in ToSet(heard[s])
  BY <1>2, ContainedNumber
<1> QED
  BY <1>1, <1>3 DEF Sent, Follows

\* A lagging stream skips events that have left the channel and no others, and
\* ends only behind the last one (client.rs, the loop of events()).
THEOREM SkipsOnlyOvertaken == Spec => []StreamsSkipOnly
<1> QED
  BY CallbacksHold, SkipsLate, PTL

=============================================================================
