---------------------------- MODULE ConnectionProofs ----------------------------
(***************************************************************************)
(* What holds of the single-task client (Connection.tla) for every length  *)
(* of the request timeout, every number of calls, events and frames under  *)
(* way, and every set of close codes.                                      *)
(*                                                                         *)
(* One inductive invariant carries the safety properties.  Its parts:      *)
(*   Types    what the variables hold                                      *)
(*   Control  what is true of the connection and the call at each await    *)
(*   Replies  which requests OBS has received, and that only those are     *)
(*            answered: on the link, in the inbox and to the owner         *)
(*   Order    the events served, in the inbox and under way are together   *)
(*            those that OBS has sent                                      *)
(*                                                                         *)
(* What runs between two awaits is long.  Continues says what it may do to *)
(* the connection before it ends the call or suspends it again, and every  *)
(* piece of the code is shown to do no more; Passes adds what a step of    *)
(* the task does before, and keeps the invariant.                          *)
(***************************************************************************)
EXTENDS Connection, SharedLemmas

USE ConnectionAssumption

----------------------------------------------------------------------------
(* The elements of a sequence that are chosen.                             *)

\* The ids of the elements of s that are in E, in their order.
Chosen(s, E) == EventIds(Subsequence(s, {i \in DOMAIN s : s[i] \in E}))

\* The chosen of a concatenation.
LEMMA ChosenConcat ==
    ASSUME NEW S, NEW E, NEW a \in Seq(S), NEW b \in Seq(S)
    PROVE  Chosen(a \o b, E) = Chosen(a, E) \o Chosen(b, E)
<1> DEFINE J == {i \in DOMAIN (a \o b) : (a \o b)[i] \in E}
           JA == {i \in DOMAIN a : a[i] \in E}
           JB == {i \in DOMAIN b : b[i] \in E}
           K == {i \in DOMAIN b : Len(a) + i \in J}
<1>1. /\ \A k \in DOMAIN a : k \in DOMAIN (a \o b) /\ (a \o b)[k] = a[k]
      /\ \A i \in DOMAIN b : Len(a) + i \in DOMAIN (a \o b) /\ (a \o b)[Len(a) + i] = b[i]
  BY ConcatIndex
<1>2. J \cap DOMAIN a = JA \cap DOMAIN a /\ K = JB
  BY <1>1
<1>3. Subsequence(a \o b, J) = Subsequence(a, J) \o Subsequence(b, K)
  <2> HIDE DEF J
  <2>1. \A i \in DOMAIN b : i \in K <=> Len(a) + i \in J
    OBVIOUS
  <2> HIDE DEF K
  <2> QED
    BY <2>1, SubsequenceConcat
<1> HIDE DEF J, JA, K
<1>4. Subsequence(a, J) = Subsequence(a, JA)
  BY <1>2, SubsequenceWhere
<1> HIDE DEF JB
<1> DEFINE u == Subsequence(a, JA)
           v == Subsequence(b, JB)
<1>5. u \in Seq(S) /\ v \in Seq(S)
  BY SubsequenceParts
<1>6. Subsequence(a \o b, J) = u \o v
  BY <1>2, <1>3, <1>4
<1> HIDE DEF u, v
<1>7. EventIds(u \o v) = EventIds(u) \o EventIds(v)
  <2> DEFINE ids == {x.id : x \in S}
             w == u \o v
  <2>1. /\ EventIds(u) \in Seq(ids) /\ Len(EventIds(u)) = Len(u)
        /\ \A i \in 1 .. Len(u) : EventIds(u)[i] = u[i].id
    BY <1>5, LenProperties, ElementOfSeq DEF EventIds
  <2>2. /\ EventIds(v) \in Seq(ids) /\ Len(EventIds(v)) = Len(v)
        /\ \A i \in 1 .. Len(v) : EventIds(v)[i] = v[i].id
    BY <1>5, LenProperties, ElementOfSeq DEF EventIds
  <2>3. /\ w \in Seq(S) /\ Len(w) = Len(u) + Len(v)
        /\ \A i \in 1 .. Len(u) + Len(v) :
                w[i] = IF i <= Len(u) THEN u[i] ELSE v[i - Len(u)]
    BY <1>5, ConcatProperties
  <2> HIDE DEF w, ids
  <2>4. /\ EventIds(w) \in Seq({x.id : x \in S}) /\ Len(EventIds(w)) = Len(w)
        /\ \A i \in 1 .. Len(w) : EventIds(w)[i] = w[i].id
    BY <2>3, LenProperties, ElementOfSeq DEF EventIds
  <2> DEFINE x == EventIds(u) \o EventIds(v)
  <2>5. /\ x \in Seq(ids) /\ Len(x) = Len(u) + Len(v)
        /\ \A i \in 1 .. Len(u) + Len(v) :
                x[i] = IF i <= Len(u) THEN EventIds(u)[i] ELSE EventIds(v)[i - Len(u)]
    <3> DEFINE l == EventIds(u)
               r == EventIds(v)
    <3>1. l \in Seq(ids) /\ r \in Seq(ids) /\ Len(l) = Len(u) /\ Len(r) = Len(v)
      BY <2>1, <2>2
    <3> HIDE DEF l, r
    <3>2. /\ l \o r \in Seq(ids) /\ Len(l \o r) = Len(l) + Len(r)
          /\ \A i \in 1 .. Len(l) + Len(r) :
                (l \o r)[i] = IF i <= Len(l) THEN l[i] ELSE r[i - Len(l)]
      BY <3>1, ConcatProperties
    <3> QED
      BY <3>1, <3>2 DEF l, r
  <2> HIDE DEF x
  <2>6. Len(u) \in Nat /\ Len(v) \in Nat
    BY <1>5, LenProperties
  <2>7. ASSUME NEW i \in 1 .. Len(u) + Len(v) PROVE x[i] = EventIds(w)[i]
    <3>1. CASE i <= Len(u)
      BY <2>1, <2>3, <2>4, <2>5, <2>6, <3>1
    <3>2. CASE ~(i <= Len(u))
      <4>1. PICK k \in 1 .. Len(v) : k = i - Len(u)
        <5> DEFINE m == Len(u)
                   n == Len(v)
        <5>1. m \in Nat /\ n \in Nat /\ i \in 1 .. m + n /\ ~(i <= m)
          BY <2>6, <3>2
        <5> HIDE DEF m, n
        <5>2. i - m \in 1 .. n
          BY <5>1
        <5> QED
          BY <5>2 DEF m, n
      <4>2. x[i] = EventIds(v)[k] /\ w[i] = v[k] /\ EventIds(v)[k] = v[k].id
        BY <2>2, <2>3, <2>5, <3>2, <4>1
      <4>3. EventIds(w)[i] = w[i].id
        BY <2>3, <2>4
      <4> QED
        BY <4>2, <4>3
    <3> QED
      BY <3>1, <3>2
  <2>8. x = EventIds(w)
    BY <2>3, <2>4, <2>5, <2>7, SeqEqual DEF ids
  <2> QED
    BY <2>8 DEF w, x
<1> QED
  BY <1>6, <1>7 DEF Chosen, u, v, J, JA, JB

\* Where nothing is chosen.
LEMMA ChosenNone ==
    ASSUME NEW S, NEW E, NEW s \in Seq(S), \A i \in DOMAIN s : s[i] \notin E
    PROVE  Chosen(s, E) = <<>>
<1> DEFINE t == Subsequence(s, {i \in DOMAIN s : s[i] \in E})
<1>1. {i \in DOMAIN s : s[i] \in E} = {}
  OBVIOUS
<1>2. t \in Seq(S) /\ ToSet(t) = {}
  BY <1>1, SubsequenceParts
<1> HIDE DEF t
<1>3. t = <<>>
  <2>1. Len(t) \in Nat /\ DOMAIN t = 1 .. Len(t)
    BY <1>2, LenProperties
  <2>2. DOMAIN t = {}
    BY <1>2, Zenon DEF ToSet
  <2>3. Len(t) = 0
    BY <2>1, <2>2
  <2> QED
    BY <1>2, <2>3, EmptySeq
<1>4. EventIds(<<>>) = <<>>
  BY DEF EventIds
<1> QED
  BY <1>3, <1>4 DEF Chosen, t

\* Of one element.
LEMMA ChosenOne ==
    ASSUME NEW S, NEW E, NEW e \in S
    PROVE  Chosen(<<e>>, E) = IF e \in E THEN <<e.id>> ELSE <<>>
<1> DEFINE J == {i \in DOMAIN <<e>> : <<e>>[i] \in E}
<1>1. <<>> \in Seq(S) /\ Append(<<>>, e) = <<e>> /\ Len(<<>>) = 0
  BY EmptySeq
<1>2. 1 \in J <=> e \in E
  OBVIOUS
<1> HIDE DEF J
<1>3. Subsequence(<<e>>, J) = IF 1 \in J THEN <<e>> ELSE <<>>
  <2>1. /\ Subsequence(<<>>, J) = <<>>
        /\ Subsequence(Append(<<>>, e), J) =
            IF Len(<<>>) + 1 \in J THEN Append(Subsequence(<<>>, J), e)
                                   ELSE Subsequence(<<>>, J)
    BY <1>1, SubsequenceAppend
  <2> QED
    BY <1>1, <2>1
<1>4. EventIds(<<e>>) = <<e.id>> /\ EventIds(<<>>) = <<>>
  BY DEF EventIds
<1> QED
  BY <1>2, <1>3, <1>4 DEF Chosen, J

\* Joining numbers associates.
LEMMA NumbersAssociate ==
    ASSUME NEW a \in Seq(Nat), NEW b \in Seq(Nat), NEW c \in Seq(Nat)
    PROVE  (a \o b) \o c = a \o (b \o c)
BY ConcatAssociative

\* They are numbers if ids are.
LEMMA ChosenTyped ==
    ASSUME NEW S, NEW E, NEW s \in Seq(S), \A e \in S : e \in E => e.id \in Nat
    PROVE  Chosen(s, E) \in Seq(Nat)
<1> DEFINE J == {i \in DOMAIN s : s[i] \in E}
           t == Subsequence(s, J)
<1>1. t \in Seq(S) /\ ToSet(t) = {s[j] : j \in J \cap DOMAIN s}
  BY SubsequenceParts
<1> HIDE DEF t
<1>2. \A i \in DOMAIN t : t[i].id \in Nat
  <2> SUFFICES ASSUME NEW i \in DOMAIN t PROVE t[i].id \in Nat
    OBVIOUS
  <2>1. t[i] \in ToSet(t) /\ t[i] \in S
    BY <1>1, ElementOfSeq, LenProperties DEF ToSet
  <2>2. t[i] \in E
    BY <1>1, <2>1
  <2> QED
    BY <2>1, <2>2
<1>3. EventIds(t) \in Seq(Nat)
  BY <1>1, <1>2, LenProperties DEF EventIds
<1> QED
  BY <1>3 DEF Chosen, t

----------------------------------------------------------------------------
(* The invariant.                                                          *)

Kinds == {"connect", "single", "batch", "next", "poll", "reidentify"}

Requests == {"single", "batch"}

Calls == [kind : Kinds, no : Nat, id : Nat, deadline : Nat, wait : Nat]

Outcomes == {"ok", "timeout", "closed", "auth", "session", "unexpected", "transport",
             "rejected", "request_closed"}

Endings == [kind : Kinds \cup {"none", "dropped"}, no : Nat, id : Nat, deadline : Nat,
            outcome : Outcomes, answer : Results \cup {"none"}, from : Nat]

ServerFrame == [op : (0 .. 9) \cup {-1}, decodes : {TRUE}, auth : BOOLEAN, rpc : Nat, id : Nat,
                ok : BOOLEAN]
                    \cup [op : {WsClose}, code : Nat]

IsAnswer(m) == m.op \in {OpRequestResponse, OpRequestBatchResponse}

Types ==
    /\ at \in {"idle", "flush", "recv", "settle", "gone"}
    /\ IF at \in {"idle", "gone"} THEN call = NoCall ELSE call \in Calls
    /\ sending \in OutgoingFrame
    /\ now \in Nat /\ wake \in Nat
    /\ result \in Endings
    /\ served \in Seq(Nat)
    /\ link \in Seq(ServerFrame)
    /\ socket \in {"up", "closing", "closed", "broken"}
    /\ obs \in [stage : {"new", "greeted", "identify", "reidentify", "ready"},
                open : SUBSET [id : Nat, batch : BOOLEAN]]
    /\ emitted \in Nat /\ garbage \in Nat
    /\ asked \in [1 .. MaxCalls -> SUBSET Nat]

\* A session that has come through the handshake.
Greeted(c) == c.session.phase \in {"Identified", "Closed"}

\* A connection between two calls of its session's methods: the session has
\* been drained, no call is completed twice in the inbox or both completed
\* there and pending, and what the inbox says of the handshake and the end is
\* so.
Fit(c) ==
    /\ c = [session |-> c.session, inbox |-> c.inbox]
    /\ WellFormed(c.session) /\ c.session.events = <<>>
    /\ c.inbox \in Seq(SessionEvent)
    /\ Exclusive(c.session, c.inbox)
    /\ HasClosed(c) => c.session.phase = "Closed"
    /\ \A i \in DOMAIN c.inbox : c.inbox[i].type = "Identified" => Greeted(c)

\* A call that connection c may be making.
Suits(c, k) ==
    /\ k \in Calls
    /\ k.kind # "connect" => Greeted(c)
    /\ k.kind \in Requests =>
            /\ k.id \in 1 .. c.session.nextId - 1
            /\ k.id \in PendingIds(c.session) => c.session.pending[k.id].deadline = k.deadline

\* Nothing in the inbox ends the call.
Unanswered(c, k) == Timed(k) => ~HasClosed(c) /\ ~Has(c, k)

Control ==
    /\ at # "gone" => Fit(conn)
    /\ at = "idle" => Greeted(conn)
    /\ at \in {"flush", "recv", "settle"} => Suits(conn, call)
    /\ at \in {"flush", "recv"} => call.kind # "reidentify" /\ Unanswered(conn, call)
    /\ at = "settle" => call.kind \in {"connect", "reidentify"} /\ ~HasClosed(conn)
    /\ at = "recv" => conn.session.outgoing = <<>>
    /\ at = "flush" /\ Timed(call) => call.deadline <= now + call.wait
    /\ at = "recv" /\ Timed(call) => call.deadline <= wake

\* The frames that OBS has not received yet, the first of them in send().
Unsent == IF at \in {"flush", "settle"} THEN <<sending>> \o conn.session.outgoing
                                        ELSE conn.session.outgoing

IsAnswered(e) == IsCompletion(e) /\ e.result \in {"ok", "status"}

\* OBS has received the request with this id, by the record a.
Reached(a, id) == id \in DOMAIN a /\ a[id] # {}

\* The frames out are calls of different ids, allocated before n, that OBS has
\* not received.
Unasked(a, out, n) ==
    \A i \in DOMAIN out : IsCall(out[i]) =>
        /\ out[i].id \in 1 .. n - 1 /\ a[out[i].id] = {}
        /\ \A j \in DOMAIN out : IsCall(out[j]) /\ out[j].id = out[i].id => i = j

\* What connection c has allocated by its n-th call, and what OBS has received
\* and has answered or may answer.
Accounted(c, n) ==
    /\ c.session.nextId <= n /\ c.session.nextId - 1 <= MaxCalls
    /\ \A id \in DOMAIN asked : c.session.nextId <= id => asked[id] = {}
    /\ \A r \in obs.open : Reached(asked, r.id)
    /\ \A i \in DOMAIN link : IsAnswer(link[i]) => Reached(asked, link[i].id)
    /\ \A e \in ToSet(c.inbox) : IsAnswered(e) => Reached(asked, e.id)

\* Which requests have been sent, and which of them may be answered.
Ledger ==
    /\ Accounted(conn, IF at = "idle" THEN result.no ELSE call.no)
    /\ Unasked(asked, Unsent, conn.session.nextId)
    /\ call.kind \in Requests => asked[call.id] \subseteq {call.no}

Replies ==
    /\ at # "gone" => Ledger
    /\ at = "gone" => result.kind \notin Requests
    /\ result.kind \in Requests /\ result.answer \in {"ok", "status"} =>
            result.from \in DOMAIN asked
    /\ OwnAnswer

\* The ids of the events under way.
UnderWay == EventIds(Subsequence(link, {i \in DOMAIN link : link[i].op = OpEvent}))

\* The events that OBS has sent.
Counted(n) == [i \in 1 .. n |-> i]

Order ==
    at # "gone" /\ socket \notin {"broken", "closed"} =>
        /\ conn.session.phase # "Closed"
        /\ (served \o EventsOf(conn)) \o UnderWay = Counted(emitted)

IInv == Types /\ Control /\ Replies /\ Order

----------------------------------------------------------------------------
(* What the pieces of a call do to a connection.                           *)

\* The events of OBS.
ObsEvents == {e \in SessionEvent : IsEvent(e)}

\* EventsOf lists them.
LEMMA EventsAreChosen ==
    ASSUME NEW c, c.inbox \in Seq(SessionEvent)
    PROVE  /\ EventsOf(c) = Chosen(c.inbox, ObsEvents)
           /\ EventsOf(c) \in Seq(Nat)
<1>1. \A i \in DOMAIN c.inbox : c.inbox[i] \in SessionEvent
  BY ElementOfSeq, LenProperties
<1>2. {i \in DOMAIN c.inbox : IsEvent(c.inbox[i])} = {i \in DOMAIN c.inbox : c.inbox[i] \in ObsEvents}
  BY <1>1 DEF ObsEvents
<1>3. EventsOf(c) = Chosen(c.inbox, ObsEvents)
  BY <1>2 DEF EventsOf, Chosen
<1>4. \A e \in SessionEvent : e \in ObsEvents => e.id \in Nat
  BY DEF ObsEvents, SessionEvent, IsEvent
<1> QED
  BY <1>3, <1>4, ChosenTyped

\* d is c once its session, which has become tt, has been drained.
DrainedTo(c, tt, d) ==
    /\ d = [session |-> d.session, inbox |-> d.inbox]
    /\ WellFormed(d.session) /\ d.session.events = <<>>
    /\ d.session.phase = tt.phase /\ d.session.nextId = tt.nextId
    /\ d.session.outgoing = tt.outgoing /\ d.session.pending = tt.pending
    /\ d.inbox \in Seq(SessionEvent) /\ d.inbox = c.inbox \o tt.events
    /\ Exclusive(d.session, d.inbox)
    /\ ToSet(d.inbox) = ToSet(c.inbox) \cup ToSet(tt.events)
    /\ tt.events \in Seq(SessionEvent)
    /\ EventsOf(d) = EventsOf(c) \o Chosen(tt.events, ObsEvents)

\* drain() completes no call twice.
LEMMA DrainEffect ==
    ASSUME NEW c, Fit(c), NEW tt, WellFormed(tt), Sound(c.session, tt)
    PROVE  DrainedTo(c, tt, Drain([c EXCEPT !.session = tt]))
<1> DEFINE d == Drain([c EXCEPT !.session = tt])
           s == [tt EXCEPT !.events = <<>>]
<1>1. /\ c = [session |-> c.session, inbox |-> c.inbox] /\ c.session.events = <<>>
      /\ c.inbox \in Seq(SessionEvent) /\ Exclusive(c.session, c.inbox)
      /\ WellFormed(c.session)
  BY DEF Fit
<1>2. d = [session |-> s, inbox |-> c.inbox \o tt.events]
  BY <1>1 DEF Drain
<1> HIDE DEF d
<1>3. tt.events \in Seq(SessionEvent)
  BY DEF WellFormed, WellTyped
<1>4. /\ WellFormed(s) /\ s.events = <<>> /\ s.phase = tt.phase /\ s.nextId = tt.nextId
      /\ s.outgoing = tt.outgoing /\ s.pending = tt.pending
  <2>1. <<>> \in Seq(SessionEvent)
    BY EmptySeq
  <2>2. /\ WellTyped(s) /\ s.events = <<>> /\ s.phase = tt.phase /\ s.nextId = tt.nextId
        /\ s.outgoing = tt.outgoing /\ s.pending = tt.pending
    BY <2>1 DEF WellFormed, WellTyped, PendingIds
  <2> HIDE DEF s
  <2> QED
    BY <2>2 DEF WellFormed, PendingIds
<1>5. PICK p : Reports(c.session, tt, p)
  BY DEF Sound
<1>6. tt.events = p
  BY <1>1, <1>5 DEF Reports
<1>7. Exclusive(tt, c.inbox \o tt.events)
  <2>1. Exclusive(tt, c.inbox \o p)
    BY <1>1, <1>5, ReportsExclusive
  <2> QED
    BY <1>6, <2>1
<1>8. Exclusive(s, c.inbox \o tt.events)
  BY <1>4, <1>7 DEF Exclusive, PendingIds
<1> HIDE DEF s
<1>9. ToSet(c.inbox \o tt.events) = ToSet(c.inbox) \cup ToSet(tt.events)
  BY <1>1, <1>3, ConcatElements
<1>10. EventsOf(d) = EventsOf(c) \o Chosen(tt.events, ObsEvents)
  <2>1. d.inbox = c.inbox \o tt.events /\ d.inbox \in Seq(SessionEvent)
    BY <1>1, <1>2, <1>3, ConcatProperties
  <2>2. /\ EventsOf(d) = Chosen(d.inbox, ObsEvents)
        /\ EventsOf(c) = Chosen(c.inbox, ObsEvents)
    BY <1>1, <2>1, EventsAreChosen
  <2>3. Chosen(c.inbox \o tt.events, ObsEvents) =
            Chosen(c.inbox, ObsEvents) \o Chosen(tt.events, ObsEvents)
    BY <1>1, <1>3, ChosenConcat
  <2> QED
    BY <2>1, <2>2, <2>3
<1>11. c.inbox \o tt.events \in Seq(SessionEvent)
  BY <1>1, <1>3, ConcatProperties
<1>12. DrainedTo(c, tt, d)
  BY <1>2, <1>3, <1>4, <1>8, <1>9, <1>10, <1>11 DEF DrainedTo
<1> QED
  BY <1>12 DEF d

\* What a call may do to c, apart from what its session reports and sends:
\* nothing is answered, and nothing is said or unsaid of the end.
Remains(c, d) ==
    /\ Fit(d)
    /\ d.session.phase = c.session.phase /\ d.session.nextId = c.session.nextId
    /\ \A id \in PendingIds(d.session) :
            id \in PendingIds(c.session) /\ d.session.pending[id] = c.session.pending[id]
    /\ HasClosed(d) <=> HasClosed(c)
    /\ \A e \in ToSet(d.inbox) : IsAnswered(e) => e \in ToSet(c.inbox)

\* Of two such steps one is made, and of none.
LEMMA RemainsTransitive ==
    ASSUME NEW b, NEW c, NEW d, Remains(b, c), Remains(c, d)
    PROVE  Remains(b, d)
BY DEF Remains

\* A connection that is left alone remains what it is.
LEMMA RemainsReflexive ==
    ASSUME NEW c, Fit(c)
    PROVE  Remains(c, c)
BY DEF Remains

\* The inbox loses elements, none of them Closed.
LEMMA FewerRemain ==
    ASSUME NEW c, Fit(c), NEW t, t \in Seq(SessionEvent), Within(t, c.inbox),
           \A i \in DOMAIN c.inbox : c.inbox[i].type = "Closed" => c.inbox[i] \in ToSet(t)
    PROVE  LET d == [c EXCEPT !.inbox = t]
           IN  Remains(c, d) /\ d.session = c.session /\ d.inbox = t
<1> DEFINE d == [c EXCEPT !.inbox = t]
<1>1. /\ c = [session |-> c.session, inbox |-> c.inbox] /\ c.session.events = <<>>
      /\ c.inbox \in Seq(SessionEvent) /\ Exclusive(c.session, c.inbox)
      /\ WellFormed(c.session)
      /\ HasClosed(c) => c.session.phase = "Closed"
      /\ \A i \in DOMAIN c.inbox : c.inbox[i].type = "Identified" => Greeted(c)
  BY DEF Fit
<1>2. d = [session |-> c.session, inbox |-> t] /\ d.session = c.session /\ d.inbox = t
  BY <1>1
<1> HIDE DEF d
<1>3. PICK g \in [DOMAIN t -> DOMAIN c.inbox] :
        /\ \A i \in DOMAIN t : t[i] = c.inbox[g[i]]
        /\ \A i, j \in DOMAIN t : g[i] = g[j] => i = j
  BY DEF Within
<1>4. Exclusive(c.session, t)
  <2>1. \A i, j \in DOMAIN t :
            IsCompletion(t[i]) /\ IsCompletion(t[j]) /\ t[i].id = t[j].id => i = j
    BY <1>1, <1>3 DEF Exclusive
  <2>2. \A i \in DOMAIN t : IsCompletion(t[i]) =>
            t[i].id \in 1 .. c.session.nextId - 1 \ PendingIds(c.session)
    BY <1>1, <1>3 DEF Exclusive
  <2> QED
    BY <2>1, <2>2 DEF Exclusive
<1>5. HasClosed(d) <=> HasClosed(c)
  <2>1. HasClosed(d) => HasClosed(c)
    BY <1>2, <1>3 DEF HasClosed
  <2>2. ASSUME HasClosed(c) PROVE HasClosed(d)
    <3>1. PICK i \in DOMAIN c.inbox : c.inbox[i].type = "Closed"
      BY <2>2 DEF HasClosed
    <3>2. PICK j \in DOMAIN t : t[j] = c.inbox[i]
      BY <3>1 DEF ToSet
    <3> QED
      BY <1>2, <3>1, <3>2 DEF HasClosed
  <2> QED
    BY <2>1, <2>2
<1>6. \A i \in DOMAIN d.inbox : d.inbox[i].type = "Identified" => Greeted(d)
  BY <1>1, <1>2, <1>3 DEF Greeted
<1>7. Fit(d)
  BY <1>1, <1>2, <1>4, <1>5, <1>6 DEF Fit
<1>8. ToSet(t) \subseteq ToSet(c.inbox)
  BY <1>3 DEF ToSet
<1>9. Remains(c, d)
  BY <1>2, <1>5, <1>7, <1>8 DEF Remains
<1> QED
  BY <1>2, <1>9 DEF d


\* What a call looks for, by its kind.
LEMMA WantedKinds ==
    ASSUME NEW e, NEW k
    PROVE  /\ k.kind = "connect" => (Wanted(e, k) <=> e.type = "Identified")
           /\ k.kind = "next" => (Wanted(e, k) <=> IsEvent(e))
           /\ k.kind \in Requests => (Wanted(e, k) <=> IsOwn(e, k))
BY DEF Wanted, Requests

\* A completion that a call takes is one, and carries its id.
LEMMA OwnCompletes ==
    ASSUME NEW e, NEW k, IsOwn(e, k)
    PROVE  IsCompletion(e) /\ e.id = k.id
BY DEF IsOwn, IsCompletion

\* extract() takes the first match and leaves the rest in its order.
Takes(c, k, d, f) ==
    /\ Remains(c, d) /\ d.session = c.session
    /\ f \in ToSet(c.inbox) /\ f \in SessionEvent /\ Wanted(f, k)
    /\ k.kind = "next" => <<f.id>> \o EventsOf(d) = EventsOf(c)
    /\ k.kind # "next" => EventsOf(d) = EventsOf(c)
    /\ k.kind \in Requests => ~Has(d, k)

\* Whatever the call is looking for.
LEMMA TakenRemains ==
    ASSUME NEW c, Fit(c), NEW k, k.kind \in Requests \cup {"connect", "next"}, Has(c, k)
    PROVE  Takes(c, k, Without(c, k), First(c, k))
<1> DEFINE p == Position(c, k)
           t == RemoveAt(c.inbox, p)
           d == Without(c, k)
           I == {i \in 1 .. Len(c.inbox) : Wanted(c.inbox[i], k)}
<1>1. c.inbox \in Seq(SessionEvent) /\ DOMAIN c.inbox = 1 .. Len(c.inbox)
  BY LenProperties DEF Fit
<1>2. p \in I /\ \A x \in I : p <= x
  <2>1. I \subseteq Nat /\ I # {}
    BY <1>1, LenProperties DEF Has
  <2>2. p = Min(I)
    BY <2>1 DEF Position, SelectInSeq
  <2> HIDE DEF I, p
  <2>3. Min(I) \in I /\ \A x \in I : Min(I) =< x
    BY <2>1, LeastOfNat
  <2> QED
    BY <2>2, <2>3
<1>3. p \in DOMAIN c.inbox /\ Wanted(c.inbox[p], k)
  BY <1>1, <1>2
<1>4. \A i \in DOMAIN c.inbox : Wanted(c.inbox[i], k) => p <= i
  BY <1>1, <1>2
<1> HIDE DEF I
<1>5. d = [c EXCEPT !.inbox = t] /\ First(c, k) = c.inbox[p]
  BY DEF Without, First
<1> HIDE DEF d, p
<1>6a. CutAt(SessionEvent, c.inbox, p, t)
  BY <1>1, <1>3, RemoveAtParts
<1>6. /\ t \in Seq(SessionEvent) /\ Within(t, c.inbox)
      /\ \A i \in DOMAIN t : \E j \in DOMAIN c.inbox : j # p /\ t[i] = c.inbox[j]
      /\ \A j \in DOMAIN c.inbox : j # p => c.inbox[j] \in ToSet(t)
  BY <1>6a DEF CutAt
<1>7. PICK a \in Seq(SessionEvent), b \in Seq(SessionEvent) :
        /\ c.inbox = (a \o <<c.inbox[p]>>) \o b /\ t = a \o b
        /\ \A i \in DOMAIN a : i < p /\ i \in DOMAIN c.inbox /\ a[i] = c.inbox[i]
  BY <1>6a DEF CutAt
<1> HIDE DEF t
<1>8. c.inbox[p] \in SessionEvent /\ c.inbox[p] \in ToSet(c.inbox)
  BY <1>1, <1>3, ElementOfSeq DEF ToSet
<1>9. Remains(c, d) /\ d.session = c.session /\ d.inbox = t
  <2>1. c.inbox[p].type # "Closed"
    BY <1>3, WantedKinds DEF IsEvent, IsOwn, Requests
  <2>2. \A i \in DOMAIN c.inbox : c.inbox[i].type = "Closed" => c.inbox[i] \in ToSet(t)
    BY <1>6, <2>1
  <2> QED
    BY <1>5, <1>6, <2>2, FewerRemain
<1> DEFINE f == c.inbox[p]
           A == Chosen(a, ObsEvents)
           B == Chosen(b, ObsEvents)
           F == Chosen(<<f>>, ObsEvents)
<1>10. EventsOf(c) = (A \o F) \o B /\ EventsOf(d) = A \o B
  <2>1. /\ EventsOf(c) = Chosen(c.inbox, ObsEvents)
        /\ EventsOf(d) = Chosen(t, ObsEvents)
    BY <1>1, <1>6, <1>9, EventsAreChosen
  <2>2. <<f>> \in Seq(SessionEvent) /\ a \o <<f>> \in Seq(SessionEvent)
    BY <1>8
  <2>3. Chosen((a \o <<f>>) \o b, ObsEvents) = Chosen(a \o <<f>>, ObsEvents) \o B
    BY <2>2, ChosenConcat
  <2>4. Chosen(a \o <<f>>, ObsEvents) = A \o F
    BY <2>2, ChosenConcat
  <2>5. Chosen(a \o b, ObsEvents) = A \o B
    BY ChosenConcat
  <2> QED
    BY <1>7, <2>1, <2>3, <2>4, <2>5
<1>11. F = IF IsEvent(f) THEN <<f.id>> ELSE <<>>
  <2>1. f \in ObsEvents <=> IsEvent(f)
    BY <1>8 DEF ObsEvents
  <2> QED
    BY <1>8, <2>1, ChosenOne
<1>12. A \in Seq(Nat) /\ B \in Seq(Nat) /\ (IsEvent(f) => f.id \in Nat)
  <2>1. \A e \in SessionEvent : e \in ObsEvents => e.id \in Nat
    BY DEF ObsEvents, SessionEvent, IsEvent
  <2> QED
    BY <1>8, <2>1, ChosenTyped DEF ObsEvents
<1>13. ASSUME k.kind = "next" PROVE <<f.id>> \o EventsOf(d) = EventsOf(c)
  <2>1. \A i \in DOMAIN a : a[i] \notin ObsEvents
    <3> SUFFICES ASSUME NEW i \in DOMAIN a PROVE ~IsEvent(a[i])
      BY DEF ObsEvents
    <3>1. i < p /\ i \in DOMAIN c.inbox /\ a[i] = c.inbox[i] /\ i \in Nat /\ p \in Nat
      BY <1>1, <1>3, <1>7
    <3>2. ~Wanted(c.inbox[i], k)
      BY <1>4, <3>1
    <3> QED
      BY <1>13, <3>1, <3>2, WantedKinds
  <2>2. A = <<>>
    BY <2>1, ChosenNone
  <2>3. F = <<f.id>> /\ f.id \in Nat
    BY <1>3, <1>11, <1>12, <1>13, WantedKinds
  <2> HIDE DEF A, B, F
  <2> QED
    BY <1>10, <1>12, <2>2, <2>3
<1>14. ASSUME k.kind # "next" PROVE EventsOf(d) = EventsOf(c)
  <2>1. ~IsEvent(f)
    BY <1>3, <1>14, WantedKinds DEF IsEvent, IsOwn, Requests
  <2>2. F = <<>>
    BY <1>11, <2>1
  <2> HIDE DEF A, B, F
  <2> QED
    BY <1>10, <1>12, <2>2
<1>15. ASSUME k.kind \in Requests PROVE ~Has(d, k)
  <2>1. /\ \A i \in DOMAIN c.inbox : Wanted(c.inbox[i], k) <=> IsOwn(c.inbox[i], k)
        /\ \A i \in DOMAIN t : Wanted(t[i], k) <=> IsOwn(t[i], k)
    BY <1>15, WantedKinds
  <2>2. \A i \in DOMAIN c.inbox : IsOwn(c.inbox[i], k) =>
            IsCompletion(c.inbox[i]) /\ c.inbox[i].id = k.id
    BY OwnCompletes
  <2>3. \A i, j \in DOMAIN c.inbox :
            IsCompletion(c.inbox[i]) /\ IsCompletion(c.inbox[j]) /\ c.inbox[i].id = c.inbox[j].id
                => i = j
    BY DEF Fit, Exclusive
  <2>4. \A i \in DOMAIN t : ~IsOwn(t[i], k)
    BY <1>3, <1>6, <2>1, <2>2, <2>3
  <2> QED
    BY <1>9, <2>1, <2>4 DEF Has
<1>16. Takes(c, k, d, f)
  BY <1>3, <1>8, <1>9, <1>13, <1>14, <1>15 DEF Takes
<1> QED
  BY <1>5, <1>16 DEF d

\* Failing the overdue calls into the inbox: nothing else is said, and the
\* call's own failure only if it is due.
Overdue(c, k, d) ==
    /\ Remains(c, d) /\ d.session.outgoing = c.session.outgoing
    /\ EventsOf(d) = EventsOf(c)
    /\ \A e \in ToSet(d.inbox) : \/ e \in ToSet(c.inbox)
                                 \/ IsOwn(e, k) => k.deadline <= now

\* That is all that HandleTimeout and drain() do.
LEMMA OverdueRemains ==
    ASSUME NEW c, Fit(c), NEW k, Suits(c, k), k.kind \in Requests, now \in Nat
    PROVE  Overdue(c, k, Drain([c EXCEPT !.session = HandleTimeout(@, now)]))
<1> DEFINE ss == c.session
           ids == Expired(ss, now)
           tt == HandleTimeout(ss, now)
           fs == Failures(ss, ids, "timeout")
           d == Drain([c EXCEPT !.session = tt])
<1>1. /\ WellFormed(ss) /\ WellTyped(ss) /\ ss.events = <<>> /\ c.inbox \in Seq(SessionEvent)
      /\ HasClosed(c) => ss.phase = "Closed"
      /\ \A i \in DOMAIN c.inbox : c.inbox[i].type = "Identified" => Greeted(c)
  BY DEF Fit, WellFormed
<1>2. ids \in SUBSET PendingIds(ss) /\ "timeout" \in Results
  BY DEF Expired, Results
<1>3. FailedSome(ss, tt, ids, "timeout")
  <2> HIDE DEF ids, ss
  <2>1. FailedSome(ss, RemovePending(PushFailures(ss, ids, "timeout"), ids), ids, "timeout")
    BY <1>1, <1>2, FailSome
  <2> QED
    BY <2>1 DEF HandleTimeout, ids
<1>4. Sound(ss, tt) /\ WellFormed(tt)
  BY <1>1, TimeoutSound DEF Sound
<1>5. DrainedTo(c, tt, d)
  <2> HIDE DEF d, tt, ss
  <2> QED
    BY <1>4, DrainEffect DEF d, ss
<1>6. FailsEach(ss, ids, "timeout", fs)
  <2> HIDE DEF ids, ss
  <2> QED
    BY <1>1, <1>2, FailuresOfPending
<1> HIDE DEF tt, d, fs
<1>7. tt.events = fs /\ fs \in Seq(SessionEvent)
  <2>1. fs \in Seq(SessionEvent)
    BY <1>6 DEF FailsEach
  <2>2. tt.events = <<>> \o fs
    BY <1>1, <1>3 DEF FailedSome, fs
  <2> QED
    BY <2>1, <2>2
<1>8. \A e \in ToSet(fs) : /\ IsCompletion(e) /\ e.result = "timeout" /\ e.id \in ids
                           /\ e.type \notin {"Event", "Closed", "Identified"}
  BY <1>6 DEF FailsEach, ToSet, IsCompletion
<1>9. /\ d.session.phase = ss.phase /\ d.session.nextId = ss.nextId
      /\ d.session.outgoing = ss.outgoing
      /\ \A id \in PendingIds(d.session) :
            id \in PendingIds(ss) /\ d.session.pending[id] = ss.pending[id]
  BY <1>3, <1>5 DEF FailedSome, DrainedTo, PendingIds
<1>10. ToSet(d.inbox) = ToSet(c.inbox) \cup ToSet(fs)
  BY <1>5, <1>7 DEF DrainedTo
<1>11. HasClosed(d) <=> HasClosed(c)
  <2>1. HasClosed(d) <=> \E e \in ToSet(d.inbox) : e.type = "Closed"
    BY DEF HasClosed, ToSet
  <2>2. HasClosed(c) <=> \E e \in ToSet(c.inbox) : e.type = "Closed"
    BY DEF HasClosed, ToSet
  <2> QED
    BY <1>8, <1>10, <2>1, <2>2
<1>12. \A i \in DOMAIN d.inbox : d.inbox[i].type = "Identified" => Greeted(d)
  <2>1. \A i \in DOMAIN d.inbox : d.inbox[i] \in ToSet(d.inbox)
    BY DEF ToSet
  <2>2. \A e \in ToSet(c.inbox) : e.type = "Identified" => Greeted(c)
    BY <1>1 DEF ToSet
  <2>3. Greeted(d) <=> Greeted(c)
    BY <1>9 DEF Greeted
  <2> QED
    BY <1>8, <1>10, <2>1, <2>2, <2>3
<1>13. Fit(d)
  BY <1>1, <1>5, <1>9, <1>11, <1>12 DEF Fit, DrainedTo
<1>14. \A e \in ToSet(d.inbox) : IsAnswered(e) => e \in ToSet(c.inbox)
  BY <1>8, <1>10 DEF IsAnswered
<1>15. Remains(c, d)
  BY <1>9, <1>11, <1>13, <1>14 DEF Remains
<1>16. EventsOf(d) = EventsOf(c)
  <2>1. \A i \in DOMAIN fs : fs[i] \notin ObsEvents
    BY <1>8 DEF ToSet, ObsEvents, IsEvent
  <2>2. Chosen(fs, ObsEvents) = <<>>
    BY <1>7, <2>1, ChosenNone
  <2>3. EventsOf(c) \in Seq(Nat)
    BY <1>1, EventsAreChosen
  <2>4. EventsOf(d) = EventsOf(c) \o <<>>
    BY <1>5, <1>7, <2>2 DEF DrainedTo
  <2> QED
    BY <2>3, <2>4
<1>17. \A id \in ids : id = k.id => k.deadline <= now
  BY DEF Suits, Expired
<1>18. \A e \in ToSet(fs) : IsOwn(e, k) => k.deadline <= now
  BY <1>8, <1>17 DEF IsOwn
<1>19. Overdue(c, k, d)
  BY <1>9, <1>10, <1>15, <1>16, <1>18 DEF Overdue
<1> QED
  BY <1>19 DEF d, tt

\* dispatch() hands out the events, and keeps the rest with Closed in it.
LEMMA DispatchedRemains ==
    ASSUME NEW c, Fit(c)
    PROVE  /\ Remains(c, Dispatched(c)) /\ Dispatched(c).session = c.session
           /\ EventsOf(Dispatched(c)) = <<>>
<1> DEFINE J == {i \in DOMAIN c.inbox : c.inbox[i].type \notin {"Event", "Identified"}}
           t == Subsequence(c.inbox, J)
<1>1. c.inbox \in Seq(SessionEvent)
  BY DEF Fit
<1>2. Dispatched(c) = [c EXCEPT !.inbox = t]
  BY DEF Dispatched
<1>3. /\ t \in Seq(SessionEvent) /\ Within(t, c.inbox)
      /\ ToSet(t) = {c.inbox[j] : j \in J \cap DOMAIN c.inbox}
  <2> HIDE DEF J
  <2> QED
    BY <1>1, SubsequenceParts
<1> HIDE DEF t
<1>4. \A i \in DOMAIN c.inbox : c.inbox[i].type = "Closed" => c.inbox[i] \in ToSet(t)
  BY <1>3
<1>5. \A i \in DOMAIN t : t[i] \notin ObsEvents
  <2>1. \A i \in DOMAIN t : t[i] \in ToSet(t)
    BY DEF ToSet
  <2> QED
    BY <1>3, <2>1 DEF ObsEvents, IsEvent
<1> HIDE DEF J
<1> DEFINE d == [c EXCEPT !.inbox = t]
<1>6. Remains(c, d) /\ d.session = c.session /\ d.inbox = t
  BY <1>3, <1>4, FewerRemain
<1> HIDE DEF d
<1>7. EventsOf(d) = Chosen(t, ObsEvents)
  BY <1>3, <1>6, EventsAreChosen
<1>8. Chosen(t, ObsEvents) = <<>>
  BY <1>3, <1>5, ChosenNone
<1> QED
  BY <1>2, <1>6, <1>7, <1>8 DEF d

----------------------------------------------------------------------------
(* What the session of a connection, which has been drained, is told.      *)

\* A frame that is no Close is a message that decodes.
LEMMA FrameIsMessage ==
    ASSUME NEW m \in ServerFrame, m.op # WsClose
    PROVE  IsIncoming(m) /\ m.decodes
<1>1. m \in [op : (0 .. 9) \cup {-1}, decodes : {TRUE}, auth : BOOLEAN, rpc : Nat, id : Nat,
             ok : BOOLEAN]
  BY DEF ServerFrame
<1>2. /\ m.op \in (0 .. 9) \cup {-1} /\ m.decodes \in {TRUE} /\ m.auth \in BOOLEAN
      /\ m.rpc \in Nat /\ m.id \in Nat /\ m.ok \in BOOLEAN
  BY <1>1
<1>3. m.decodes
  BY <1>2, Zenon
<1>4. m.op \in Int
  BY <1>2
<1> QED
  BY <1>2, <1>3, <1>4, Zenon DEF IsIncoming

\* The calls pending in tt were pending in ss, just so.
StillPending(ss, tt) ==
    \A id \in PendingIds(tt) : id \in PendingIds(ss) /\ tt.pending[id] = ss.pending[id]

\* OBS greets, and Identify is queued.
Greeting(ss, tt) ==
    /\ ss.phase = "AwaitingHello" /\ tt.phase = "Identifying"
    /\ tt.events = <<>> /\ tt.nextId = ss.nextId /\ StillPending(ss, tt)
    /\ \E frame \in OutgoingFrame : ~IsCall(frame) /\ tt.outgoing = Append(ss.outgoing, frame)

\* One thing is reported: an event for an event, an answer for an answer.
Told(ss, m, tt) ==
    /\ ss.phase \in {"Identifying", "Identified"} /\ tt.phase = "Identified"
    /\ tt.outgoing = ss.outgoing
    /\ tt.nextId = ss.nextId /\ StillPending(ss, tt)
    /\ \E e \in SessionEvent :
            /\ tt.events = <<e>> /\ e.type # "Closed"
            /\ IsEvent(e) <=> m.op = OpEvent
            /\ IsEvent(e) => e.id = m.id
            /\ IsCompletion(e) => IsAnswer(m) /\ e.id = m.id /\ IsAnswered(e)

\* A message is refused and changes nothing, ends the handshake, or does one
\* of the above; an event is refused only before the handshake is over.
Heard(ss, m, h) ==
    \/ /\ h.error \notin {"none", "AuthRequired"} /\ h.session = ss
       /\ ss.phase = "Identified" => m.op # OpEvent
    \/ h.error = "AuthRequired" /\ ss.phase = "AwaitingHello"
    \/ h.error = "none" /\ m.op # OpEvent /\ Greeting(ss, h.session)
    \/ h.error = "none" /\ Told(ss, m, h.session)

\* An answer is one event, whether or not the call is still pending.
LEMMA AnswerHeard ==
    ASSUME NEW ss, WellFormed(ss), ss.events = <<>>, ss.phase = "Identified",
           NEW m \in ServerFrame, m.op # WsClose, NEW batch \in BOOLEAN,
           m.op = IF batch THEN OpRequestBatchResponse ELSE OpRequestResponse
    PROVE  Heard(ss, m, OnAnswer(ss, m, batch))
<1> DEFINE done == Completion(m.id, batch, IF m.ok THEN "ok" ELSE "status")
           unmatched == [type |-> "Unmatched", id |-> m.id]
           h == OnAnswer(ss, m, batch)
           tt == h.session
           Left(e) == PushEvent(RemovePending(ss, {m.id}), e)
<1>1. m.id \in Nat /\ m.decodes /\ IsAnswer(m) /\ m.op # OpEvent
  <2>1. IsIncoming(m) /\ m.decodes
    BY FrameIsMessage
  <2> QED
    BY <2>1 DEF IsIncoming, IsAnswer, OpEvent, OpRequestBatchResponse, OpRequestResponse
<1>2. /\ done \in SessionEvent /\ IsCompletion(done) /\ done.id = m.id
      /\ done.result \in {"ok", "status"}
  BY <1>1, CompletionType DEF Results
<1>3. unmatched \in SessionEvent /\ ~IsCompletion(unmatched) /\ ~IsEvent(unmatched)
      /\ unmatched.type # "Closed"
  BY <1>1 DEF SessionEvent, IsCompletion, IsEvent
<1>4. h.error = "none" /\ (tt = Left(done) \/ tt = Left(unmatched))
  BY <1>1 DEF OnAnswer, Ok, Fail
<1> HIDE DEF done, unmatched, h
<1>5. ASSUME NEW e \in SessionEvent
      PROVE  /\ Left(e).phase = "Identified" /\ Left(e).outgoing = ss.outgoing
             /\ Left(e).nextId = ss.nextId /\ StillPending(ss, Left(e))
             /\ Left(e).events = <<e>>
  <2>1. Left(e).events = Append(<<>>, e)
    BY DEF PushEvent, RemovePending, WellFormed, WellTyped
  <2>2. /\ Left(e).phase = "Identified" /\ Left(e).outgoing = ss.outgoing
        /\ Left(e).nextId = ss.nextId
    BY DEF PushEvent, RemovePending, WellFormed, WellTyped
  <2>3. Left(e).pending = [k \in DOMAIN ss.pending \ {m.id} |-> ss.pending[k]]
    BY DEF PushEvent, RemovePending, WellFormed, WellTyped
  <2> HIDE DEF Left
  <2>4. StillPending(ss, Left(e))
    BY <2>3 DEF StillPending, PendingIds
  <2> QED
    BY <2>1, <2>2, <2>4
<1>6. IsAnswered(done) /\ ~IsEvent(done) /\ done.type # "Closed"
  BY <1>2 DEF IsAnswered, IsCompletion, IsEvent
<1>7. Told(ss, m, Left(done))
  <2> HIDE DEF Left
  <2> QED
    BY <1>1, <1>2, <1>5, <1>6 DEF Told
<1>8. Told(ss, m, Left(unmatched))
  <2> HIDE DEF Left
  <2> QED
    BY <1>1, <1>3, <1>5 DEF Told
<1> HIDE DEF Left
<1>9. Heard(ss, m, h)
  BY <1>4, <1>7, <1>8 DEF Heard
<1> QED
  BY <1>9 DEF h

\* handle_message() in every phase.
LEMMA MessageHeard ==
    ASSUME NEW ss, WellFormed(ss), ss.events = <<>>,
           NEW m \in ServerFrame, m.op # WsClose
    PROVE  Heard(ss, m, HandleMessage(ss, m, TRUE))
<1>1. IsIncoming(m) /\ m.decodes
  BY FrameIsMessage
<1>2. ASSUME ss.phase = "AwaitingHello", m.op = OpHello PROVE Heard(ss, m, OnHello(ss, m, TRUE))
  <2> DEFINE h == OnHello(ss, m, TRUE)
             frame == [op |-> OpIdentify, rpc |-> AgreedRpc(ss, m),
                       auth |-> m.auth, subs |-> ss.subs]
  <2>1. frame \in OutgoingFrame /\ ~IsCall(frame)
    <3>1. AgreedRpc(ss, m) \in Nat
      BY <1>1 DEF AgreedRpc, WellFormed, WellTyped, IsIncoming
    <3> QED
      BY <1>1, <3>1 DEF OutgoingFrame, OpIdentify, WellFormed, WellTyped, IsIncoming,
                        IsCall, OpRequest, OpRequestBatch
  <2>2. \/ h.error = "AuthRequired"
        \/ /\ h.error = "none" /\ h.session.phase = "Identifying"
           /\ h.session.events = <<>> /\ h.session.nextId = ss.nextId
           /\ h.session.pending = ss.pending
           /\ h.session.outgoing = Append(ss.outgoing, frame)
    BY <1>1 DEF OnHello, Ok, Fail, PushEvent, Queue, WellFormed, WellTyped
  <2>3. m.op # OpEvent
    BY <1>2 DEF OpHello, OpEvent
  <2> HIDE DEF h, frame
  <2>4. Heard(ss, m, h)
    BY <1>2, <2>1, <2>2, <2>3 DEF Heard, Greeting, StillPending, PendingIds
  <2> QED
    BY <2>4 DEF h
<1>3. ASSUME NEW e \in SessionEvent, e.type # "Closed", ~IsCompletion(e),
             IsEvent(e) <=> m.op = OpEvent, IsEvent(e) => e.id = m.id,
             NEW tt, tt.events = Append(ss.events, e), tt.phase = "Identified",
             tt.outgoing = ss.outgoing, tt.nextId = ss.nextId, tt.pending = ss.pending,
             ss.phase \in {"Identifying", "Identified"}
      PROVE  Told(ss, m, tt)
  <2>1. tt.events = <<e>>
    BY <1>3
  <2> QED
    BY <1>3, <2>1 DEF Told, StillPending, PendingIds
<1>4. ASSUME ss.phase = "Identifying", m.op = OpIdentified PROVE Heard(ss, m, OnIdentified(ss, m))
  <2> DEFINE h == OnIdentified(ss, m)
             e == [type |-> "Identified", rpc |-> m.rpc]
             tt == h.session
  <2>1. /\ e \in SessionEvent /\ e.type # "Closed" /\ ~IsCompletion(e)
        /\ ~IsEvent(e) /\ m.op # OpEvent
    BY <1>1, <1>4 DEF SessionEvent, IsIncoming, IsCompletion, IsEvent, OpIdentified, OpEvent
  <2>2. /\ h.error = "none"
        /\ tt.events = Append(ss.events, e) /\ tt.phase = "Identified"
        /\ tt.outgoing = ss.outgoing /\ tt.nextId = ss.nextId /\ tt.pending = ss.pending
    BY <1>1 DEF OnIdentified, Ok, Fail, PushEvent, WellFormed, WellTyped
  <2> HIDE DEF h, e
  <2>3. Told(ss, m, tt)
    BY <1>3, <1>4, <2>1, <2>2
  <2>4. Heard(ss, m, h)
    BY <2>2, <2>3 DEF Heard
  <2> QED
    BY <2>4 DEF h
<1>5. ASSUME ss.phase = "Identified", m.op = OpEvent PROVE Heard(ss, m, OnEvent(ss, m))
  <2> DEFINE h == OnEvent(ss, m)
             e == [type |-> "Event", id |-> m.id]
             tt == h.session
  <2>1. /\ e \in SessionEvent /\ e.type # "Closed" /\ ~IsCompletion(e)
        /\ IsEvent(e) /\ e.id = m.id
    BY <1>1 DEF SessionEvent, IsIncoming, IsCompletion, IsEvent
  <2>2. /\ h.error = "none"
        /\ tt.events = Append(ss.events, e) /\ tt.phase = "Identified"
        /\ tt.outgoing = ss.outgoing /\ tt.nextId = ss.nextId /\ tt.pending = ss.pending
    BY <1>1, <1>5 DEF OnEvent, Ok, Fail, PushEvent, WellFormed, WellTyped
  <2> HIDE DEF h, e
  <2>3. Told(ss, m, tt)
    BY <1>3, <1>5, <2>1, <2>2
  <2>4. Heard(ss, m, h)
    BY <2>2, <2>3 DEF Heard
  <2> QED
    BY <2>4 DEF h
<1>6. ASSUME ss.phase = "Identified", m.op = OpRequestResponse
      PROVE  Heard(ss, m, OnAnswer(ss, m, FALSE))
  BY <1>6, AnswerHeard
<1>7. ASSUME ss.phase = "Identified", m.op = OpRequestBatchResponse
      PROVE  Heard(ss, m, OnAnswer(ss, m, TRUE))
  BY <1>7, AnswerHeard
<1>8. ASSUME NEW error, error \notin {"none", "AuthRequired"},
             ss.phase = "Identified" => m.op # OpEvent
      PROVE  Heard(ss, m, Fail(ss, error))
  BY <1>8 DEF Heard, Fail
<1>9. OpEvent # -1 /\ OpEvent # OpRequestResponse /\ OpEvent # OpRequestBatchResponse
  BY DEF OpEvent, OpRequestResponse, OpRequestBatchResponse
<1> HIDE DEF Heard
<1>10. CASE ss.phase = "Closed"
  <2>1. HandleMessage(ss, m, TRUE) = Fail(ss, "Closed")
    BY <1>10 DEF HandleMessage
  <2>2. Heard(ss, m, Fail(ss, "Closed"))
    BY <1>8, <1>10
  <2> QED
    BY <2>1, <2>2
<1>11. CASE ss.phase # "Closed" /\ m.op = -1
  <2>1. HandleMessage(ss, m, TRUE) = Fail(ss, "Decode")
    BY <1>11 DEF HandleMessage, OpHello, OpIdentified, OpEvent, OpRequestResponse,
                 OpRequestBatchResponse
  <2>2. Heard(ss, m, Fail(ss, "Decode"))
    BY <1>8, <1>9, <1>11
  <2> QED
    BY <2>1, <2>2
<1>12. CASE ss.phase = "AwaitingHello" /\ m.op # -1
  <2>1. HandleMessage(ss, m, TRUE) =
            IF m.op = OpHello THEN OnHello(ss, m, TRUE) ELSE Fail(ss, "Unexpected")
    BY <1>12 DEF HandleMessage
  <2> QED
    BY <1>2, <1>8, <1>12, <2>1
<1>13. CASE ss.phase = "Identifying" /\ m.op # -1
  <2>1. HandleMessage(ss, m, TRUE) =
            IF m.op = OpIdentified THEN OnIdentified(ss, m) ELSE Fail(ss, "Unexpected")
    BY <1>13 DEF HandleMessage
  <2> QED
    BY <1>4, <1>8, <1>13, <2>1
<1>14. CASE ss.phase = "Identified" /\ m.op # -1
  <2> DEFINE h == HandleMessage(ss, m, TRUE)
  <2>1. m.op = OpEvent => h = OnEvent(ss, m)
    BY <1>14 DEF HandleMessage, OpEvent, OpRequestResponse, OpRequestBatchResponse
  <2>2. m.op = OpRequestResponse => h = OnAnswer(ss, m, FALSE)
    BY <1>14 DEF HandleMessage, OpEvent, OpRequestResponse, OpRequestBatchResponse
  <2>3. m.op = OpRequestBatchResponse => h = OnAnswer(ss, m, TRUE)
    BY <1>14 DEF HandleMessage, OpEvent, OpRequestResponse, OpRequestBatchResponse
  <2>4. m.op \notin {OpEvent, OpRequestResponse, OpRequestBatchResponse}
            => h = Fail(ss, "Unexpected")
    BY <1>14 DEF HandleMessage
  <2> HIDE DEF h
  <2>5. CASE m.op = OpEvent
    BY <1>5, <1>14, <2>1, <2>5 DEF h
  <2>6. CASE m.op = OpRequestResponse
    BY <1>6, <1>14, <2>2, <2>6 DEF h
  <2>7. CASE m.op = OpRequestBatchResponse
    BY <1>7, <1>14, <2>3, <2>7 DEF h
  <2>8. CASE m.op \notin {OpEvent, OpRequestResponse, OpRequestBatchResponse}
    <3>1. Heard(ss, m, Fail(ss, "Unexpected"))
      BY <1>8, <2>8
    <3> QED
      BY <2>4, <2>8, <3>1 DEF h
  <2> QED
    BY <2>5, <2>6, <2>7, <2>8
<1>15. ss.phase \in {"AwaitingHello", "Identifying", "Identified", "Closed"}
  BY DEF WellFormed, WellTyped, Phases
<1> QED
  BY <1>10, <1>11, <1>12, <1>13, <1>14, <1>15

----------------------------------------------------------------------------
(* What the session hears, and what the connection does with it.           *)

\* Closed is in the inbox, seen as a set.
LEMMA HasClosedIn ==
    ASSUME NEW c
    PROVE  HasClosed(c) <=> \E e \in ToSet(c.inbox) : e.type = "Closed"
BY DEF HasClosed, ToSet

\* A connection whose session was drained is fit when its inbox and its phase
\* agree.
LEMMA DrainedFit ==
    ASSUME NEW c, NEW tt, NEW d, DrainedTo(c, tt, d),
           \A e \in ToSet(d.inbox) : /\ e.type = "Closed" => tt.phase = "Closed"
                                     /\ e.type = "Identified" =>
                                            tt.phase \in {"Identified", "Closed"}
    PROVE  Fit(d)
<1>1. /\ d = [session |-> d.session, inbox |-> d.inbox]
      /\ WellFormed(d.session) /\ d.session.events = <<>>
      /\ d.inbox \in Seq(SessionEvent) /\ Exclusive(d.session, d.inbox)
      /\ d.session.phase = tt.phase
  BY DEF DrainedTo
<1>2. HasClosed(d) => d.session.phase = "Closed"
  BY <1>1, HasClosedIn
<1>3. \A i \in DOMAIN d.inbox : d.inbox[i].type = "Identified" => Greeted(d)
  BY <1>1 DEF Greeted, ToSet
<1> QED
  BY <1>1, <1>2, <1>3 DEF Fit

\* What an Identified or Identifying session makes of a message m.
Ingested(c, m, d) ==
    /\ Fit(d) /\ d.session.phase # "Closed" /\ ~HasClosed(d) /\ ~HasClosed(c)
    /\ Greeted(c) => Greeted(d)
    /\ d.session.nextId = c.session.nextId /\ StillPending(c.session, d.session)
    /\ \/ d.session.outgoing = c.session.outgoing
       \/ /\ ~Greeted(c)
          /\ \E frame \in OutgoingFrame :
                ~IsCall(frame) /\ d.session.outgoing = Append(c.session.outgoing, frame)
    /\ m.op = OpEvent => EventsOf(d) = EventsOf(c) \o <<m.id>>
    /\ m.op # OpEvent => EventsOf(d) = EventsOf(c)
    /\ \A e \in ToSet(d.inbox) :
            \/ e \in ToSet(c.inbox)
            \/ IsCompletion(e) => IsAnswer(m) /\ e.id = m.id /\ IsAnswered(e)

\* A message that is no error is drained into the inbox.
LEMMA MessageIngested ==
    ASSUME NEW c, Fit(c), NEW m \in ServerFrame, m.op # WsClose,
           NEW h, h = HandleMessage(c.session, m, TRUE), h.error = "none"
    PROVE  Ingested(c, m, Drain([c EXCEPT !.session = h.session]))
<1> DEFINE ss == c.session
           tt == h.session
           d == Drain([c EXCEPT !.session = tt])
<1>1. /\ WellFormed(ss) /\ ss.events = <<>> /\ c.inbox \in Seq(SessionEvent)
      /\ HasClosed(c) => ss.phase = "Closed"
      /\ \A i \in DOMAIN c.inbox : c.inbox[i].type = "Identified" => Greeted(c)
  BY DEF Fit
<1>2. Heard(ss, m, h)
  BY <1>1, MessageHeard
<1>3. Sound(ss, tt) /\ WellFormed(tt)
  <2>1. IsIncoming(m) /\ TRUE \in BOOLEAN
    BY FrameIsMessage
  <2>2. Sound(ss, HandleMessage(ss, m, TRUE).session)
    BY <1>1, <2>1, MessageSound
  <2> QED
    BY <2>2 DEF Sound
<1> HIDE DEF tt
<1>4. DrainedTo(c, tt, d)
  <2> HIDE DEF d
  <2> QED
    BY <1>3, DrainEffect DEF d
<1> HIDE DEF d
<1>5. /\ d.session.phase = tt.phase /\ d.session.nextId = tt.nextId
      /\ d.session.outgoing = tt.outgoing /\ d.session.pending = tt.pending
      /\ ToSet(d.inbox) = ToSet(c.inbox) \cup ToSet(tt.events)
      /\ EventsOf(d) = EventsOf(c) \o Chosen(tt.events, ObsEvents)
  BY <1>4 DEF DrainedTo
<1>6. EventsOf(c) \in Seq(Nat)
  BY <1>1, EventsAreChosen
<1>7. \A e \in ToSet(c.inbox) : /\ e.type = "Closed" => ss.phase = "Closed"
                                /\ e.type = "Identified" => Greeted(c)
  BY <1>1, HasClosedIn DEF ToSet
<1>8. ASSUME m.op # OpEvent, Greeting(ss, tt) PROVE Ingested(c, m, d)
  <2>1. /\ ss.phase = "AwaitingHello" /\ tt.phase = "Identifying"
        /\ tt.events = <<>> /\ tt.nextId = ss.nextId /\ StillPending(ss, tt)
    BY <1>8 DEF Greeting
  <2>2. PICK frame \in OutgoingFrame : ~IsCall(frame) /\ tt.outgoing = Append(ss.outgoing, frame)
    BY <1>8 DEF Greeting
  <2>3. ToSet(d.inbox) = ToSet(c.inbox)
    <3>1. ToSet(<<>>) = {}
      BY DEF ToSet
    <3> QED
      BY <1>5, <2>1, <3>1
  <2>4. ~HasClosed(c) /\ ~Greeted(c)
    BY <1>1, <2>1 DEF Greeted
  <2>5. Fit(d)
    BY <1>4, <1>7, <2>1, <2>3, <2>4, DrainedFit
  <2>6. Chosen(tt.events, ObsEvents) = <<>>
    <3>1. <<>> \in Seq(SessionEvent) /\ \A i \in DOMAIN <<>> : <<>>[i] \notin ObsEvents
      BY EmptySeq
    <3>2. Chosen(<<>>, ObsEvents) = <<>>
      BY <3>1, ChosenNone
    <3> QED
      BY <2>1, <3>2
  <2>7. EventsOf(d) = EventsOf(c)
    BY <1>5, <1>6, <2>6
  <2>8. ~HasClosed(d) /\ d.session.phase # "Closed"
    BY <1>5, <2>1, <2>5 DEF Fit
  <2>9. StillPending(ss, d.session)
    BY <1>5, <2>1 DEF StillPending, PendingIds
  <2> QED
    BY <1>5, <1>8, <2>1, <2>2, <2>3, <2>4, <2>5, <2>7, <2>8, <2>9 DEF Ingested
<1>9. ASSUME Told(ss, m, tt) PROVE Ingested(c, m, d)
  <2>1. /\ ss.phase \in {"Identifying", "Identified"} /\ tt.phase = "Identified"
        /\ tt.outgoing = ss.outgoing
        /\ tt.nextId = ss.nextId /\ StillPending(ss, tt)
    BY <1>9 DEF Told
  <2>2. PICK e \in SessionEvent :
            /\ tt.events = <<e>> /\ e.type # "Closed"
            /\ IsEvent(e) <=> m.op = OpEvent
            /\ IsEvent(e) => e.id = m.id
            /\ IsCompletion(e) => IsAnswer(m) /\ e.id = m.id /\ IsAnswered(e)
    BY <1>9 DEF Told
  <2>3. ToSet(d.inbox) = ToSet(c.inbox) \cup {e}
    <3>1. ToSet(<<e>>) = {e}
      BY DEF ToSet
    <3> QED
      BY <1>5, <2>2, <3>1
  <2>4. ~HasClosed(c)
    BY <1>1, <2>1
  <2>5. Fit(d)
    <3>1. \A x \in ToSet(d.inbox) : x.type # "Closed"
      BY <2>2, <2>3, <2>4, HasClosedIn
    <3> QED
      BY <1>4, <2>1, <3>1, DrainedFit
  <2>6. Chosen(tt.events, ObsEvents) = IF e \in ObsEvents THEN <<e.id>> ELSE <<>>
    BY <2>2, ChosenOne
  <2>7. e \in ObsEvents <=> m.op = OpEvent
    BY <2>2 DEF ObsEvents
  <2>8. /\ m.op = OpEvent => EventsOf(d) = EventsOf(c) \o <<m.id>>
        /\ m.op # OpEvent => EventsOf(d) = EventsOf(c)
    <3>1. ASSUME m.op = OpEvent PROVE EventsOf(d) = EventsOf(c) \o <<m.id>>
      <4>1. e.id = m.id /\ Chosen(tt.events, ObsEvents) = <<e.id>>
        BY <2>2, <2>6, <2>7, <3>1
      <4> QED
        BY <1>5, <4>1
    <3>2. ASSUME m.op # OpEvent PROVE EventsOf(d) = EventsOf(c)
      <4>1. Chosen(tt.events, ObsEvents) = <<>>
        BY <2>6, <2>7, <3>2
      <4>2. EventsOf(d) = EventsOf(c) \o <<>>
        BY <1>5, <4>1
      <4> QED
        BY <1>6, <4>2
    <3> QED
      BY <3>1, <3>2
  <2>9. ~HasClosed(d) /\ d.session.phase # "Closed" /\ Greeted(d)
    BY <1>5, <2>1, <2>5 DEF Fit, Greeted
  <2>10. StillPending(ss, d.session)
    BY <1>5, <2>1 DEF StillPending, PendingIds
  <2> QED
    BY <1>5, <2>1, <2>2, <2>3, <2>4, <2>5, <2>8, <2>9, <2>10 DEF Ingested
<1>10. (m.op # OpEvent /\ Greeting(ss, tt)) \/ Told(ss, m, tt)
  BY <1>2 DEF Heard, tt
<1>11. Ingested(c, m, d)
  BY <1>8, <1>9, <1>10
<1> QED
  BY <1>11 DEF d, tt

\* What a close leaves: Closed, and the calls it cut off.
Cut(c, d) ==
    /\ Fit(d) /\ d.session.phase = "Closed" /\ HasClosed(d)
    /\ d.session.nextId = c.session.nextId /\ PendingIds(d.session) = {}
    /\ d.session.outgoing = c.session.outgoing
    /\ EventsOf(d) = EventsOf(c)
    /\ \A e \in ToSet(d.inbox) : \/ e \in ToSet(c.inbox)
                                 \/ IsCompletion(e) => e.result = "closed"

\* A close is drained into the inbox.
LEMMA CloseIngested ==
    ASSUME NEW c, Fit(c), NEW code \in Nat
    PROVE  Cut(c, Drain([c EXCEPT !.session = HandleClose(@, code)]))
<1> DEFINE ss == c.session
           tt == HandleClose(ss, code)
           d == Drain([c EXCEPT !.session = tt])
<1>1. /\ WellFormed(ss) /\ ss.events = <<>> /\ c.inbox \in Seq(SessionEvent)
      /\ HasClosed(c) => ss.phase = "Closed"
  BY DEF Fit
<1> HIDE DEF ss
<1>2. PICK fs : ClosedWith(ss, tt, code, fs)
  BY <1>1, CloseEffect
<1>3. Sound(ss, tt) /\ WellFormed(tt)
  BY <1>1, CloseSound DEF Sound
<1> HIDE DEF tt
<1>4. DrainedTo(c, tt, d)
  <2> HIDE DEF d
  <2> QED
    BY <1>3, DrainEffect DEF d, ss
<1> HIDE DEF d
<1> DEFINE p == <<ClosedEvent(code)>> \o fs
<1>5. /\ tt.phase = "Closed" /\ tt.nextId = ss.nextId /\ PendingIds(tt) = {}
      /\ tt.outgoing = ss.outgoing /\ ClosedEvent(code) \in SessionEvent
      /\ FailsEach(ss, PendingIds(ss), "closed", fs)
  BY <1>2 DEF ClosedWith
<1>6. fs \in Seq(SessionEvent) /\ <<ClosedEvent(code)>> \in Seq(SessionEvent)
  BY <1>5 DEF FailsEach
<1>7. \A e \in ToSet(fs) : IsCompletion(e) /\ e.result = "closed"
  BY <1>5 DEF FailsEach, ToSet
<1>8. p \in Seq(SessionEvent) /\ tt.events = p
  <2>1. tt.events = <<>> \o p /\ p \in Seq(SessionEvent)
    BY <1>1, <1>2 DEF ClosedWith
  <2> HIDE DEF p
  <2> QED
    BY <2>1
<1>9. ToSet(p) = ToSet(<<ClosedEvent(code)>>) \cup ToSet(fs)
  BY <1>6, ConcatElements
<1>10. ToSet(<<ClosedEvent(code)>>) = {ClosedEvent(code)}
  BY DEF ToSet
<1> HIDE DEF p
<1>11. /\ d.session.phase = tt.phase /\ d.session.nextId = tt.nextId
       /\ d.session.outgoing = tt.outgoing /\ d.session.pending = tt.pending
       /\ ToSet(d.inbox) = ToSet(c.inbox) \cup ToSet(p)
       /\ EventsOf(d) = EventsOf(c) \o Chosen(p, ObsEvents)
  BY <1>4, <1>8 DEF DrainedTo
<1>12. Fit(d)
  BY <1>4, <1>5, DrainedFit
<1>13. HasClosed(d)
  BY <1>9, <1>10, <1>11, HasClosedIn DEF ClosedEvent
<1>14. ~IsCompletion(ClosedEvent(code)) /\ ClosedEvent(code).type # "Event"
  BY DEF ClosedEvent, IsCompletion
<1>15. Chosen(p, ObsEvents) = <<>>
  <2>1. \A e \in ToSet(p) : e.type # "Event"
    BY <1>7, <1>9, <1>10, <1>14 DEF IsCompletion
  <2>2. \A i \in DOMAIN p : p[i] \notin ObsEvents
    BY <2>1 DEF ToSet, ObsEvents, IsEvent
  <2> QED
    BY <1>8, <2>2, ChosenNone
<1>16. EventsOf(d) = EventsOf(c)
  <2>1. EventsOf(c) \in Seq(Nat)
    BY <1>1, EventsAreChosen
  <2> QED
    BY <1>11, <1>15, <2>1
<1>17. \A e \in ToSet(d.inbox) : e \in ToSet(c.inbox) \/ (IsCompletion(e) => e.result = "closed")
  BY <1>7, <1>9, <1>10, <1>11, <1>14
<1>18. PendingIds(d.session) = {}
  BY <1>5, <1>11 DEF PendingIds
<1>19. Cut(c, d)
  BY <1>5, <1>11, <1>12, <1>13, <1>16, <1>17, <1>18 DEF Cut, ss
<1> QED
  BY <1>19 DEF d, tt, ss

\* The session changes and reports nothing, the inbox stays.
LEMMA SameInbox ==
    ASSUME NEW c, Fit(c), NEW tt, WellFormed(tt), tt.events = <<>>,
           tt.phase = c.session.phase, c.session.nextId <= tt.nextId,
           PendingIds(tt) \subseteq PendingIds(c.session) \cup {c.session.nextId}
    PROVE  LET d == [c EXCEPT !.session = tt]
           IN  /\ Fit(d) /\ d.session = tt /\ d.inbox = c.inbox
               /\ EventsOf(d) = EventsOf(c) /\ (HasClosed(d) <=> HasClosed(c))
<1> DEFINE d == [c EXCEPT !.session = tt]
<1>1. /\ c = [session |-> c.session, inbox |-> c.inbox]
      /\ c.inbox \in Seq(SessionEvent) /\ Exclusive(c.session, c.inbox)
      /\ WellFormed(c.session)
      /\ HasClosed(c) => c.session.phase = "Closed"
      /\ \A i \in DOMAIN c.inbox : c.inbox[i].type = "Identified" => Greeted(c)
  BY DEF Fit
<1>2. d = [session |-> tt, inbox |-> c.inbox] /\ d.session = tt /\ d.inbox = c.inbox
  BY <1>1
<1> HIDE DEF d
<1>3. c.session.nextId \in Nat /\ tt.nextId \in Nat
  BY <1>1 DEF WellFormed, WellTyped
<1>4. Exclusive(tt, c.inbox)
  BY <1>1, <1>3 DEF Exclusive
<1>5. EventsOf(d) = EventsOf(c) /\ (HasClosed(d) <=> HasClosed(c))
  BY <1>2 DEF EventsOf, HasClosed
<1>6. Fit(d)
  BY <1>1, <1>2, <1>4, <1>5 DEF Fit, Greeted
<1> QED
  BY <1>2, <1>5, <1>6 DEF d

\* A request has been made of connection c, or refused.
Entered(c, e, d, deadline, batch) ==
    /\ Fit(d) /\ d.session = e.session /\ d.inbox = c.inbox
    /\ d.session.phase = c.session.phase
    /\ EventsOf(d) = EventsOf(c) /\ (HasClosed(d) <=> HasClosed(c))
    /\ e.error # "none" =>
            /\ d.session.outgoing = c.session.outgoing
            /\ d.session.nextId \in {c.session.nextId, c.session.nextId + 1}
    /\ e.error = "none" =>
            /\ d.session.phase = "Identified"
            /\ d.session.nextId = c.session.nextId + 1
            /\ d.session.outgoing =
                    Append(c.session.outgoing, CallFrame(c.session.nextId, batch))
            /\ d.session.pending[c.session.nextId].deadline = deadline

\* send_request(), send_raw() and send_batch().
LEMMA RequestEntered ==
    ASSUME NEW c, Fit(c), NEW deadline \in Nat, NEW batch \in BOOLEAN,
           NEW encodes \in BOOLEAN,
           NEW e, e = Enqueue(c.session, deadline, batch, encodes)
    PROVE  Entered(c, e, [c EXCEPT !.session = e.session], deadline, batch)
<1> DEFINE ss == c.session
           tt == e.session
           d == [c EXCEPT !.session = tt]
<1>1. WellFormed(ss) /\ ss.events = <<>> /\ ss.nextId \in Nat
  BY DEF Fit, WellFormed, WellTyped
<1>2. \/ e.error # "none" /\ tt = ss
      \/ e.error # "none" /\ tt = AllocId(ss)
      \/ /\ e.error = "none" /\ ss.phase = "Identified"
         /\ e = Enqueue(ss, deadline, batch, TRUE)
  BY DEF Enqueue, Fail, Ok, EnsureIdentified
<1>3. WellFormed(tt)
  BY <1>1, EnqueueSound DEF Sound
<1> HIDE DEF tt, ss
<1>4. CASE e.error # "none" /\ tt = ss
  <2>1. /\ tt.events = <<>> /\ tt.phase = ss.phase /\ ss.nextId <= tt.nextId
        /\ PendingIds(tt) \subseteq PendingIds(ss) \cup {ss.nextId}
    BY <1>1, <1>4
  <2>2. /\ Fit(d) /\ d.session = tt /\ d.inbox = c.inbox
        /\ EventsOf(d) = EventsOf(c) /\ (HasClosed(d) <=> HasClosed(c))
    BY <1>3, <2>1, SameInbox DEF ss
  <2> HIDE DEF d
  <2>3. Entered(c, e, d, deadline, batch)
    BY <1>4, <2>2 DEF Entered, ss, tt
  <2> QED
    BY <2>3 DEF d, tt
<1>5. CASE e.error # "none" /\ tt = AllocId(ss)
  <2>0. /\ tt.events = ss.events /\ tt.phase = ss.phase /\ tt.nextId = ss.nextId + 1
        /\ tt.outgoing = ss.outgoing /\ tt.pending = ss.pending
    BY <1>1, <1>5 DEF AllocId, WellFormed, WellTyped
  <2>1. /\ tt.events = <<>> /\ tt.phase = ss.phase /\ ss.nextId <= tt.nextId
        /\ PendingIds(tt) \subseteq PendingIds(ss) \cup {ss.nextId}
    BY <1>1, <2>0 DEF PendingIds
  <2>2. /\ Fit(d) /\ d.session = tt /\ d.inbox = c.inbox
        /\ EventsOf(d) = EventsOf(c) /\ (HasClosed(d) <=> HasClosed(c))
    BY <1>3, <2>1, SameInbox DEF ss
  <2> HIDE DEF d
  <2>3. Entered(c, e, d, deadline, batch)
    BY <1>5, <2>0, <2>2 DEF Entered, ss, tt
  <2> QED
    BY <2>3 DEF d, tt
<1>6. CASE e.error = "none" /\ ss.phase = "Identified" /\ e = Enqueue(ss, deadline, batch, TRUE)
  <2>1. Enqueued(ss, tt, batch)
    BY <1>1, <1>6, EnqueueEffect DEF tt
  <2>2. tt.pending[ss.nextId].deadline = deadline
    <3> DEFINE pend == [k \in DOMAIN ss.pending \cup {ss.nextId} |->
                            IF k = ss.nextId THEN [deadline |-> deadline, batch |-> batch]
                                             ELSE ss.pending[k]]
           out == Append(ss.outgoing, CallFrame(ss.nextId, batch))
    <3>0. tt = [ss EXCEPT !.nextId = ss.nextId + 1, !.outgoing = out, !.pending = pend]
      BY <1>1, <1>6 DEF tt, Enqueue, Ok, Fail, InsertPending, Queue, AllocId, CallFrame,
                        WellFormed, WellTyped
    <3> HIDE DEF pend, out
    <3>1. tt.pending = pend
      BY <1>1, <3>0 DEF WellFormed, WellTyped
    <3>2. pend[ss.nextId].deadline = deadline
      BY DEF pend
    <3> QED
      BY <3>1, <3>2
  <2>3. /\ tt.events = <<>> /\ tt.phase = ss.phase /\ ss.nextId <= tt.nextId
        /\ PendingIds(tt) \subseteq PendingIds(ss) \cup {ss.nextId}
    BY <1>1, <1>6, <2>1 DEF Enqueued
  <2>4. /\ Fit(d) /\ d.session = tt /\ d.inbox = c.inbox
        /\ EventsOf(d) = EventsOf(c) /\ (HasClosed(d) <=> HasClosed(c))
    BY <1>3, <2>3, SameInbox DEF ss
  <2> HIDE DEF d
  <2>5. Entered(c, e, d, deadline, batch)
    BY <1>6, <2>1, <2>2, <2>4 DEF Entered, Enqueued, ss, tt
  <2> QED
    BY <2>5 DEF d, tt
<1> QED
  BY <1>2, <1>4, <1>5, <1>6

\* A reidentify has been made of connection c, or refused.
Renewed(c, r, d) ==
    /\ Fit(d) /\ d.inbox = c.inbox
    /\ d.session.phase = c.session.phase /\ d.session.nextId = c.session.nextId
    /\ EventsOf(d) = EventsOf(c) /\ (HasClosed(d) <=> HasClosed(c))
    /\ r.error # "none" => d.session.outgoing = c.session.outgoing
    /\ r.error = "none" =>
            /\ d.session.phase = "Identified"
            /\ \E frame \in OutgoingFrame :
                ~IsCall(frame) /\ d.session.outgoing = Append(c.session.outgoing, frame)

\* reidentify().
LEMMA ReidentifyEntered ==
    ASSUME NEW c, Fit(c), NEW subs \in Subscriptions, NEW encodes \in BOOLEAN,
           NEW r, r = Reidentify(c.session, subs, encodes)
    PROVE  Renewed(c, r, [c EXCEPT !.session = r.session])
<1> DEFINE ss == c.session
           tt == r.session
           d == [c EXCEPT !.session = tt]
           frame == [op |-> OpReidentify, subs |-> subs]
<1>1. WellFormed(ss) /\ ss.events = <<>> /\ ss.nextId \in Nat
  BY DEF Fit, WellFormed, WellTyped
<1>2. frame \in OutgoingFrame /\ ~IsCall(frame)
  BY DEF OutgoingFrame, OpReidentify, IsCall, OpRequest, OpRequestBatch
<1> HIDE DEF frame
<1>3. WellFormed(tt)
  BY <1>1, ReidentifySound DEF Sound
<1>4. /\ tt.events = ss.events /\ tt.phase = ss.phase /\ tt.nextId = ss.nextId
      /\ tt.pending = ss.pending
      /\ \/ r.error # "none" /\ tt.outgoing = ss.outgoing
         \/ /\ r.error = "none" /\ ss.phase = "Identified"
            /\ tt.outgoing = Append(ss.outgoing, frame)
  BY <1>1 DEF Reidentify, Ok, Fail, EnsureIdentified, Queue, WellFormed, WellTyped, frame
<1> HIDE DEF tt, ss
<1>5. /\ tt.events = <<>> /\ tt.phase = ss.phase /\ ss.nextId <= tt.nextId
      /\ PendingIds(tt) \subseteq PendingIds(ss) \cup {ss.nextId}
  BY <1>1, <1>4 DEF PendingIds
<1>6. /\ Fit(d) /\ d.session = tt /\ d.inbox = c.inbox
      /\ EventsOf(d) = EventsOf(c) /\ (HasClosed(d) <=> HasClosed(c))
  BY <1>3, <1>5, SameInbox DEF ss
<1> HIDE DEF d
<1>7. Renewed(c, r, d)
  BY <1>2, <1>4, <1>6 DEF Renewed, ss
<1> QED
  BY <1>7 DEF d, tt

----------------------------------------------------------------------------
(* How a call goes on from connection c to its next await, or ends.        *)

\* The variables that every call reads have their types.
Plain == now \in Nat /\ wake \in Nat /\ sending \in OutgoingFrame /\ served \in Seq(Nat)

\* The call k ends.
Over(c, k) ==
    /\ at' = IF k.kind = "connect" /\ result'.outcome # "ok" THEN "gone" ELSE "idle"
    /\ call' = NoCall
    /\ result' \in Endings
    /\ result'.kind = k.kind /\ result'.no = k.no /\ result'.id = k.id
    /\ result'.deadline = k.deadline
    /\ result'.outcome = "ok" => Greeted(c)
    /\ result'.outcome = "ok" /\ HasClosed(c) => k.kind \notin {"poll"}
    /\ result'.outcome = "timeout" =>
            k.deadline <= now /\ Timed(k) /\ (k.kind \in Requests => ~Has(conn', k))
    /\ result'.answer \in {"ok", "status"} =>
            /\ k.kind \in Requests /\ result'.from = k.id
            /\ \E e \in ToSet(c.inbox) : IsAnswered(e) /\ e.id = k.id

\* The call k is suspended at an await.
GoesOn(c, k) ==
    /\ at' \in {"flush", "recv", "settle"}
    /\ result' = result
    /\ call' \in Calls /\ call' = [k EXCEPT !.wait = call'.wait]
    /\ at' = "settle" => c.session.outgoing # <<>>
    /\ at' \in {"flush", "recv"} => k.kind # "reidentify" /\ Unanswered(conn', k)
    /\ at' = "recv" => conn'.session.outgoing = <<>>
    /\ at' = "flush" /\ Timed(k) => k.deadline <= now + call'.wait
    /\ at' = "recv" /\ Timed(k) => k.deadline <= wake'

Continues(c, k) ==
    /\ Remains(c, conn')
    /\ Unsent' = c.session.outgoing
    /\ sending' \in OutgoingFrame /\ wake' \in Nat
    /\ served' \in Seq(Nat) /\ served' \o EventsOf(conn') = served \o EventsOf(c)
    /\ Over(c, k) \/ GoesOn(c, k)

\* A call that goes on where nothing but its session's and its inbox's
\* overdue calls have changed goes on.
LEMMA ContinuesFrom ==
    ASSUME NEW c, NEW d, NEW k, NEW n, Remains(c, d), d.session.outgoing = c.session.outgoing,
           EventsOf(d) = EventsOf(c), k \in Calls, n = [k EXCEPT !.wait = n.wait],
           Continues(d, n)
    PROVE  Continues(c, k)
<1>1. /\ n.kind = k.kind /\ n.no = k.no /\ n.id = k.id /\ n.deadline = k.deadline
  BY DEF Calls
<1>2. Remains(c, conn')
  <2>1. Remains(d, conn')
    BY DEF Continues
  <2> QED
    BY <2>1, RemainsTransitive
<1>3. /\ Unsent' = c.session.outgoing
      /\ sending' \in OutgoingFrame /\ wake' \in Nat
      /\ served' \in Seq(Nat) /\ served' \o EventsOf(conn') = served \o EventsOf(c)
  BY DEF Continues
<1>4. /\ Timed(n) <=> Timed(k)
      /\ \A x : Wanted(x, n) <=> Wanted(x, k)
  BY <1>1 DEF Timed, Wanted, IsOwn
<1>5. /\ Has(conn', n) <=> Has(conn', k)
      /\ Unanswered(conn', n) <=> Unanswered(conn', k)
  BY <1>4 DEF Has, Unanswered
<1>6. /\ Greeted(d) <=> Greeted(c)
      /\ HasClosed(d) <=> HasClosed(c)
      /\ \A e \in ToSet(d.inbox) : IsAnswered(e) => e \in ToSet(c.inbox)
  BY DEF Remains, Greeted
<1>7. ASSUME Over(d, n) PROVE Over(c, k)
  BY <1>1, <1>4, <1>5, <1>6, <1>7 DEF Over
<1>8. ASSUME GoesOn(d, n) PROVE GoesOn(c, k)
  <2>1. call' = [k EXCEPT !.wait = call'.wait]
    BY <1>8 DEF GoesOn, Calls
  <2> QED
    BY <1>1, <1>4, <1>5, <1>8, <2>1 DEF GoesOn
<1>9. Over(d, n) \/ GoesOn(d, n)
  BY DEF Continues
<1> QED
  BY <1>2, <1>3, <1>7, <1>8, <1>9 DEF Continues

\* The head of the outgoing frames goes into send().
LEMMA SendsFirst ==
    ASSUME NEW c, Fit(c), c.session.outgoing # <<>>, Plain,
           NEW k, k \in Calls, NEW place \in {"flush", "settle"},
           place = "flush" => /\ k.kind # "reidentify" /\ Unanswered(c, k)
                              /\ Timed(k) => k.deadline <= now + k.wait,
           SendFirst(c, k, place), UNCHANGED served
    PROVE  Continues(c, k)
<1> DEFINE tt == PollTransmit(c.session)
           out == c.session.outgoing
<1>1. /\ WellFormed(c.session) /\ c.session.events = <<>> /\ c.session.nextId \in Nat
      /\ c.session.outgoing \in Seq(OutgoingFrame)
  BY DEF Fit, WellFormed, WellTyped
<1>2. /\ WellFormed(tt) /\ tt.outgoing = Tail(out)
      /\ tt.pending = c.session.pending /\ tt.nextId = c.session.nextId
      /\ tt.events = c.session.events /\ tt.phase = c.session.phase
  BY <1>1, PollTransmitEffect
<1>3. /\ tt.events = <<>> /\ c.session.nextId <= tt.nextId
      /\ PendingIds(tt) \subseteq PendingIds(c.session) \cup {c.session.nextId}
  BY <1>1, <1>2 DEF PendingIds
<1> HIDE DEF tt
<1> DEFINE d == [c EXCEPT !.session = tt]
<1>4. /\ Fit(d) /\ d.session = tt /\ d.inbox = c.inbox
      /\ EventsOf(d) = EventsOf(c) /\ (HasClosed(d) <=> HasClosed(c))
  BY <1>2, <1>3, SameInbox
<1> HIDE DEF d
<1>5. /\ conn' = d /\ sending' = Head(out) /\ at' = place /\ call' = k
      /\ wake' = wake /\ result' = result /\ served' = served
  BY DEF SendFirst, d, tt
<1>6. Remains(c, d)
  BY <1>2, <1>4 DEF Remains, PendingIds
<1>7. /\ Head(out) \in OutgoingFrame /\ <<Head(out)>> \o Tail(out) = out
  <2>1. Head(out) \in OutgoingFrame
    BY <1>1, HeadTailProperties
  <2>2. Append(<<>>, Head(out)) \o Tail(out) = <<>> \o out
    BY <1>1, PollConcat
  <2> QED
    BY <1>1, <2>1, <2>2
<1>8. Unsent' = out
  BY <1>2, <1>4, <1>5, <1>7 DEF Unsent
<1>9. Unanswered(c, k) => Unanswered(conn', k)
  BY <1>4, <1>5 DEF Unanswered, Has
<1>10. GoesOn(c, k)
  <2>1. k = [k EXCEPT !.wait = k.wait]
    BY DEF Calls
  <2> QED
    BY <1>5, <1>9, <2>1 DEF GoesOn
<1> QED
  BY <1>4, <1>5, <1>6, <1>7, <1>8, <1>10 DEF Continues, Plain

\* recv_with_timeout() and recv_one().
LEMMA RecvContinues ==
    ASSUME NEW c, Fit(c), Plain, NEW k, k \in Calls,
           k.kind # "reidentify", Unanswered(c, k), Timed(k) => k.deadline <= now + k.wait,
           FlushThenRecv(c, k), UNCHANGED served
    PROVE  Continues(c, k)
<1>1. CASE c.session.outgoing # <<>>
  <2>1. SendFirst(c, k, "flush")
    BY <1>1 DEF FlushThenRecv
  <2> QED
    BY <1>1, <2>1, SendsFirst
<1>2. CASE c.session.outgoing = <<>>
  <2>1. /\ conn' = c /\ at' = "recv" /\ call' = k /\ wake' = now + k.wait
        /\ sending' = sending /\ result' = result /\ served' = served
    BY <1>2 DEF FlushThenRecv
  <2>2. Remains(c, conn')
    BY <2>1, RemainsReflexive
  <2>3. Unsent' = c.session.outgoing
    BY <2>1 DEF Unsent
  <2>4. wake' \in Nat
    BY <2>1 DEF Calls, Plain
  <2>5. GoesOn(c, k)
    <3>1. k = [k EXCEPT !.wait = k.wait]
      BY DEF Calls
    <3> QED
      BY <1>2, <2>1, <3>1 DEF GoesOn
  <2> QED
    BY <2>1, <2>2, <2>3, <2>4, <2>5 DEF Continues, Plain
<1> QED
  BY <1>1, <1>2

\* What a call may end with.
Justified(c, d, k, r) ==
    /\ r.outcome \in Outcomes /\ r.answer \in Results \cup {"none"} /\ r.from \in Nat
    /\ r.outcome = "ok" => Greeted(c)
    /\ r.outcome = "ok" /\ HasClosed(c) => k.kind # "poll"
    /\ r.outcome = "timeout" =>
            k.deadline <= now /\ Timed(k) /\ (k.kind \in Requests => ~Has(d, k))
    /\ r.answer \in {"ok", "status"} =>
            /\ k.kind \in Requests /\ r.from = k.id
            /\ \E e \in ToSet(c.inbox) : IsAnswered(e) /\ e.id = k.id

\* A call that returns what it may return.
LEMMA ReturnEnds ==
    ASSUME NEW c, NEW d, Remains(c, d), d.session.outgoing = c.session.outgoing, Plain,
           NEW k, k \in Calls, NEW r, Justified(c, d, k, r), Return(d, k, r),
           served' \in Seq(Nat), served' \o EventsOf(d) = served \o EventsOf(c)
    PROVE  Continues(c, k)
<1>1. /\ conn' = d /\ call' = NoCall /\ sending' = sending /\ wake' = wake
      /\ at' = IF k.kind = "connect" /\ r.outcome # "ok" THEN "gone" ELSE "idle"
      /\ result' = Ended(k, r)
  BY DEF Return
<1>2. /\ result'.kind = k.kind /\ result'.no = k.no /\ result'.id = k.id
      /\ result'.deadline = k.deadline /\ result'.outcome = r.outcome
      /\ result'.answer = r.answer /\ result'.from = r.from
  BY <1>1 DEF Ended
<1>3. result' \in Endings
  BY <1>1 DEF Ended, Endings, Calls, Justified
<1>4. Unsent' = c.session.outgoing
  BY <1>1 DEF Unsent
<1>5. Over(c, k)
  BY <1>1, <1>2, <1>3 DEF Over, Justified
<1> QED
  BY <1>1, <1>4, <1>5 DEF Continues, Plain

\* A failure of the call's own in the inbox is due.
Timely(c, k) == \A e \in ToSet(c.inbox) : IsOwn(e, k) /\ e.result = "timeout" => k.deadline <= now

\* An error says nothing of an answer.
LEMMA ErrorJustified ==
    ASSUME NEW c, NEW d, NEW k,
           NEW outcome \in Outcomes \ {"ok", "timeout"}
    PROVE  Justified(c, d, k, Answerless(outcome))
<1>1. /\ Answerless(outcome).outcome = outcome /\ Answerless(outcome).answer = "none"
      /\ Answerless(outcome).from = 0
  BY DEF Answerless
<1> QED
  BY <1>1 DEF Justified, Outcomes

\* Nor does an error of a closed connection.
LEMMA ClosedJustified ==
    ASSUME NEW c, NEW d, NEW k
    PROVE  Justified(c, d, k, ClosedError(c))
<1>1. \/ ClosedError(c) = Answerless("auth")
      \/ ClosedError(c) = Answerless("closed")
  BY DEF ClosedError
<1>2. /\ Justified(c, d, k, Answerless("auth"))
      /\ Justified(c, d, k, Answerless("closed"))
  BY ErrorJustified DEF Outcomes
<1> QED
  BY <1>1, <1>2

\* A call of another kind than poll() may end without an answer.
LEMMA OkJustified ==
    ASSUME NEW c, NEW d, NEW k, Greeted(c), HasClosed(c) => k.kind # "poll"
    PROVE  Justified(c, d, k, Answerless("ok"))
<1>1. /\ Answerless("ok").outcome = "ok" /\ Answerless("ok").answer = "none"
      /\ Answerless("ok").from = 0
  BY DEF Answerless
<1> QED
  BY <1>1 DEF Justified, Outcomes

\* A call whose deadline has passed may end with Timeout, if no answer is left.
LEMMA TimeoutJustified ==
    ASSUME NEW c, NEW d, NEW k, Timed(k), k.deadline <= now, k.kind \in Requests => ~Has(d, k)
    PROVE  Justified(c, d, k, Answerless("timeout"))
<1>1. /\ Answerless("timeout").outcome = "timeout" /\ Answerless("timeout").answer = "none"
      /\ Answerless("timeout").from = 0
  BY DEF Answerless
<1> QED
  BY <1>1 DEF Justified, Outcomes

\* A request that takes its completion ends with it.
LEMMA CompletionEnds ==
    ASSUME NEW c, Fit(c), Plain, NEW k, Suits(c, k), k.kind \in Requests, Timely(c, k),
           Has(c, k), Complete(c, k), UNCHANGED served
    PROVE  Continues(c, k)
<1> PICK d : d = Without(c, k)
  OBVIOUS
<1> PICK f : f = First(c, k)
  OBVIOUS
<1>0. PICK decodes \in BOOLEAN : Return(d, k, Completed(k, f, decodes))
  BY DEF Complete
<1> PICK r : r = Completed(k, f, decodes)
  OBVIOUS
<1>1. Takes(c, k, d, f)
  BY TakenRemains
<1>2. /\ Remains(c, d) /\ d.session = c.session /\ f \in ToSet(c.inbox) /\ f \in SessionEvent
      /\ Wanted(f, k) /\ EventsOf(d) = EventsOf(c) /\ ~Has(d, k)
  BY <1>1 DEF Takes, Requests
<1>3. IsOwn(f, k) /\ IsCompletion(f) /\ f.id = k.id
  BY <1>2, WantedKinds, OwnCompletes
<1>4. f.result \in Results /\ f.id \in Nat
  BY <1>2, <1>3 DEF SessionEvent, IsCompletion
<1>5. r.answer = f.result /\ r.from = f.id
  BY DEF Completed
<1>6. /\ r.outcome \in Outcomes
      /\ r.outcome = "timeout" => f.result = "timeout"
  BY DEF Completed, Outcomes
<1>7. r.answer \in {"ok", "status"} => IsAnswered(f)
  BY <1>3, <1>5 DEF IsAnswered
<1>8. Greeted(c) /\ Timed(k)
  BY DEF Suits, Requests, Timed
<1>9. r.outcome = "timeout" => k.deadline <= now
  BY <1>2, <1>3, <1>6 DEF Timely
<1>10. Justified(c, d, k, r)
  BY <1>2, <1>3, <1>4, <1>5, <1>6, <1>7, <1>8, <1>9 DEF Justified, Requests
<1>11. k \in Calls /\ served' \in Seq(Nat) /\ served' \o EventsOf(d) = served \o EventsOf(c)
  BY <1>2 DEF Suits, Plain
<1>12. Return(d, k, r)
  BY <1>0
<1> QED
  BY <1>2, <1>10, <1>11, <1>12, ReturnEnds

\* A call that returns on a connection it has not changed.
LEMMA ReturnsHere ==
    ASSUME NEW c, Fit(c), Plain, NEW k, k \in Calls, NEW r, Justified(c, c, k, r),
           Return(c, k, r), UNCHANGED served
    PROVE  Continues(c, k)
<1>1. Remains(c, c)
  BY RemainsReflexive
<1>2. served' \in Seq(Nat) /\ served' \o EventsOf(c) = served \o EventsOf(c)
  BY DEF Plain
<1> QED
  BY <1>1, <1>2, ReturnEnds

\* The branches of wait_single and wait_batch, the overdue calls failed in due.
LEMMA WaitCases ==
    ASSUME NEW c, NEW k, Wait(c, k),
           NEW due, due = Drain([c EXCEPT !.session = HandleTimeout(@, now)])
    PROVE  \/ Has(c, k) /\ Complete(c, k)
           \/ ~Has(c, k) /\ HasClosed(c) /\ Return(c, k, ClosedError(c))
           \/ /\ ~Has(c, k) /\ ~HasClosed(c) /\ Has(due, k)
              /\ Complete(due, k)
           \/ /\ ~Has(c, k) /\ ~HasClosed(c) /\ ~Has(due, k) /\ now >= k.deadline
              /\ Return(due, k, Answerless("timeout"))
           \/ /\ ~Has(c, k) /\ ~HasClosed(c) /\ ~Has(due, k) /\ ~(now >= k.deadline)
              /\ FlushThenRecv(due, [k EXCEPT !.wait = k.deadline - now])
BY DEF Wait

\* wait_single and wait_batch, from the top of their loop.
LEMMA WaitContinues ==
    ASSUME NEW c, Fit(c), Plain, NEW k, Suits(c, k), k.kind \in Requests, Timely(c, k),
           Wait(c, k), UNCHANGED served
    PROVE  Continues(c, k)
<1> PICK due : due = Drain([c EXCEPT !.session = HandleTimeout(@, now)])
  OBVIOUS
<1>1. Overdue(c, k, due)
  BY OverdueRemains DEF Plain
<1>2. /\ Remains(c, due) /\ Fit(due) /\ due.session.outgoing = c.session.outgoing
      /\ EventsOf(due) = EventsOf(c) /\ (HasClosed(due) <=> HasClosed(c))
  BY <1>1 DEF Overdue, Remains
<1>3. /\ k \in Calls /\ k.deadline \in Nat /\ Timed(k) /\ k.kind # "reidentify"
      /\ k = [k EXCEPT !.wait = k.wait]
  BY DEF Suits, Calls, Requests, Timed
<1>4. Suits(due, k)
  BY <1>2 DEF Suits, Remains, Greeted
<1>5. ASSUME ~Has(c, k) PROVE Timely(due, k)
  <2>1. \A e \in ToSet(c.inbox) : ~IsOwn(e, k)
    BY <1>5, WantedKinds DEF Has, ToSet
  <2> QED
    BY <1>1, <2>1 DEF Overdue, Timely
<1>6. CASE Has(c, k) /\ Complete(c, k)
  BY <1>6, CompletionEnds
<1>7. CASE ~Has(c, k) /\ HasClosed(c) /\ Return(c, k, ClosedError(c))
  <2>1. Justified(c, c, k, ClosedError(c))
    BY ClosedJustified
  <2> PICK r : r = ClosedError(c)
    OBVIOUS
  <2>2. Return(c, k, r)
    BY <1>7
  <2> QED
    BY <1>3, <2>1, <2>2, ReturnsHere
<1>8. CASE /\ ~Has(c, k) /\ ~HasClosed(c) /\ Has(due, k)
           /\ Complete(due, k)
  <2>1. Continues(due, k)
    BY <1>2, <1>4, <1>5, <1>8, CompletionEnds
  <2> QED
    BY <1>2, <1>3, <2>1, ContinuesFrom
<1>9. CASE /\ ~Has(c, k) /\ ~HasClosed(c) /\ ~Has(due, k) /\ now >= k.deadline
           /\ Return(due, k, Answerless("timeout"))
  <2>0. k.deadline <= now
    BY <1>3, <1>9 DEF Plain
  <2>1. Justified(due, due, k, Answerless("timeout"))
    BY <1>3, <1>9, <2>0, TimeoutJustified
  <2> PICK r : r = Answerless("timeout")
    OBVIOUS
  <2>2. Return(due, k, r)
    BY <1>9
  <2>3. Continues(due, k)
    BY <1>2, <1>3, <2>1, <2>2, ReturnsHere
  <2> QED
    BY <1>2, <1>3, <2>3, ContinuesFrom
<1>10. CASE /\ ~Has(c, k) /\ ~HasClosed(c) /\ ~Has(due, k) /\ ~(now >= k.deadline)
            /\ FlushThenRecv(due, [k EXCEPT !.wait = k.deadline - now])
  <2> PICK n : n = [k EXCEPT !.wait = k.deadline - now]
    OBVIOUS
  <2>1. k.deadline - now \in Nat
    BY <1>3, <1>10 DEF Plain
  <2>2. /\ n \in Calls /\ n.wait = k.deadline - now /\ n = [k EXCEPT !.wait = n.wait]
        /\ n.kind = k.kind /\ n.id = k.id /\ n.deadline = k.deadline
    BY <1>3, <2>1 DEF Calls
  <2>3. n.deadline <= now + n.wait
    BY <1>3, <2>2 DEF Plain
  <2>4. Unanswered(due, n)
    <3>1. \A e : Wanted(e, n) <=> Wanted(e, k)
      BY <2>2 DEF Wanted, IsOwn
    <3> QED
      BY <1>2, <1>10, <3>1 DEF Unanswered, Has
  <2>5. FlushThenRecv(due, n)
    BY <1>10
  <2>6. Continues(due, n)
    BY <1>2, <1>3, <2>2, <2>3, <2>4, <2>5, RecvContinues
  <2> QED
    BY <1>2, <1>3, <2>2, <2>6, ContinuesFrom
<1> QED
  BY <1>6, <1>7, <1>8, <1>9, <1>10, WaitCases

\* The branches of drive_until_identified.
LEMMA AwaitCases ==
    ASSUME NEW c, NEW k, AwaitIdentified(c, k)
    PROVE  \/ Has(c, k) /\ Return(Without(c, k), k, Answerless("ok"))
           \/ ~Has(c, k) /\ HasClosed(c) /\ Return(c, k, ClosedError(c))
           \/ /\ ~Has(c, k) /\ ~HasClosed(c) /\ now >= k.deadline
              /\ Return(c, k, Answerless("timeout"))
           \/ /\ ~Has(c, k) /\ ~HasClosed(c) /\ ~(now >= k.deadline)
              /\ FlushThenRecv(c, [k EXCEPT !.wait = k.deadline - now])
BY DEF AwaitIdentified

\* drive_until_identified, from the top of its loop.
LEMMA AwaitContinues ==
    ASSUME NEW c, Fit(c), Plain, NEW k, k \in Calls, k.kind = "connect",
           AwaitIdentified(c, k), UNCHANGED served
    PROVE  Continues(c, k)
<1>1. k.deadline \in Nat /\ Timed(k) /\ k.kind \notin Requests
  BY DEF Calls, Timed, Requests
<1>2. CASE Has(c, k) /\ Return(Without(c, k), k, Answerless("ok"))
  <2> PICK d : d = Without(c, k)
    OBVIOUS
  <2> PICK f : f = First(c, k)
    OBVIOUS
  <2> PICK r : r = Answerless("ok")
    OBVIOUS
  <2>1. Takes(c, k, d, f)
    BY <1>2, TakenRemains
  <2>2. /\ Remains(c, d) /\ d.session = c.session /\ f \in ToSet(c.inbox)
        /\ Wanted(f, k) /\ EventsOf(d) = EventsOf(c)
    BY <2>1 DEF Takes
  <2>3. f.type = "Identified"
    BY <2>2, WantedKinds
  <2>4. Greeted(c)
    BY <2>2, <2>3 DEF Fit, ToSet
  <2>5. Justified(c, d, k, r)
    BY <2>4, OkJustified
  <2>6. Return(d, k, r) /\ served' \in Seq(Nat)
        /\ served' \o EventsOf(d) = served \o EventsOf(c)
    BY <1>2, <2>2 DEF Plain
  <2> QED
    BY <2>2, <2>5, <2>6, ReturnEnds
<1>3. CASE ~Has(c, k) /\ HasClosed(c) /\ Return(c, k, ClosedError(c))
  <2>1. Justified(c, c, k, ClosedError(c))
    BY ClosedJustified
  <2> PICK r : r = ClosedError(c)
    OBVIOUS
  <2>2. Return(c, k, r)
    BY <1>3
  <2> QED
    BY <2>1, <2>2, ReturnsHere
<1>4. CASE /\ ~Has(c, k) /\ ~HasClosed(c) /\ now >= k.deadline
           /\ Return(c, k, Answerless("timeout"))
  <2>0. k.deadline <= now
    BY <1>1, <1>4 DEF Plain
  <2>1. Justified(c, c, k, Answerless("timeout"))
    BY <1>1, <2>0, TimeoutJustified
  <2> PICK r : r = Answerless("timeout")
    OBVIOUS
  <2>2. Return(c, k, r)
    BY <1>4
  <2> QED
    BY <2>1, <2>2, ReturnsHere
<1>5. CASE /\ ~Has(c, k) /\ ~HasClosed(c) /\ ~(now >= k.deadline)
           /\ FlushThenRecv(c, [k EXCEPT !.wait = k.deadline - now])
  <2> PICK n : n = [k EXCEPT !.wait = k.deadline - now]
    OBVIOUS
  <2>1. k.deadline - now \in Nat
    BY <1>1, <1>5 DEF Plain
  <2>2. /\ n \in Calls /\ n.wait = k.deadline - now /\ n = [k EXCEPT !.wait = n.wait]
        /\ n.kind = k.kind /\ n.id = k.id /\ n.deadline = k.deadline
    BY <2>1 DEF Calls
  <2>3. n.deadline <= now + n.wait /\ n.kind # "reidentify"
    BY <1>1, <2>2 DEF Plain
  <2>4. Unanswered(c, n)
    <3>1. \A e : Wanted(e, n) <=> Wanted(e, k)
      BY <2>2 DEF Wanted, IsOwn
    <3> QED
      BY <1>5, <3>1 DEF Unanswered, Has
  <2>5. FlushThenRecv(c, n)
    BY <1>5
  <2>6. Continues(c, n)
    BY <2>2, <2>3, <2>4, <2>5, RecvContinues
  <2>7. Remains(c, c)
    BY RemainsReflexive
  <2> QED
    BY <2>2, <2>6, <2>7, ContinuesFrom
<1> QED
  BY <1>2, <1>3, <1>4, <1>5, AwaitCases

\* The first id goes over from one sequence to the other.
LEMMA ServedFirst ==
    ASSUME NEW a \in Seq(Nat), NEW b \in Seq(Nat), NEW x \in Nat
    PROVE  Append(a, x) \in Seq(Nat) /\ Append(a, x) \o b = a \o (<<x>> \o b)
<1> DEFINE q == <<x>> \o b
<1>1. q \in Seq(Nat) /\ q # <<>> /\ Head(q) = x /\ Tail(q) = b
  OBVIOUS
<1> HIDE DEF q
<1>2. Append(a, Head(q)) \o Tail(q) = a \o q
  BY <1>1, PollConcat
<1> QED
  BY <1>1, <1>2 DEF q

\* What a call needs to go on from connection c.
Ready(c, k) ==
    /\ Fit(c) /\ Plain /\ Suits(c, k)
    /\ k.kind \in Requests => Timely(c, k)

\* The calls that wait, from the top of their loop.
LEMMA LoopContinues ==
    ASSUME NEW c, NEW k, Ready(c, k), k.kind # "reidentify", Loop(c, k)
    PROVE  Continues(c, k)
<1>1. /\ Fit(c) /\ Plain /\ Suits(c, k) /\ k \in Calls /\ k.kind \in Kinds
      /\ k.kind \in Requests => Timely(c, k)
      /\ k.kind # "connect" => Greeted(c)
  BY DEF Ready, Suits, Calls
<1>2. CASE k.kind = "connect"
  <2>1. AwaitIdentified(c, k) /\ UNCHANGED served
    BY <1>2 DEF Loop
  <2> QED
    BY <1>1, <1>2, <2>1, AwaitContinues
<1>3. CASE k.kind \in Requests
  <2>1. Wait(c, k) /\ UNCHANGED served
    BY <1>3 DEF Loop, Requests
  <2> QED
    BY <1>1, <1>3, <2>1, WaitContinues
<1>4. CASE k.kind = "next" /\ Has(c, k)
  <2> PICK d : d = Without(c, k)
    OBVIOUS
  <2> PICK f : f = First(c, k)
    OBVIOUS
  <2> PICK r : r = Answerless("ok")
    OBVIOUS
  <2>1. Return(d, k, r) /\ served' = Append(served, f.id)
    BY <1>4 DEF Loop
  <2>2. Takes(c, k, d, f)
    BY <1>1, <1>4, TakenRemains
  <2>3. /\ Remains(c, d) /\ d.session = c.session /\ f \in SessionEvent
        /\ Wanted(f, k) /\ <<f.id>> \o EventsOf(d) = EventsOf(c)
    BY <1>4, <2>2 DEF Takes
  <2>4. f.id \in Nat
    <3>1. IsEvent(f)
      BY <1>4, <2>3, WantedKinds
    <3> QED
      BY <2>3, <3>1 DEF SessionEvent, IsEvent
  <2>5. EventsOf(d) \in Seq(Nat)
    <3>1. d.inbox \in Seq(SessionEvent)
      BY <2>3 DEF Remains, Fit
    <3> QED
      BY <3>1, EventsAreChosen
  <2>6. served' \in Seq(Nat) /\ served' \o EventsOf(d) = served \o EventsOf(c)
    <3>1. served \in Seq(Nat)
      BY <1>1 DEF Plain
    <3> PICK a : a = served
      OBVIOUS
    <3>2. Append(a, f.id) \in Seq(Nat) /\ Append(a, f.id) \o EventsOf(d) = a \o (<<f.id>> \o EventsOf(d))
      BY <2>4, <2>5, <3>1, ServedFirst
    <3> QED
      BY <2>1, <2>3, <3>2
  <2>7. Justified(c, d, k, r)
    BY <1>1, <1>4, OkJustified
  <2> QED
    BY <1>1, <2>1, <2>3, <2>6, <2>7, ReturnEnds
<1>5. CASE k.kind \in {"next", "poll"} /\ ~(k.kind = "next" /\ Has(c, k))
  <2>1. FlushThenRecv(c, k) /\ UNCHANGED served
    BY <1>5 DEF Loop
  <2>2. ~Timed(k) /\ Unanswered(c, k)
    BY <1>5 DEF Timed, Unanswered
  <2> QED
    BY <1>1, <1>5, <2>1, <2>2, RecvContinues
<1> QED
  BY <1>1, <1>2, <1>3, <1>4, <1>5 DEF Kinds, Requests

\* What follows the flush behind an ingested frame.
LEMMA AfterFlushContinues ==
    ASSUME NEW c, NEW k, Ready(c, k), AfterFlush(c, k)
    PROVE  Continues(c, k)
<1>1. /\ Fit(c) /\ Plain /\ k \in Calls /\ k.kind \in Kinds
      /\ k.kind # "connect" => Greeted(c)
  BY DEF Ready, Suits, Calls
<1>2. CASE k.kind = "reidentify"
  <2> PICK r : r = Answerless("ok")
    OBVIOUS
  <2>1. Return(c, k, r) /\ UNCHANGED served
    BY <1>2 DEF AfterFlush
  <2>2. Justified(c, c, k, r)
    BY <1>1, <1>2, OkJustified
  <2> QED
    BY <1>1, <2>1, <2>2, ReturnsHere
<1>3. CASE k.kind = "poll"
  <2> PICK d : d = Dispatched(c)
    OBVIOUS
  <2> PICK r : r = IF HasClosed(d) THEN ClosedError(c) ELSE Answerless("ok")
    OBVIOUS
  <2>1. Return(d, k, r) /\ served' = served \o EventsOf(c)
    BY <1>3 DEF AfterFlush
  <2>2. Remains(c, d) /\ d.session = c.session /\ EventsOf(d) = <<>>
    BY <1>1, DispatchedRemains
  <2>3. HasClosed(d) <=> HasClosed(c)
    BY <2>2 DEF Remains
  <2>4. Justified(c, d, k, r)
    <3>1. CASE HasClosed(d)
      BY <3>1, ClosedJustified
    <3>2. CASE ~HasClosed(d)
      <4>1. Justified(c, d, k, Answerless("ok"))
        BY <1>1, <1>3, <2>3, <3>2, OkJustified
      <4> QED
        BY <3>2, <4>1
    <3> QED
      BY <3>1, <3>2
  <2>5. served' \in Seq(Nat) /\ served' \o EventsOf(d) = served \o EventsOf(c)
    <3>1. served \in Seq(Nat) /\ EventsOf(c) \in Seq(Nat)
      BY <1>1, EventsAreChosen DEF Plain, Fit
    <3>2. served \o EventsOf(c) \in Seq(Nat)
      BY <3>1
    <3> PICK q : q = served \o EventsOf(c)
      OBVIOUS
    <3>3. q \o <<>> = q
      BY <3>2
    <3> QED
      BY <2>1, <2>2, <3>2, <3>3
  <2> QED
    BY <1>1, <2>1, <2>2, <2>4, <2>5, ReturnEnds
<1>4. CASE k.kind = "next" /\ HasClosed(c)
  <2> PICK r : r = ClosedError(c)
    OBVIOUS
  <2>1. Return(c, k, r) /\ UNCHANGED served
    BY <1>4 DEF AfterFlush
  <2>2. Justified(c, c, k, r)
    BY ClosedJustified
  <2> QED
    BY <1>1, <2>1, <2>2, ReturnsHere
<1>5. CASE k.kind \notin {"reidentify", "poll"} /\ ~(k.kind = "next" /\ HasClosed(c))
  <2>1. Loop(c, k)
    BY <1>5 DEF AfterFlush
  <2> QED
    BY <1>5, <2>1, LoopContinues
<1> QED
  BY <1>2, <1>3, <1>4, <1>5

\* The flush behind an ingested frame, and what follows it.
LEMMA ResumeContinues ==
    ASSUME NEW c, NEW k, Ready(c, k), FlushThenResume(c, k)
    PROVE  Continues(c, k)
<1>1. CASE c.session.outgoing # <<>>
  <2>1. SendFirst(c, k, "settle") /\ UNCHANGED served
    BY <1>1 DEF FlushThenResume
  <2>2. Fit(c) /\ Plain /\ k \in Calls
    BY DEF Ready, Suits
  <2> QED
    BY <1>1, <2>1, <2>2, SendsFirst
<1>2. CASE c.session.outgoing = <<>>
  <2>1. AfterFlush(c, k)
    BY <1>2 DEF FlushThenResume
  <2> QED
    BY <2>1, AfterFlushContinues
<1> QED
  BY <1>1, <1>2

----------------------------------------------------------------------------
(* A step after which a call goes on keeps the invariant.                  *)

\* What the step makes of conn before call k goes on from connection c.
Passes(c, k) ==
    /\ at # "gone" /\ now' = now
    /\ Ready(c, k) /\ Continues(c, k)
    /\ at' = "settle" => k.kind \in {"connect", "reidentify"} /\ ~HasClosed(c)
    /\ HasClosed(conn) =>
            HasClosed(c) /\ (result'.outcome = "ok" => result' = result \/ k.kind \in {"next", "poll"})
    /\ Accounted(c, k.no)' /\ Unasked(asked', c.session.outgoing, c.session.nextId)
    /\ k.kind \in Requests => asked'[k.id] \subseteq {k.no}
    /\ asked' \in [1 .. MaxCalls -> SUBSET Nat]
    /\ \A id \in DOMAIN asked : asked[id] # {} => asked'[id] = asked[id]
    /\ link' \in Seq(ServerFrame)
    /\ socket' \in {"up", "closing", "closed", "broken"}
    /\ obs' \in [stage : {"new", "greeted", "identify", "reidentify", "ready"},
                 open : SUBSET [id : Nat, batch : BOOLEAN]]
    /\ emitted' \in Nat /\ garbage' \in Nat
    /\ at' # "gone" /\ socket' \notin {"broken", "closed"} =>
            /\ c.session.phase # "Closed"
            /\ (served \o EventsOf(c)) \o UnderWay' = Counted(emitted')

\* The action properties that the steps keep.
StepsAreSound ==
    /\ result' # result /\ result'.outcome = "timeout" => now >= result'.deadline
    /\ result' # result /\ result'.outcome = "timeout" /\ result'.kind \in {"single", "batch"}
            => \A i \in DOMAIN conn'.inbox : ~IsOwn(conn'.inbox[i], result')
    /\ HasClosed(conn) =>
            /\ HasClosed(conn')
            /\ result' # result /\ result'.outcome = "ok" => result'.kind \in {"next", "dropped"}

\* Such a step leaves the variables in their types.
LEMMA PassedTypes ==
    ASSUME Types, NEW c, NEW k, Passes(c, k)
    PROVE  Types'
<1>1. /\ sending' \in OutgoingFrame /\ wake' \in Nat /\ served' \in Seq(Nat)
      /\ Over(c, k) \/ GoesOn(c, k)
  BY DEF Passes, Continues
<1>2. now' \in Nat
  BY DEF Passes, Types
<1>3. CASE Over(c, k)
  <2>1. at' \in {"idle", "gone"} /\ call' = NoCall /\ result' \in Endings
    BY <1>3 DEF Over
  <2> QED
    BY <1>1, <1>2, <2>1 DEF Passes, Types
<1>4. CASE GoesOn(c, k)
  <2>1. at' \in {"flush", "recv", "settle"} /\ call' \in Calls /\ result' \in Endings
    BY <1>4 DEF GoesOn, Types
  <2> QED
    BY <1>1, <1>2, <2>1 DEF Passes, Types
<1> QED
  BY <1>1, <1>3, <1>4

\* It leaves the connection and the call fit for each other.
LEMMA PassedControl ==
    ASSUME NEW c, NEW k, Passes(c, k)
    PROVE  Control'
<1>1. /\ Remains(c, conn')
      /\ Over(c, k) \/ GoesOn(c, k)
  BY DEF Passes, Continues
<1>2. Fit(conn)' /\ Suits(c, k) /\ now' = now
  BY <1>1 DEF Passes, Ready, Remains
<1>3. (Greeted(conn)' <=> Greeted(c)) /\ (HasClosed(conn)' <=> HasClosed(c))
  BY <1>1 DEF Remains, Greeted
<1>4. CASE Over(c, k)
  <2>1. at' \in {"idle", "gone"}
    BY <1>4 DEF Over
  <2>2. at' = "idle" => Greeted(c)
    BY <1>2, <1>4 DEF Over, Suits
  <2> QED
    BY <1>2, <1>3, <2>1, <2>2 DEF Control
<1>5. CASE GoesOn(c, k)
  <2>1. /\ call'.kind = k.kind /\ call'.id = k.id /\ call'.deadline = k.deadline
        /\ call' \in Calls /\ at' \in {"flush", "recv", "settle"}
    BY <1>5 DEF GoesOn, Calls
  <2>2. Suits(conn, call)'
    <3>1. /\ conn'.session.nextId = c.session.nextId
          /\ \A id \in PendingIds(conn'.session) :
                id \in PendingIds(c.session) /\ conn'.session.pending[id] = c.session.pending[id]
      BY <1>1 DEF Remains
    <3> QED
      BY <1>2, <1>3, <2>1, <3>1 DEF Suits
  <2>3. Unanswered(conn', k) => Unanswered(conn, call)'
    <3>1. \A e : Wanted(e, k) => Wanted(e, call')
      BY <2>1 DEF Wanted, IsOwn
    <3>2. \A e : Wanted(e, call') => Wanted(e, k)
      BY <2>1 DEF Wanted, IsOwn
    <3>3. Timed(k) <=> Timed(call')
      BY <2>1 DEF Timed
    <3> QED
      BY <3>2, <3>3 DEF Unanswered, Has
  <2>4. Timed(call)' => Timed(k)
    BY <2>1 DEF Timed
  <2>5. at' = "settle" => call'.kind \in {"connect", "reidentify"} /\ ~HasClosed(conn)'
    BY <1>3, <2>1 DEF Passes
  <2> QED
    BY <1>2, <1>5, <2>1, <2>2, <2>3, <2>4, <2>5 DEF Control, GoesOn
<1> QED
  BY <1>1, <1>4, <1>5

\* It leaves the record of requests and answers right.
LEMMA PassedAnswers ==
    ASSUME Types, Replies, NEW c, NEW k, Passes(c, k)
    PROVE  Replies'
<1>1. /\ Remains(c, conn')
      /\ Over(c, k) \/ GoesOn(c, k)
      /\ Unsent' = c.session.outgoing
  BY DEF Passes, Continues
<1>2. /\ Accounted(c, k.no)' /\ Unasked(asked', c.session.outgoing, c.session.nextId)
      /\ k.kind \in Requests => asked'[k.id] \subseteq {k.no}
      /\ DOMAIN asked' = DOMAIN asked
      /\ \A id \in DOMAIN asked : asked[id] # {} => asked'[id] = asked[id]
  BY DEF Passes, Types
<1>3. /\ conn'.session.nextId = c.session.nextId
      /\ \A e \in ToSet(conn'.inbox) : IsAnswered(e) => e \in ToSet(c.inbox)
  BY <1>1 DEF Remains
<1>4. ASSUME NEW n, n = k.no PROVE Accounted(conn, n)'
  BY <1>2, <1>3, <1>4 DEF Accounted
<1>5. Unasked(asked, Unsent, conn.session.nextId)'
  BY <1>1, <1>2, <1>3
<1>6. CASE Over(c, k)
  <2>1. /\ at' \in {"idle", "gone"} /\ call' = NoCall
        /\ result'.kind = k.kind /\ result'.no = k.no
        /\ at' = "gone" => k.kind = "connect"
        /\ result'.answer \in {"ok", "status"} =>
                /\ k.kind \in Requests /\ result'.from = k.id
                /\ \E e \in ToSet(c.inbox) : IsAnswered(e) /\ e.id = k.id
    BY <1>6 DEF Over
  <2>2. at' # "gone" => Ledger'
    <3>1. NoCall.kind \notin Requests
      BY DEF NoCall, Requests
    <3> QED
      BY <1>4, <1>5, <2>1, <3>1 DEF Ledger
  <2>3. at' = "gone" => result'.kind \notin Requests
    BY <2>1 DEF Requests
  <2>4. ASSUME result'.kind \in Requests, result'.answer \in {"ok", "status"}
        PROVE  result'.from \in DOMAIN asked' /\ asked'[result'.from] = {result'.no}
    <3>1. PICK e \in ToSet(c.inbox) : IsAnswered(e) /\ e.id = k.id
      BY <2>1, <2>4
    <3>2. Reached(asked', k.id)
      BY <1>2, <3>1 DEF Accounted
    <3>3. asked'[k.id] \subseteq {k.no}
      BY <1>2, <2>1, <2>4
    <3> QED
      BY <2>1, <2>4, <3>2, <3>3 DEF Reached
  <2> QED
    BY <2>2, <2>3, <2>4 DEF Replies, OwnAnswer, Requests
<1>7. CASE GoesOn(c, k)
  <2>1. /\ at' \in {"flush", "recv", "settle"} /\ result' = result
        /\ call'.kind = k.kind /\ call'.id = k.id /\ call'.no = k.no
    BY <1>7 DEF GoesOn, Calls
  <2>2. Ledger'
    BY <1>2, <1>4, <1>5, <2>1 DEF Ledger
  <2>3. ASSUME result.kind \in Requests, result.answer \in {"ok", "status"}
        PROVE  result.from \in DOMAIN asked' /\ asked'[result.from] = {result.no}
    <3>1. result.from \in DOMAIN asked /\ asked[result.from] = {result.no}
      BY <2>3 DEF Replies, OwnAnswer, Requests
    <3> QED
      BY <1>2, <3>1
  <2> QED
    BY <2>1, <2>2, <2>3 DEF Replies, OwnAnswer, Requests
<1> QED
  BY <1>1, <1>6, <1>7

\* It leaves every event where it belongs.
LEMMA PassedOrder ==
    ASSUME NEW c, NEW k, Passes(c, k)
    PROVE  Order'
<1> SUFFICES ASSUME at' # "gone", socket' \notin {"broken", "closed"}
             PROVE  /\ conn'.session.phase # "Closed"
                    /\ (served' \o EventsOf(conn')) \o UnderWay' = Counted(emitted')
  BY DEF Order
<1>1. conn'.session.phase = c.session.phase
  BY DEF Passes, Continues, Remains
<1>2. served' \o EventsOf(conn') = served \o EventsOf(c)
  BY DEF Passes, Continues
<1> QED
  BY <1>1, <1>2 DEF Passes

\* And it is what the action properties allow.
LEMMA PassedSoundly ==
    ASSUME NEW c, NEW k, Passes(c, k)
    PROVE  StepsAreSound
<1>1. /\ HasClosed(conn') <=> HasClosed(c)
      /\ Over(c, k) \/ GoesOn(c, k)
  BY DEF Passes, Continues, Remains
<1>2. HasClosed(conn) =>
        HasClosed(c) /\ (result'.outcome = "ok" => result' = result \/ k.kind \in {"next", "poll"})
  BY DEF Passes
<1>3. CASE Over(c, k)
  <2>1. /\ result'.kind = k.kind /\ result'.id = k.id /\ result'.deadline = k.deadline
        /\ result'.outcome = "ok" /\ HasClosed(c) => k.kind # "poll"
        /\ result'.outcome = "timeout" =>
                k.deadline <= now /\ (k.kind \in Requests => ~Has(conn', k))
    BY <1>3 DEF Over
  <2>2. now \in Nat /\ k.deadline \in Nat
    BY DEF Passes, Ready, Plain, Suits, Calls
  <2>3. result'.outcome = "timeout" => now >= result'.deadline
    BY <2>1, <2>2
  <2>4. ASSUME result'.outcome = "timeout", result'.kind \in {"single", "batch"},
               NEW i \in DOMAIN conn'.inbox
        PROVE  ~IsOwn(conn'.inbox[i], result')
    <3>1. k.kind \in Requests
      BY <2>1, <2>4 DEF Requests
    <3>2. ~IsOwn(conn'.inbox[i], k)
      BY <2>1, <2>4, <3>1, WantedKinds DEF Has
    <3> QED
      BY <2>1, <3>2 DEF IsOwn
  <2> QED
    BY <1>1, <1>2, <2>1, <2>3, <2>4 DEF StepsAreSound
<1>4. CASE GoesOn(c, k)
  BY <1>1, <1>2, <1>4 DEF GoesOn, StepsAreSound
<1> QED
  BY <1>1, <1>3, <1>4

\* So it keeps the invariant.
LEMMA Passed ==
    ASSUME IInv, NEW c, NEW k, Passes(c, k)
    PROVE  IInv' /\ StepsAreSound
BY PassedTypes, PassedControl, PassedAnswers, PassedOrder, PassedSoundly DEF IInv

----------------------------------------------------------------------------
(* The steps of the client.                                                *)

\* What the invariant says of a call that is suspended.
Suspended(c, k) ==
    /\ Ready(c, k)
    /\ HasClosed(c) => k.kind \in {"next", "poll"}
    /\ Accounted(c, k.no) /\ Unasked(asked, c.session.outgoing, c.session.nextId)
    /\ k.kind \in Requests => asked[k.id] \subseteq {k.no}

\* The frame f has left a queue of different calls, out is the rest of it.
Departs(a, f, out, n) ==
    /\ Unasked(a, out, n)
    /\ IsCall(f) => /\ f.id \in 1 .. n - 1 /\ a[f.id] = {}
                    /\ \A i \in DOMAIN out : IsCall(out[i]) => out[i].id # f.id

\* A frame that leaves such a queue departs from it.
LEMMA UnaskedTail ==
    ASSUME NEW a, NEW f \in OutgoingFrame, NEW out \in Seq(OutgoingFrame), NEW n,
           Unasked(a, <<f>> \o out, n)
    PROVE  Departs(a, f, out, n)
<1> DEFINE one == <<f>>
           all == one \o out
<1>1. one \in Seq(OutgoingFrame) /\ Len(one) = 1 /\ DOMAIN one = {1} /\ one[1] = f
  OBVIOUS
<1> HIDE DEF one
<1>2. /\ \A i \in DOMAIN one : i \in DOMAIN all /\ all[i] = one[i]
      /\ \A i \in DOMAIN out : Len(one) + i \in DOMAIN all \ DOMAIN one /\ all[Len(one) + i] = out[i]
  BY <1>1, ConcatIndex
<1>3. DOMAIN out \subseteq Nat
  BY LenProperties
<1>4. Unasked(a, all, n)
  BY DEF one
<1> HIDE DEF all
<1>5. 1 \in DOMAIN all /\ all[1] = f
  BY <1>1, <1>2
<1>6. \A i \in DOMAIN out : 1 + i \in DOMAIN all /\ 1 + i # 1 /\ all[1 + i] = out[i]
  BY <1>1, <1>2, <1>3
<1>7. ASSUME NEW i \in DOMAIN out, IsCall(out[i])
      PROVE  /\ out[i].id \in 1 .. n - 1 /\ a[out[i].id] = {}
             /\ \A j \in DOMAIN out : IsCall(out[j]) /\ out[j].id = out[i].id => i = j
  <2>1. PICK p : p = 1 + i
    OBVIOUS
  <2>2. p \in DOMAIN all /\ all[p] = out[i]
    BY <1>6, <2>1
  <2>3. out[i].id \in 1 .. n - 1 /\ a[out[i].id] = {}
    BY <1>4, <1>7, <2>2 DEF Unasked
  <2>4. ASSUME NEW j \in DOMAIN out, IsCall(out[j]), out[j].id = out[i].id PROVE i = j
    <3>1. PICK q : q = 1 + j
      OBVIOUS
    <3>2. q \in DOMAIN all /\ all[q] = out[j]
      BY <1>6, <3>1
    <3>3. p = q
      BY <1>4, <1>7, <2>2, <2>4, <3>2 DEF Unasked
    <3> QED
      BY <1>3, <2>1, <3>1, <3>3
  <2> QED
    BY <2>3, <2>4
<1>8. ASSUME IsCall(f)
      PROVE  /\ f.id \in 1 .. n - 1 /\ a[f.id] = {}
             /\ \A i \in DOMAIN out : IsCall(out[i]) => out[i].id # f.id
  <2>1. f.id \in 1 .. n - 1 /\ a[f.id] = {}
    BY <1>4, <1>5, <1>8 DEF Unasked
  <2>2. ASSUME NEW i \in DOMAIN out, IsCall(out[i]), out[i].id = f.id PROVE FALSE
    <3>1. PICK p : p = 1 + i
      OBVIOUS
    <3>2. p \in DOMAIN all /\ p # 1 /\ all[p] = out[i]
      BY <1>6, <3>1
    <3> QED
      BY <1>4, <1>5, <1>8, <2>2, <3>2 DEF Unasked
  <2> QED
    BY <2>1, <2>2
<1>9. Unasked(a, out, n)
  BY <1>7 DEF Unasked
<1> QED
  BY <1>8, <1>9 DEF Departs

\* A frame that is no call, or a call of a new id, may join the queue.
LEMMA UnaskedAppend ==
    ASSUME NEW a, NEW f \in OutgoingFrame, NEW out \in Seq(OutgoingFrame), NEW n \in Nat \ {0},
           Unasked(a, out, n), NEW m \in Nat, n <= m,
           IsCall(f) => f.id = n /\ n + 1 <= m /\ a[f.id] = {}
    PROVE  Unasked(a, Append(out, f), m)
<1> DEFINE all == Append(out, f)
           p == Len(out) + 1
<1>1. /\ DOMAIN all = DOMAIN out \cup {p} /\ p \notin DOMAIN out
      /\ all[p] = f /\ \A i \in DOMAIN out : all[i] = out[i]
  BY AppendElements
<1> HIDE DEF all, p
<1>2. ASSUME NEW i \in DOMAIN all, IsCall(all[i])
      PROVE  all[i].id \in 1 .. m - 1 /\ a[all[i].id] = {}
  <2>1. CASE i \in DOMAIN out
    <3>1. all[i].id \in 1 .. n - 1 /\ a[all[i].id] = {}
      BY <1>1, <1>2, <2>1 DEF Unasked
    <3> QED
      BY <3>1
  <2>2. CASE i = p
    BY <1>1, <1>2, <2>2
  <2> QED
    BY <1>1, <2>1, <2>2
<1>3. ASSUME NEW i \in DOMAIN all, IsCall(all[i]), NEW j \in DOMAIN all, IsCall(all[j]),
             all[j].id = all[i].id
      PROVE  i = j
  <2>1. \A x \in DOMAIN out : IsCall(all[x]) => all[x].id \in 1 .. n - 1
    BY <1>1 DEF Unasked
  <2>2. \A x, y \in DOMAIN out :
            IsCall(all[x]) /\ IsCall(all[y]) /\ all[y].id = all[x].id => x = y
    BY <1>1 DEF Unasked
  <2>3. IsCall(all[p]) => all[p].id = n
    BY <1>1
  <2>4. n \notin 1 .. n - 1
    OBVIOUS
  <2> QED
    BY <1>1, <1>3, <2>1, <2>2, <2>3, <2>4
<1>4. Unasked(a, all, m)
  BY <1>2, <1>3 DEF Unasked
<1> QED
  BY <1>4 DEF all

\* A suspended call can go on from where it is.
LEMMA CallSuspended ==
    ASSUME IInv, at \in {"flush", "recv", "settle"}, NEW c, c = conn, NEW k, k = call
    PROVE  /\ Suspended(c, k)
           /\ at \in {"flush", "settle"} =>
                Departs(asked, sending, c.session.outgoing, c.session.nextId)
<1>1. /\ Types /\ Fit(c) /\ Suits(c, k) /\ k \in Calls
      /\ at \in {"flush", "recv"} => k.kind # "reidentify" /\ Unanswered(c, k)
      /\ at = "settle" => k.kind \in {"connect", "reidentify"} /\ ~HasClosed(c)
      /\ Ledger
  BY DEF IInv, Control, Replies, Types
<1>2. Plain
  BY <1>1 DEF Types, Plain
<1>3. k.kind \in Requests => Timely(c, k)
  <2> SUFFICES ASSUME k.kind \in Requests PROVE Timely(c, k)
    OBVIOUS
  <2>1. ~Has(c, k)
    BY <1>1 DEF Requests, Unanswered, Timed
  <2>2. \A i \in DOMAIN c.inbox : ~IsOwn(c.inbox[i], k)
    BY <2>1, WantedKinds DEF Has
  <2> QED
    BY <2>2 DEF Timely, ToSet
<1>4. HasClosed(c) => k.kind \in {"next", "poll"}
  BY <1>1 DEF Unanswered, Timed, Calls, Kinds
<1>5. /\ Accounted(c, k.no) /\ Unasked(asked, Unsent, c.session.nextId)
      /\ k.kind \in Requests => asked[k.id] \subseteq {k.no}
  BY <1>1 DEF Ledger
<1>6. sending \in OutgoingFrame /\ c.session.outgoing \in Seq(OutgoingFrame)
  BY <1>1 DEF Types, Fit, WellFormed, WellTyped
<1>7. CASE at = "recv"
  <2>1. Unasked(asked, c.session.outgoing, c.session.nextId)
    BY <1>5, <1>7 DEF Unsent
  <2> QED
    BY <1>1, <1>2, <1>3, <1>4, <1>5, <1>7, <2>1 DEF Suspended, Ready
<1>8. CASE at \in {"flush", "settle"}
  <2> PICK f : f = sending
    OBVIOUS
  <2> PICK a : a = asked
    OBVIOUS
  <2>1. Unasked(a, <<f>> \o c.session.outgoing, c.session.nextId)
    BY <1>5, <1>8 DEF Unsent
  <2>2. Departs(a, f, c.session.outgoing, c.session.nextId)
    BY <1>6, <2>1, UnaskedTail
  <2>3. Unasked(asked, c.session.outgoing, c.session.nextId)
    BY <2>2 DEF Departs
  <2> QED
    BY <1>1, <1>2, <1>3, <1>4, <1>5, <2>2, <2>3 DEF Suspended, Ready
<1> QED
  BY <1>7, <1>8

\* A step of the owner or of the task that OBS takes no part in.
LEMMA QuietPasses ==
    ASSUME IInv, at # "gone", UNCHANGED <<now, server>>,
           NEW c, NEW k, Ready(c, k), Continues(c, k),
           at' = "settle" => k.kind \in {"connect", "reidentify"} /\ ~HasClosed(c),
           HasClosed(conn) =>
                HasClosed(c) /\ (result'.outcome = "ok" => result' = result \/ k.kind \in {"next", "poll"}),
           Accounted(c, k.no), Unasked(asked, c.session.outgoing, c.session.nextId),
           k.kind \in Requests => asked[k.id] \subseteq {k.no},
           c.session.phase = conn.session.phase, EventsOf(c) = EventsOf(conn)
    PROVE  Passes(c, k)
<1>1. /\ now' = now /\ asked' = asked /\ link' = link /\ socket' = socket /\ obs' = obs
      /\ emitted' = emitted /\ garbage' = garbage
  BY DEF server
<1>2. Types /\ Order
  BY DEF IInv
<1>3. Accounted(c, k.no)'
  BY <1>1 DEF Accounted
<1>4. UnderWay' = UnderWay
  BY <1>1 DEF UnderWay
<1>5. at' # "gone" /\ socket' \notin {"broken", "closed"} =>
            /\ c.session.phase # "Closed"
            /\ (served \o EventsOf(c)) \o UnderWay' = Counted(emitted')
  BY <1>1, <1>2, <1>4 DEF Order
<1> QED
  BY <1>1, <1>2, <1>3, <1>5 DEF Passes, Types

\* send() or recv() fails, and the call with it.
LEMMA TransportFailsPasses ==
    ASSUME IInv, TransportFails
    PROVE  IInv' /\ StepsAreSound
<1> PICK c : c = conn
  OBVIOUS
<1> PICK k : k = call
  OBVIOUS
<1> PICK r : r = Answerless("transport")
  OBVIOUS
<1>1. /\ at \in {"flush", "recv", "settle"} /\ Return(c, k, r)
      /\ UNCHANGED <<now, served, server>>
  BY DEF TransportFails
<1>2. Suspended(c, k)
  BY <1>1, CallSuspended
<1>3. Justified(c, c, k, r)
  BY ErrorJustified DEF Outcomes
<1>4. Fit(c) /\ Plain /\ k \in Calls
  BY <1>2 DEF Suspended, Ready, Suits
<1>5. Continues(c, k)
  BY <1>1, <1>3, <1>4, ReturnsHere
<1>6. at' \in {"idle", "gone"}
  BY <1>1 DEF Return
<1>7. Passes(c, k)
  BY <1>1, <1>2, <1>5, <1>6, QuietPasses DEF Suspended
<1> QED
  BY <1>7, Passed

\* The timer wins the race against recv().
LEMMA SleepFiresPasses ==
    ASSUME IInv, SleepFires
    PROVE  IInv' /\ StepsAreSound
<1> PICK c : c = conn
  OBVIOUS
<1> PICK k : k = call
  OBVIOUS
<1> PICK r : r = Answerless("timeout")
  OBVIOUS
<1>1. /\ at = "recv" /\ Timed(k) /\ now >= wake /\ Return(c, k, r)
      /\ UNCHANGED <<now, served, server>>
  BY DEF SleepFires
<1>2. Suspended(c, k)
  BY <1>1, CallSuspended
<1>3. /\ k.deadline <= wake /\ now \in Nat /\ wake \in Nat /\ k.deadline \in Nat
      /\ ~Has(c, k)
  BY <1>1 DEF IInv, Control, Types, Unanswered, Calls
<1>4. k.deadline <= now
  BY <1>1, <1>3
<1>5. Justified(c, c, k, r)
  BY <1>1, <1>3, <1>4, TimeoutJustified
<1>6. Fit(c) /\ Plain /\ k \in Calls
  BY <1>2 DEF Suspended, Ready, Suits
<1>7. Continues(c, k)
  BY <1>1, <1>5, <1>6, ReturnsHere
<1>8. at' \in {"idle", "gone"}
  BY <1>1 DEF Return
<1>9. Passes(c, k)
  BY <1>1, <1>2, <1>7, <1>8, QuietPasses DEF Suspended
<1> QED
  BY <1>9, Passed

\* What stays right of connection c and call k when OBS receives a frame.
Noted(c, k) ==
    /\ Accounted(c, k.no)' /\ Unasked(asked', c.session.outgoing, c.session.nextId)
    /\ k.kind \in Requests => asked'[k.id] \subseteq {k.no}
    /\ asked' \in [1 .. MaxCalls -> SUBSET Nat]
    /\ \A id \in DOMAIN asked : asked[id] # {} => asked'[id] = asked[id]
    /\ obs' \in [stage : {"new", "greeted", "identify", "reidentify", "ready"},
                 open : SUBSET [id : Nat, batch : BOOLEAN]]
    /\ link' = link /\ socket' = socket /\ emitted' = emitted /\ garbage' = garbage

\* A frame makes OBS expect an Identified, or await the answer to a call.
LEMMA ReceivesOpen ==
    ASSUME Types, NEW f \in OutgoingFrame, Receives(f)
    PROVE  /\ obs' \in [stage : {"new", "greeted", "identify", "reidentify", "ready"},
                        open : SUBSET [id : Nat, batch : BOOLEAN]]
           /\ \A r \in obs'.open : r \in obs.open \/ (IsCall(f) /\ r.id = f.id)
<1>1. /\ obs.stage \in {"new", "greeted", "identify", "reidentify", "ready"}
      /\ obs.open \in SUBSET [id : Nat, batch : BOOLEAN]
      /\ obs = [stage |-> obs.stage, open |-> obs.open]
  BY DEF Types
<1>2. f.op \in {OpIdentify, OpReidentify} \/ (IsCall(f) /\ f.id \in Nat)
  BY DEF OutgoingFrame, IsCall
<1>3. /\ f.op = OpIdentify => obs' = [obs EXCEPT !.stage = "identify"]
      /\ f.op = OpReidentify => obs' = [obs EXCEPT !.stage = "reidentify"] \/ obs' = obs
      /\ IsCall(f) => obs' = [obs EXCEPT !.open = @ \cup
                                {[id |-> f.id, batch |-> f.op = OpRequestBatch]}]
  BY DEF Receives, IsCall, OpIdentify, OpReidentify, OpRequest, OpRequestBatch
<1>4. CASE f.op = OpIdentify
  <2>1. obs' = [stage |-> "identify", open |-> obs.open]
    BY <1>1, <1>3, <1>4
  <2> QED
    BY <1>1, <2>1
<1>5. CASE f.op = OpReidentify
  <2>1. obs' = [stage |-> "reidentify", open |-> obs.open] \/ obs' = obs
    BY <1>1, <1>3, <1>5
  <2> QED
    BY <1>1, <2>1
<1>6. CASE IsCall(f) /\ f.id \in Nat
  <2> PICK one : one = [id |-> f.id, batch |-> f.op = OpRequestBatch]
    OBVIOUS
  <2>1. one \in [id : Nat, batch : BOOLEAN] /\ one.id = f.id
    BY <1>6
  <2>2. obs' = [stage |-> obs.stage, open |-> obs.open \cup {one}]
    BY <1>1, <1>3, <1>6
  <2>3. obs'.stage = obs.stage /\ obs'.open = obs.open \cup {one}
    BY <2>2
  <2>4. obs'.open \in SUBSET [id : Nat, batch : BOOLEAN]
    BY <1>1, <2>1, <2>3
  <2> QED
    BY <1>1, <1>6, <2>1, <2>2, <2>3, <2>4
<1> QED
  BY <1>2, <1>4, <1>5, <1>6

\* The call of a frame that OBS receives has not been received before.
LEMMA ReceivesNoted ==
    ASSUME Types, NEW c, NEW k, Suspended(c, k), NEW f \in OutgoingFrame,
           Departs(asked, f, c.session.outgoing, c.session.nextId),
           k = call, Receives(f)
    PROVE  Noted(c, k)
<1>1. /\ \A r \in obs'.open : r \in obs.open \/ (IsCall(f) /\ r.id = f.id)
      /\ obs' \in [stage : {"new", "greeted", "identify", "reidentify", "ready"},
                   open : SUBSET [id : Nat, batch : BOOLEAN]]
  BY ReceivesOpen
<1>2. /\ asked \in [1 .. MaxCalls -> SUBSET Nat] /\ k.no \in Nat
      /\ c.session.nextId \in Nat /\ MaxCalls \in Nat
  BY DEF Types, Suspended, Ready, Suits, Calls, Fit, WellFormed, WellTyped
<1>3. /\ Accounted(c, k.no) /\ Unasked(asked, c.session.outgoing, c.session.nextId)
      /\ k.kind \in Requests => asked[k.id] \subseteq {k.no}
  BY DEF Suspended
<1>4. UNCHANGED <<link, socket, emitted, garbage>>
  BY DEF Receives
<1>5. CASE ~IsCall(f)
  <2>1. asked' = asked
    BY <1>5 DEF Receives, IsCall
  <2>2. \A r \in obs'.open : r \in obs.open
    BY <1>1, <1>5
  <2>3. Accounted(c, k.no)'
    BY <1>3, <1>4, <2>1, <2>2 DEF Accounted
  <2> QED
    BY <1>1, <1>2, <1>3, <1>4, <2>1, <2>3 DEF Noted
<1>6. CASE IsCall(f)
  <2>1. /\ f.id \in 1 .. c.session.nextId - 1 /\ asked[f.id] = {}
        /\ \A i \in DOMAIN c.session.outgoing :
                IsCall(c.session.outgoing[i]) => c.session.outgoing[i].id # f.id
    BY <1>6 DEF Departs
  <2>2. f.id \in 1 .. MaxCalls
    <3>1. c.session.nextId - 1 <= MaxCalls
      BY <1>3 DEF Accounted
    <3> QED
      BY <1>2, <2>1, <3>1
  <2>3. asked' = [asked EXCEPT ![f.id] = {k.no}]
    <3>1. asked' = [asked EXCEPT ![f.id] = @ \cup {call.no}]
      BY <1>6 DEF Receives, IsCall
    <3> QED
      BY <2>1, <3>1
  <2>4. /\ asked' \in [1 .. MaxCalls -> SUBSET Nat] /\ asked'[f.id] = {k.no}
        /\ \A id \in 1 .. MaxCalls : id # f.id => asked'[id] = asked[id]
        /\ DOMAIN asked' = 1 .. MaxCalls /\ DOMAIN asked = 1 .. MaxCalls
    BY <1>2, <2>2, <2>3
  <2>5. \A id \in DOMAIN asked : asked[id] # {} => asked'[id] = asked[id]
    BY <2>1, <2>4
  <2>6. \A id : Reached(asked, id) => Reached(asked', id)
    BY <2>4, <2>5 DEF Reached
  <2>7. Reached(asked', f.id)
    BY <2>2, <2>4 DEF Reached
  <2>8. Accounted(c, k.no)'
    <3>1. \A id \in DOMAIN asked' : c.session.nextId <= id => asked'[id] = {}
      <4>1. \A id \in 1 .. MaxCalls : c.session.nextId <= id => id # f.id
        BY <1>2, <2>1
      <4> QED
        BY <1>3, <2>4, <4>1 DEF Accounted
    <3>2. \A r \in obs'.open : Reached(asked', r.id)
      BY <1>1, <1>3, <2>6, <2>7 DEF Accounted
    <3> QED
      BY <1>3, <1>4, <2>6, <3>1, <3>2 DEF Accounted
  <2>9. Unasked(asked', c.session.outgoing, c.session.nextId)
    <3>1. \A i \in DOMAIN c.session.outgoing : IsCall(c.session.outgoing[i]) =>
                /\ c.session.outgoing[i].id \in 1 .. MaxCalls
                /\ c.session.outgoing[i].id # f.id
      BY <1>2, <1>3, <2>1 DEF Unasked, Accounted
    <3> QED
      BY <1>3, <2>4, <3>1 DEF Unasked
  <2>10. k.kind \in Requests => asked'[k.id] \subseteq {k.no}
    <3>1. k.kind \in Requests => k.id \in 1 .. MaxCalls
      BY <1>2, <1>3 DEF Suspended, Ready, Suits, Accounted
    <3> QED
      BY <1>3, <2>4, <3>1
  <2> QED
    BY <1>1, <1>4, <2>4, <2>5, <2>8, <2>9, <2>10 DEF Noted
<1> QED
  BY <1>5, <1>6

\* A call whose frame OBS has received goes on.
LEMMA NotedPasses ==
    ASSUME IInv, at # "gone", now' = now,
           NEW c, c = conn, NEW k, Suspended(c, k), Continues(c, k), Noted(c, k),
           at' = "settle" => k.kind \in {"connect", "reidentify"} /\ ~HasClosed(c)
    PROVE  Passes(c, k)
<1>1. Types /\ Order
  BY DEF IInv
<1>2. /\ link' = link /\ socket' = socket /\ emitted' = emitted /\ garbage' = garbage
      /\ UnderWay' = UnderWay
  BY DEF Noted, UnderWay
<1>3. at' # "gone" /\ socket' \notin {"broken", "closed"} =>
            /\ c.session.phase # "Closed"
            /\ (served \o EventsOf(c)) \o UnderWay' = Counted(emitted')
  BY <1>1, <1>2 DEF Order
<1> QED
  BY <1>1, <1>2, <1>3 DEF Passes, Types, Suspended, Noted

\* send() has written its frame.
LEMMA SentPasses ==
    ASSUME IInv, Sent
    PROVE  IInv' /\ StepsAreSound
<1> PICK c : c = conn
  OBVIOUS
<1> PICK k : k = call
  OBVIOUS
<1> PICK f : f = sending
  OBVIOUS
<1>1. /\ at \in {"flush", "settle"} /\ Receives(f) /\ now' = now
      /\ at = "flush" => FlushThenRecv(c, k) /\ UNCHANGED served
      /\ at = "settle" => FlushThenResume(c, k)
  BY DEF Sent
<1>2. Suspended(c, k) /\ Departs(asked, f, c.session.outgoing, c.session.nextId)
  BY <1>1, CallSuspended
<1>3. f \in OutgoingFrame /\ Types
  BY DEF IInv, Types
<1>4. Noted(c, k)
  BY <1>1, <1>2, <1>3, ReceivesNoted
<1>5. Fit(c) /\ Plain /\ k \in Calls /\ Ready(c, k)
  BY <1>2 DEF Suspended, Ready, Suits
<1>6. CASE at = "flush"
  <2>1. /\ k.kind # "reidentify" /\ Unanswered(c, k)
        /\ Timed(k) => k.deadline <= now + k.wait
    BY <1>6 DEF IInv, Control
  <2>2. Continues(c, k)
    BY <1>1, <1>5, <1>6, <2>1, RecvContinues
  <2>3. at' # "settle"
    BY <1>1, <1>6 DEF FlushThenRecv, SendFirst
  <2>4. Passes(c, k)
    BY <1>1, <1>2, <1>4, <2>2, <2>3, NotedPasses
  <2> QED
    BY <2>4, Passed
<1>7. CASE at = "settle"
  <2>1. k.kind \in {"connect", "reidentify"} /\ ~HasClosed(c)
    BY <1>7 DEF IInv, Control
  <2>2. Continues(c, k)
    BY <1>1, <1>5, <1>7, ResumeContinues
  <2>3. Passes(c, k)
    BY <1>1, <1>2, <1>4, <2>1, <2>2, NotedPasses
  <2> QED
    BY <2>3, Passed
<1> QED
  BY <1>1, <1>6, <1>7

\* The owner drops the future.
LEMMA CancelPasses ==
    ASSUME IInv, Cancel
    PROVE  IInv' /\ StepsAreSound
<1> PICK c : c = conn
  OBVIOUS
<1> PICK k : k = call
  OBVIOUS
<1> PICK f : f = sending
  OBVIOUS
<1>1. /\ at \in {"flush", "recv", "settle"} /\ k \in Calls /\ Types
      /\ at' = IF k.kind = "connect" THEN "gone" ELSE "idle"
      /\ result' = Ended([k EXCEPT !.kind = "dropped"], Answerless("ok"))
      /\ call' = NoCall
      /\ (at # "recv" /\ Receives(f)) \/ UNCHANGED server
      /\ UNCHANGED <<conn, sending, now, wake, served>>
  BY DEF Cancel, IInv, Types
<1>2. Suspended(c, k) /\ f \in OutgoingFrame
  BY <1>1, CallSuspended DEF Types
<1>3. /\ result'.kind = "dropped" /\ result'.no = k.no /\ result'.outcome = "ok"
      /\ result' \in Endings
  BY <1>1 DEF Ended, Answerless, Calls, Endings, Outcomes
<1>4. Noted(c, k)
  <2>1. CASE at # "recv" /\ Receives(f)
    <3>1. Departs(asked, f, c.session.outgoing, c.session.nextId)
      BY <1>1, <2>1, CallSuspended
    <3> QED
      BY <1>1, <1>2, <2>1, <3>1, ReceivesNoted
  <2>2. CASE UNCHANGED server
    <3>1. UNCHANGED <<link, socket, obs, emitted, asked, garbage>>
      BY <2>2 DEF server
    <3>2. Accounted(c, k.no)'
      BY <1>2, <3>1 DEF Accounted, Suspended
    <3> QED
      BY <1>1, <1>2, <3>1, <3>2 DEF Noted, Suspended, Types
  <2> QED
    BY <1>1, <2>1, <2>2
<1>5. Types'
  BY <1>1, <1>3, <1>4 DEF Types, Noted
<1>6. Control'
  <2>1. Fit(c) /\ Suits(c, k)
    BY <1>2 DEF Suspended, Ready
  <2> QED
    BY <1>1, <2>1 DEF Control, Suits
<1>7. Replies'
  <2>1. at' # "gone" => Ledger'
    <3>1. NoCall.kind \notin Requests
      BY DEF NoCall, Requests
    <3>2. Unsent' = c.session.outgoing
      BY <1>1 DEF Unsent
    <3>3. Accounted(conn, result.no)'
      <4>1. PICK n : n = k.no
        OBVIOUS
      <4>2. Accounted(conn, n)'
        BY <1>1, <1>4, <4>1 DEF Noted, Accounted
      <4> QED
        BY <1>3, <4>1, <4>2
    <3> QED
      BY <1>1, <1>4, <3>1, <3>2, <3>3 DEF Ledger, Noted
  <2> QED
    BY <1>3, <2>1 DEF Replies, OwnAnswer, Requests
<1>8. Order'
  <2>1. UnderWay' = UnderWay /\ socket' = socket /\ emitted' = emitted
    BY <1>4 DEF Noted, UnderWay
  <2> QED
    BY <1>1, <2>1 DEF IInv, Order
<1>9. StepsAreSound
  BY <1>1, <1>3 DEF StepsAreSound
<1> QED
  BY <1>5, <1>6, <1>7, <1>8, <1>9 DEF IInv

----------------------------------------------------------------------------
(* A frame is read.                                                        *)

\* The frames that carry an event, and their ids in a list of frames.
EventFrames == {m \in ServerFrame : m.op = OpEvent}

Flight(frames) == Chosen(frames, EventFrames)

\* As UnderWay lists them.
Flying(frames) ==
    EventIds(Subsequence(frames, {i \in DOMAIN frames : frames[i].op = OpEvent}))

\* It is the same list.
LEMMA FlyingIsFlight ==
    ASSUME NEW frames \in Seq(ServerFrame)
    PROVE  Flying(frames) = Flight(frames)
<1>1. {i \in DOMAIN frames : frames[i].op = OpEvent}
        = {i \in DOMAIN frames : frames[i] \in EventFrames}
  BY DEF EventFrames
<1> QED
  BY <1>1 DEF Flying, Flight, Chosen

\* An event has a number.
LEMMA EventNumbered ==
    ASSUME NEW m \in EventFrames
    PROVE  m.id \in Nat
<1>1. m \in ServerFrame /\ m.op # WsClose
  BY DEF EventFrames, OpEvent, WsClose
<1> QED
  BY <1>1, FrameIsMessage DEF IsIncoming

\* So the list is one of numbers.
LEMMA FlightTyped ==
    ASSUME NEW frames \in Seq(ServerFrame)
    PROVE  Flight(frames) \in Seq(Nat)
<1>1. \A e \in ServerFrame : e \in EventFrames => e.id \in Nat
  BY EventNumbered
<1> QED
  BY <1>1, ChosenTyped DEF Flight

\* The frames are the first one and the others.
Fronted(frames, m, rest) ==
    /\ m \in ServerFrame /\ rest \in Seq(ServerFrame)
    /\ 1 \in DOMAIN frames /\ frames[1] = m
    /\ \A i \in DOMAIN rest : \E j \in DOMAIN frames : rest[i] = frames[j]
    /\ Flight(rest) \in Seq(Nat)
    /\ m.op = OpEvent => m.id \in Nat /\ Flight(frames) = <<m.id>> \o Flight(rest)
    /\ m.op # OpEvent => Flight(frames) = Flight(rest)

\* Reading takes the first frame off.
LEMMA FirstFrame ==
    ASSUME NEW frames \in Seq(ServerFrame), frames # <<>>
    PROVE  Fronted(frames, Head(frames), Tail(frames))
<1> PICK m : m = Head(frames)
  OBVIOUS
<1> PICK rest : rest = Tail(frames)
  OBVIOUS
<1>1. m \in ServerFrame /\ rest \in Seq(ServerFrame) /\ frames = <<m>> \o rest
  OBVIOUS
<1>2. 1 \in DOMAIN frames /\ frames[1] = m
  OBVIOUS
<1>3. \A i \in DOMAIN rest : \E j \in DOMAIN frames : rest[i] = frames[j]
  <2> SUFFICES ASSUME NEW i \in DOMAIN rest PROVE \E j \in DOMAIN frames : rest[i] = frames[j]
    OBVIOUS
  <2>1. i + 1 \in DOMAIN frames /\ rest[i] = frames[i + 1]
    OBVIOUS
  <2> QED
    BY <2>1
<1>4. Flight(rest) \in Seq(Nat)
  BY <1>1, FlightTyped
<1>5. <<m>> \in Seq(ServerFrame)
  BY <1>1
<1>6. Flight(frames) = Flight(<<m>>) \o Flight(rest)
  BY <1>1, <1>5, ChosenConcat DEF Flight
<1>7. Flight(<<m>>) = IF m \in EventFrames THEN <<m.id>> ELSE <<>>
  BY <1>1, ChosenOne DEF Flight
<1>8. m.op = OpEvent => m \in EventFrames /\ m.id \in Nat
  BY <1>1, EventNumbered DEF EventFrames
<1>9. m.op # OpEvent => m \notin EventFrames
  BY DEF EventFrames
<1>10. <<>> \o Flight(rest) = Flight(rest)
  BY <1>4
<1> QED
  BY <1>1, <1>2, <1>3, <1>4, <1>6, <1>7, <1>8, <1>9, <1>10 DEF Fronted

\* Of what OBS has received, a frame that leaves the link says nothing new.
LEMMA AccountedRead ==
    ASSUME NEW c, NEW d, NEW n, Accounted(c, n), d.session.nextId = c.session.nextId,
           NEW m, NEW rest, Fronted(link, m, rest), link' = rest, UNCHANGED <<obs, asked>>,
           \A e \in ToSet(d.inbox) :
                \/ e \in ToSet(c.inbox)
                \/ IsAnswered(e) => IsAnswer(m) /\ e.id = m.id
    PROVE  Accounted(d, n)'
<1>1. /\ c.session.nextId <= n /\ c.session.nextId - 1 <= MaxCalls
      /\ \A id \in DOMAIN asked : c.session.nextId <= id => asked[id] = {}
      /\ \A r \in obs.open : Reached(asked, r.id)
      /\ \A i \in DOMAIN link : IsAnswer(link[i]) => Reached(asked, link[i].id)
      /\ \A e \in ToSet(c.inbox) : IsAnswered(e) => Reached(asked, e.id)
  BY DEF Accounted
<1>2. /\ 1 \in DOMAIN link /\ link[1] = m
      /\ \A i \in DOMAIN rest : \E j \in DOMAIN link : rest[i] = link[j]
  BY DEF Fronted
<1>3. \A i \in DOMAIN link' : IsAnswer(link'[i]) => Reached(asked, link'[i].id)
  BY <1>1, <1>2
<1>4. \A e \in ToSet(d.inbox) : IsAnswered(e) => Reached(asked, e.id)
  BY <1>1, <1>2
<1> QED
  BY <1>1, <1>3, <1>4 DEF Accounted

\* The message is drained into the inbox, and the call goes on.
LEMMA MessagePasses ==
    ASSUME IInv, at = "recv", link # <<>>, UNCHANGED <<now, socket, obs, emitted, asked, garbage>>,
           link' = Tail(link),
           NEW c, c = conn, NEW k, k = call, NEW m, m = Head(link), m.op # WsClose,
           NEW d, Ingested(c, m, d), FlushThenResume(d, k)
    PROVE  Passes(d, k)
<1>1. Types /\ Order /\ link \in Seq(ServerFrame) /\ c.session.outgoing = <<>>
  BY DEF IInv, Types, Control
<1>2. Suspended(c, k)
  BY CallSuspended
<1>3. PICK rest : rest = Tail(link)
  OBVIOUS
<1>4. Fronted(link, m, rest)
  BY <1>1, <1>3, FirstFrame
<1>5. /\ Fit(c) /\ Plain /\ Suits(c, k) /\ (k.kind \in Requests => Timely(c, k))
      /\ Accounted(c, k.no) /\ Unasked(asked, c.session.outgoing, c.session.nextId)
      /\ k.kind \in Requests => asked[k.id] \subseteq {k.no}
  BY <1>2 DEF Suspended, Ready
<1>6. /\ Fit(d) /\ d.session.phase # "Closed" /\ ~HasClosed(d) /\ ~HasClosed(c)
      /\ Greeted(c) => Greeted(d)
      /\ d.session.nextId = c.session.nextId /\ StillPending(c.session, d.session)
      /\ \/ d.session.outgoing = c.session.outgoing
         \/ /\ ~Greeted(c)
            /\ \E frame \in OutgoingFrame :
                  ~IsCall(frame) /\ d.session.outgoing = Append(c.session.outgoing, frame)
      /\ m.op = OpEvent => EventsOf(d) = EventsOf(c) \o <<m.id>>
      /\ m.op # OpEvent => EventsOf(d) = EventsOf(c)
      /\ \A e \in ToSet(d.inbox) :
              \/ e \in ToSet(c.inbox)
              \/ IsCompletion(e) => IsAnswer(m) /\ e.id = m.id /\ IsAnswered(e)
  BY DEF Ingested
<1>7. Ready(d, k)
  <2>1. Suits(d, k)
    BY <1>5, <1>6 DEF Suits, StillPending
  <2>2. ASSUME k.kind \in Requests PROVE Timely(d, k)
    <3> SUFFICES ASSUME NEW e \in ToSet(d.inbox), IsOwn(e, k), e.result = "timeout"
                 PROVE  k.deadline <= now
      BY DEF Timely
    <3>1. IsCompletion(e)
      BY OwnCompletes
    <3>2. ~IsAnswered(e)
      BY DEF IsAnswered
    <3>3. e \in ToSet(c.inbox)
      BY <1>6, <3>1, <3>2
    <3> QED
      BY <1>5, <2>2, <3>3 DEF Timely
  <2> QED
    BY <1>5, <1>6, <2>1, <2>2 DEF Ready
<1>8. Continues(d, k)
  BY <1>7, ResumeContinues
<1>9. at' = "settle" => k.kind \in {"connect", "reidentify"} /\ ~HasClosed(d)
  <2> SUFFICES ASSUME at' = "settle" PROVE k.kind = "connect"
    BY <1>6
  <2>1. d.session.outgoing # <<>>
    BY <1>8 DEF Continues, Over, GoesOn
  <2> QED
    BY <1>1, <1>5, <1>6, <2>1 DEF Suits
<1>10. Accounted(d, k.no)'
  <2>1. \A e : IsAnswered(e) => IsCompletion(e)
    BY DEF IsAnswered
  <2>2. \A e \in ToSet(d.inbox) :
                \/ e \in ToSet(c.inbox)
                \/ IsAnswered(e) => IsAnswer(m) /\ e.id = m.id
    BY <1>6, <2>1
  <2>3. PICK n : n = k.no
    OBVIOUS
  <2>4. /\ Accounted(c, n) /\ d.session.nextId = c.session.nextId
        /\ link' = rest /\ UNCHANGED <<obs, asked>>
    BY <1>3, <1>5, <1>6, <2>3
  <2>5. Accounted(d, n)'
    BY <1>4, <2>2, <2>4, AccountedRead
  <2> QED
    BY <2>3, <2>5
<1>11. Unasked(asked', d.session.outgoing, d.session.nextId)
  <2> PICK a : a = asked
    OBVIOUS
  <2> PICK n : n = c.session.nextId
    OBVIOUS
  <2> PICK out : out = c.session.outgoing
    OBVIOUS
  <2>1. /\ out \in Seq(OutgoingFrame) /\ n \in Nat \ {0} /\ n \in Nat /\ n <= n
        /\ Unasked(a, out, n)
    BY <1>5 DEF Fit, WellFormed, WellTyped
  <2>2. CASE d.session.outgoing = out
    BY <1>6, <2>1, <2>2
  <2>3. ASSUME NEW frame \in OutgoingFrame, ~IsCall(frame), d.session.outgoing = Append(out, frame)
        PROVE  Unasked(asked', d.session.outgoing, d.session.nextId)
    <3>1. Unasked(a, Append(out, frame), n)
      BY <2>1, <2>3, UnaskedAppend
    <3> QED
      BY <1>6, <2>3, <3>1
  <2> QED
    BY <1>6, <2>2, <2>3
<1>12. ASSUME at' # "gone", socket' \notin {"broken", "closed"}
       PROVE  /\ d.session.phase # "Closed"
              /\ (served \o EventsOf(d)) \o UnderWay' = Counted(emitted')
  <2>1. (served \o EventsOf(c)) \o UnderWay = Counted(emitted)
    BY <1>1, <1>12 DEF Order
  <2>2. UnderWay = Flight(link)
    BY <1>1, FlyingIsFlight DEF UnderWay, Flying
  <2>3. UnderWay' = Flight(rest)
    <3>1. link' = rest /\ link' \in Seq(ServerFrame)
      BY <1>3, <1>4 DEF Fronted
    <3>2. UnderWay' = Flying(rest)
      BY <3>1 DEF UnderWay, Flying
    <3> QED
      BY <1>4, <3>2, FlyingIsFlight DEF Fronted
  <2>4. served \in Seq(Nat) /\ EventsOf(c) \in Seq(Nat) /\ Flight(rest) \in Seq(Nat)
    BY <1>4, <1>5, EventsAreChosen DEF Plain, Fit, Fronted
  <2>5. CASE m.op = OpEvent
    <3>1. m.id \in Nat /\ Flight(link) = <<m.id>> \o Flight(rest)
      BY <1>4, <2>5 DEF Fronted
    <3>2. (served \o (EventsOf(c) \o <<m.id>>)) \o Flight(rest)
                = (served \o EventsOf(c)) \o (<<m.id>> \o Flight(rest))
      <4> PICK x : x = m.id
        OBVIOUS
      <4> PICK b : b = EventsOf(c)
        OBVIOUS
      <4> PICK t : t = Flight(rest)
        OBVIOUS
      <4> PICK a : a = served
        OBVIOUS
      <4>1. a \in Seq(Nat) /\ b \in Seq(Nat) /\ t \in Seq(Nat) /\ <<x>> \in Seq(Nat)
        BY <2>4, <3>1
      <4>2. a \o (b \o <<x>>) = (a \o b) \o <<x>> /\ a \o b \in Seq(Nat)
        BY <4>1, NumbersAssociate, ConcatProperties
      <4>3. ((a \o b) \o <<x>>) \o t = (a \o b) \o (<<x>> \o t)
        <5>1. PICK ab, one : ab = a \o b /\ one = <<x>>
          OBVIOUS
        <5>2. ab \in Seq(Nat) /\ one \in Seq(Nat) /\ t \in Seq(Nat)
          BY <4>1, <4>2, <5>1
        <5>3. (ab \o one) \o t = ab \o (one \o t)
          BY <5>2, NumbersAssociate, Zenon
        <5> QED
          BY <5>1, <5>3, Zenon
      <4> QED
        BY <4>2, <4>3, Zenon
    <3> QED
      BY <1>6, <2>1, <2>2, <2>3, <2>5, <3>1, <3>2
  <2>6. CASE m.op # OpEvent
    <3>1. Flight(link) = Flight(rest)
      BY <1>4, <2>6 DEF Fronted
    <3> QED
      BY <1>6, <2>1, <2>2, <2>3, <2>6, <3>1
  <2> QED
    BY <2>5, <2>6
<1>13. link' \in Seq(ServerFrame)
  BY <1>3, <1>4 DEF Fronted
<1> QED
  BY <1>1, <1>5, <1>6, <1>7, <1>8, <1>9, <1>10, <1>11, <1>12, <1>13 DEF Passes, Types

\* The message is refused: it is gone, and so is the call.
LEMMA RefusalPasses ==
    ASSUME IInv, at = "recv", link # <<>>, UNCHANGED <<now, socket, obs, emitted, asked, garbage>>,
           UNCHANGED served, link' = Tail(link),
           NEW c, c = conn, NEW k, k = call, NEW m, m = Head(link),
           c.session.phase = "Identified" => m.op # OpEvent,
           NEW outcome \in Outcomes \ {"ok", "timeout"}, Return(c, k, Answerless(outcome))
    PROVE  Passes(c, k)
<1>1. Types /\ Order /\ link \in Seq(ServerFrame)
  BY DEF IInv, Types
<1>2. Suspended(c, k)
  BY CallSuspended
<1>3. PICK rest : rest = Tail(link)
  OBVIOUS
<1>4. Fronted(link, m, rest)
  BY <1>1, <1>3, FirstFrame
<1>5. /\ Ready(c, k) /\ Fit(c) /\ Plain /\ Suits(c, k) /\ k \in Calls
      /\ Accounted(c, k.no) /\ Unasked(asked, c.session.outgoing, c.session.nextId)
      /\ k.kind \in Requests => asked[k.id] \subseteq {k.no}
      /\ HasClosed(c) => k.kind \in {"next", "poll"}
  BY <1>2 DEF Suspended, Ready, Suits
<1>6. PICK r : r = Answerless(outcome)
  OBVIOUS
<1>7. Justified(c, c, k, r) /\ Return(c, k, r) /\ r.outcome # "ok"
  BY <1>6, ErrorJustified DEF Answerless
<1>8. Continues(c, k)
  BY <1>5, <1>7, ReturnsHere
<1>9. at' \in {"idle", "gone"} /\ (at' # "gone" => k.kind # "connect")
  BY <1>7 DEF Return
<1>10. Accounted(c, k.no)'
  <2>1. PICK n : n = k.no
    OBVIOUS
  <2>2. Accounted(c, n) /\ link' = rest /\ UNCHANGED <<obs, asked>>
    BY <1>3, <1>5, <2>1
  <2>3. Accounted(c, n)'
    BY <1>4, <2>2, AccountedRead
  <2> QED
    BY <2>1, <2>3
<1>11. ASSUME at' # "gone", socket' \notin {"broken", "closed"}
       PROVE  /\ c.session.phase # "Closed"
              /\ (served \o EventsOf(c)) \o UnderWay' = Counted(emitted')
  <2>1. c.session.phase # "Closed" /\ (served \o EventsOf(c)) \o UnderWay = Counted(emitted)
    BY <1>1, <1>11 DEF Order
  <2>2. m.op # OpEvent
    BY <1>5, <1>9, <1>11, <2>1 DEF Suits, Greeted
  <2>3. UnderWay = Flight(link)
    BY <1>1, FlyingIsFlight DEF UnderWay, Flying
  <2>4. UnderWay' = Flight(rest)
    <3>1. link' = rest /\ rest \in Seq(ServerFrame)
      BY <1>3, <1>4 DEF Fronted
    <3>2. UnderWay' = Flying(rest)
      BY <3>1 DEF UnderWay, Flying
    <3> QED
      BY <3>1, <3>2, FlyingIsFlight
  <2>5. Flight(link) = Flight(rest)
    BY <1>4, <2>2 DEF Fronted
  <2> QED
    BY <2>1, <2>3, <2>4, <2>5
<1>12. link' \in Seq(ServerFrame)
  BY <1>3, <1>4 DEF Fronted
<1> QED
  BY <1>1, <1>5, <1>8, <1>9, <1>10, <1>11, <1>12 DEF Passes, Types

\* A handshake that lacks the password drops the connection.
LEMMA AuthRequiredDrops ==
    ASSUME IInv, at = "recv", link # <<>>, UNCHANGED <<now, socket, obs, emitted, asked, garbage>>,
           UNCHANGED served, link' = Tail(link),
           conn.session.phase = "AwaitingHello", NEW d, Return(d, call, Answerless("auth"))
    PROVE  IInv' /\ StepsAreSound
<1> PICK k : k = call
  OBVIOUS
<1>1. Types /\ Replies /\ Fit(conn) /\ k \in Calls /\ Suits(conn, k)
  BY DEF IInv, Types, Control
<1>2. k.kind = "connect"
  BY <1>1 DEF Suits, Greeted, Calls, Kinds
<1>3. /\ at' = "gone" /\ call' = NoCall /\ UNCHANGED <<sending, wake>>
      /\ result' = Ended(k, Answerless("auth"))
  BY <1>2 DEF Return, Answerless
<1>4. /\ result' \in Endings /\ result'.kind = "connect" /\ result'.outcome = "auth"
  BY <1>1, <1>2, <1>3 DEF Ended, Answerless, Calls, Endings, Outcomes
<1>5. link' \in Seq(ServerFrame)
  BY <1>1 DEF Types
<1>6. Types'
  BY <1>1, <1>3, <1>4, <1>5 DEF Types
<1>7. Control' /\ Order'
  BY <1>3 DEF Control, Order
<1>8. Replies'
  BY <1>3, <1>4 DEF Replies, OwnAnswer, Requests
<1>9. ~HasClosed(conn)
  BY <1>1 DEF Fit
<1> QED
  BY <1>4, <1>6, <1>7, <1>8, <1>9 DEF IInv, StepsAreSound

\* recv() wins with a text frame.
LEMMA RecvMessagePasses ==
    ASSUME IInv, RecvMessage
    PROVE  IInv' /\ StepsAreSound
<1> PICK c : c = conn
  OBVIOUS
<1> PICK k : k = call
  OBVIOUS
<1> PICK m : m = Head(link)
  OBVIOUS
<1> PICK h : h = HandleMessage(c.session, m, TRUE)
  OBVIOUS
<1> PICK kept : kept = [c EXCEPT !.session = h.session]
  OBVIOUS
<1>1. /\ at = "recv" /\ link # <<>> /\ m.op # WsClose /\ link' = Tail(link)
      /\ UNCHANGED <<now, socket, obs, emitted, asked, garbage>>
      /\ h.error = "none" => FlushThenResume(Drain(kept), k)
      /\ h.error # "none" =>
            /\ Return(kept, k, Answerless(CASE h.error = "AuthRequired" -> "auth"
                                            [] h.error = "Unexpected" -> "unexpected"
                                            [] OTHER -> "session"))
            /\ UNCHANGED served
  BY DEF RecvMessage
<1>2. Fit(c) /\ m \in ServerFrame
  BY <1>1 DEF IInv, Control, Types
<1>3. Heard(c.session, m, h)
  BY <1>1, <1>2, MessageHeard DEF Fit
<1>4. CASE h.error = "none"
  <2>1. Ingested(c, m, Drain(kept))
    BY <1>1, <1>2, <1>4, MessageIngested
  <2>2. PICK d : d = Drain(kept)
    OBVIOUS
  <2>3. Passes(d, k)
    BY <1>1, <1>4, <2>1, <2>2, MessagePasses
  <2> QED
    BY <2>3, Passed
<1>5. CASE h.error = "AuthRequired"
  <2>1. c.session.phase = "AwaitingHello"
    BY <1>3, <1>5 DEF Heard
  <2>2. Return(kept, call, Answerless("auth")) /\ UNCHANGED served
    BY <1>1, <1>5
  <2> QED
    BY <1>1, <2>1, <2>2, AuthRequiredDrops
<1>6. CASE h.error \notin {"none", "AuthRequired"}
  <2>1. h.session = c.session /\ (c.session.phase = "Identified" => m.op # OpEvent)
    BY <1>3, <1>6 DEF Heard
  <2>2. kept = c
    BY <1>2, <2>1 DEF Fit
  <2>3. PICK outcome \in {"unexpected", "session"} : Return(c, k, Answerless(outcome))
    BY <1>1, <1>6, <2>2
  <2>4. outcome \in Outcomes \ {"ok", "timeout"} /\ UNCHANGED served
    BY <1>1, <1>6 DEF Outcomes
  <2>5. Passes(c, k)
    BY <1>1, <2>1, <2>3, <2>4, RefusalPasses
  <2> QED
    BY <2>5, Passed
<1> QED
  BY <1>4, <1>5, <1>6

\* The close is drained into the inbox, and the call goes on or ends.
LEMMA ClosePasses ==
    ASSUME IInv, at = "recv", UNCHANGED <<now, obs, emitted, asked, garbage>>,
           link' \in {link, <<>>}, socket' = "closed",
           NEW c, c = conn, NEW k, k = call,
           NEW d, Cut(c, d), FlushThenResume(d, k)
    PROVE  Passes(d, k)
<1>1. Types /\ c.session.outgoing = <<>>
  BY DEF IInv, Control
<1>2. Suspended(c, k)
  BY CallSuspended
<1>3. /\ Fit(c) /\ Plain /\ Suits(c, k) /\ (k.kind \in Requests => Timely(c, k))
      /\ HasClosed(c) => k.kind \in {"next", "poll"}
      /\ Accounted(c, k.no) /\ Unasked(asked, c.session.outgoing, c.session.nextId)
      /\ k.kind \in Requests => asked[k.id] \subseteq {k.no}
  BY <1>2 DEF Suspended, Ready
<1>4. /\ Fit(d) /\ d.session.phase = "Closed" /\ HasClosed(d)
      /\ d.session.nextId = c.session.nextId /\ PendingIds(d.session) = {}
      /\ d.session.outgoing = c.session.outgoing
      /\ \A e \in ToSet(d.inbox) : \/ e \in ToSet(c.inbox)
                                   \/ IsCompletion(e) => e.result = "closed"
  BY DEF Cut
<1>5. Ready(d, k)
  <2>1. Suits(d, k)
    BY <1>3, <1>4 DEF Suits, Greeted
  <2>2. ASSUME k.kind \in Requests PROVE Timely(d, k)
    <3> SUFFICES ASSUME NEW e \in ToSet(d.inbox), IsOwn(e, k), e.result = "timeout"
                 PROVE  k.deadline <= now
      BY DEF Timely
    <3>1. IsCompletion(e)
      BY OwnCompletes
    <3>2. e \in ToSet(c.inbox)
      BY <1>4, <3>1
    <3> QED
      BY <1>3, <2>2, <3>2 DEF Timely
  <2> QED
    BY <1>3, <1>4, <2>1, <2>2 DEF Ready
<1>6. Continues(d, k)
  BY <1>5, ResumeContinues
<1>7. at' # "settle"
  BY <1>1, <1>4, <1>6 DEF Continues, Over, GoesOn
<1>8. Accounted(d, k.no)'
  <2>1. \A e \in ToSet(d.inbox) : IsAnswered(e) => e \in ToSet(c.inbox)
    BY <1>4 DEF IsAnswered
  <2>2. \A i \in DOMAIN link' : i \in DOMAIN link /\ link'[i] = link[i]
    OBVIOUS
  <2> QED
    BY <1>3, <1>4, <2>1, <2>2 DEF Accounted
<1>9. link' \in Seq(ServerFrame)
  <2>1. link \in Seq(ServerFrame)
    BY <1>1 DEF Types
  <2>2. <<>> \in Seq(ServerFrame)
    OBVIOUS
  <2> QED
    BY <2>1, <2>2
<1> QED
  BY <1>1, <1>3, <1>4, <1>5, <1>6, <1>7, <1>8, <1>9 DEF Passes, Types

\* recv() wins with a Close, or is called once more after one.
LEMMA RecvClosePasses ==
    ASSUME IInv, RecvClose
    PROVE  IInv' /\ StepsAreSound
<1> PICK c : c = conn
  OBVIOUS
<1> PICK k : k = call
  OBVIOUS
<1>1. PICK code \in Nat :
        /\ FlushThenResume(Drain([c EXCEPT !.session = HandleClose(@, code)]), k)
        /\ link' \in {link, <<>>}
  <2>1. CASE /\ link # <<>> /\ Head(link).op = WsClose
             /\ FlushThenResume(Drain([conn EXCEPT !.session =
                                            HandleClose(@, Head(link).code)]), call)
             /\ link' = <<>>
    <3> PICK m : m = Head(link)
      OBVIOUS
    <3>1. m \in ServerFrame /\ m.op = 10
      BY <2>1 DEF IInv, Types, WsClose
    <3>2. m \in [op : (0 .. 9) \cup {-1}, decodes : {TRUE}, auth : BOOLEAN, rpc : Nat,
                 id : Nat, ok : BOOLEAN]
            => m.op \in (0 .. 9) \cup {-1}
      OBVIOUS
    <3>3. 10 \notin (0 .. 9) \cup {-1}
      OBVIOUS
    <3>4. m \in [op : {WsClose}, code : Nat]
      BY <3>1, <3>2, <3>3 DEF ServerFrame
    <3>5. m.code \in Nat
      BY <3>4
    <3> QED
      BY <2>1, <3>5
  <2>2. CASE /\ FlushThenResume(Drain([conn EXCEPT !.session = HandleClose(@, 0)]), call)
             /\ UNCHANGED link
    BY <2>2
  <2> QED
    BY <2>1, <2>2 DEF RecvClose
<1>2. at = "recv" /\ socket' = "closed" /\ UNCHANGED <<now, obs, emitted, asked, garbage>>
  BY DEF RecvClose
<1>3. Fit(c)
  BY <1>2 DEF IInv, Control
<1>4. PICK d : d = Drain([c EXCEPT !.session = HandleClose(@, code)])
  OBVIOUS
<1>5. Cut(c, d) /\ FlushThenResume(d, k)
  BY <1>1, <1>3, <1>4, CloseIngested
<1>6. Passes(d, k)
  BY <1>1, <1>2, <1>5, ClosePasses
<1> QED
  BY <1>6, Passed

----------------------------------------------------------------------------
(* The owner calls.                                                        *)

\* What the invariant says between two calls.
LEMMA Idle ==
    ASSUME IInv, MayCall, NEW c, c = conn, NEW n, n = result.no + 1
    PROVE  /\ Fit(c) /\ Greeted(c) /\ Plain /\ n \in Nat
           /\ Accounted(c, n) /\ c.session.nextId < n /\ c.session.nextId <= MaxCalls
           /\ Unasked(asked, c.session.outgoing, c.session.nextId)
<1>1. /\ at = "idle" /\ result.no < MaxCalls /\ Types /\ Fit(c) /\ Greeted(c)
      /\ Accounted(c, result.no) /\ Unasked(asked, c.session.outgoing, c.session.nextId)
  BY DEF IInv, MayCall, Control, Replies, Ledger, Unsent
<1>2. result.no \in Nat /\ c.session.nextId \in Nat /\ MaxCalls \in Nat
  BY <1>1 DEF Types, Endings, Fit, WellFormed, WellTyped
<1>3. c.session.nextId <= result.no
  BY <1>1 DEF Accounted
<1>4. c.session.nextId < n /\ c.session.nextId <= MaxCalls /\ n \in Nat /\ c.session.nextId <= n
  BY <1>1, <1>2, <1>3
<1>5. Accounted(c, n)
  BY <1>1, <1>4 DEF Accounted
<1> QED
  BY <1>1, <1>4, <1>5 DEF Types, Plain

\* A new call.
LEMMA NewCallIs ==
    ASSUME IInv, MayCall, NEW kind \in Kinds, NEW k, k = NewCall(kind)
    PROVE  /\ k \in Calls /\ k.kind = kind /\ k.no = result.no + 1 /\ k.id = 0
           /\ kind \in Requests => k.deadline = now + RequestTimeout
<1>1. result.no \in Nat /\ now \in Nat /\ RequestTimeout \in Nat
  BY DEF IInv, Types, Endings
<1>2. k = [kind |-> kind, no |-> result.no + 1, id |-> 0,
           deadline |-> IF kind \in {"connect", "single", "batch"}
                            THEN now + RequestTimeout ELSE 0,
           wait |-> 0]
  BY DEF NewCall
<1>3. k.deadline \in Nat
  BY <1>1, <1>2
<1> QED
  BY <1>1, <1>2, <1>3 DEF Calls, Requests

\* A call that the session refuses.
LEMMA RefusedPasses ==
    ASSUME IInv, MayCall, UNCHANGED <<now, server>>, UNCHANGED served,
           NEW c, c = conn, NEW kind \in Kinds \ {"connect"}, NEW k, k = NewCall(kind),
           NEW d, Fit(d), d.session.phase = c.session.phase, EventsOf(d) = EventsOf(c),
           d.inbox = c.inbox, HasClosed(d) <=> HasClosed(c),
           d.session.outgoing = c.session.outgoing,
           d.session.nextId \in {c.session.nextId, c.session.nextId + 1},
           Return(d, k, Answerless("session"))
    PROVE  IInv' /\ StepsAreSound
<1> PICK n : n = result.no + 1
  OBVIOUS
<1> PICK r : r = Answerless("session")
  OBVIOUS
<1>1. /\ Fit(c) /\ Greeted(c) /\ Plain /\ n \in Nat
      /\ Accounted(c, n) /\ c.session.nextId < n /\ c.session.nextId <= MaxCalls
      /\ Unasked(asked, c.session.outgoing, c.session.nextId)
  BY Idle
<1>2. k \in Calls /\ k.kind = kind /\ k.no = n /\ k.id = 0
  BY NewCallIs
<1>3. Types /\ Replies /\ Order
  BY DEF IInv
<1>4. /\ conn' = d /\ at' = "idle" /\ call' = NoCall /\ UNCHANGED <<sending, wake>>
      /\ result' = Ended(k, r) /\ r.outcome = "session" /\ r.answer = "none"
  BY <1>2 DEF Return, Answerless
<1>5. /\ result' \in Endings /\ result'.outcome = "session" /\ result'.no = n
      /\ result'.answer = "none"
  BY <1>2, <1>4 DEF Ended, Answerless, Calls, Endings, Outcomes
<1>6. UNCHANGED <<link, socket, obs, emitted, asked, garbage>>
  BY DEF server
<1>7. Types'
  BY <1>3, <1>4, <1>5, <1>6 DEF Types
<1>8. Control'
  BY <1>1, <1>4 DEF Control, Greeted
<1>9. c.session.nextId \in Nat /\ MaxCalls \in Nat /\ DOMAIN asked = 1 .. MaxCalls
  BY <1>1, <1>3 DEF Types, Fit, WellFormed, WellTyped
<1>10. Accounted(d, n)
  <2>1. d.session.nextId <= n /\ d.session.nextId - 1 <= MaxCalls
    BY <1>1, <1>9
  <2>2. \A id \in DOMAIN asked : d.session.nextId <= id => asked[id] = {}
    BY <1>1, <1>9 DEF Accounted
  <2> QED
    BY <1>1, <2>1, <2>2 DEF Accounted
<1>11. Unasked(asked, d.session.outgoing, d.session.nextId)
  <2>1. \A id : id \in 1 .. c.session.nextId - 1 => id \in 1 .. d.session.nextId - 1
    BY <1>9
  <2> QED
    BY <1>1, <2>1 DEF Unasked
<1>12. Replies'
  <2>1. Accounted(conn, result.no)'
    BY <1>4, <1>5, <1>6, <1>10 DEF Accounted
  <2>2. Unasked(asked, Unsent, conn.session.nextId)'
    BY <1>4, <1>6, <1>11 DEF Unsent
  <2>3. NoCall.kind \notin Requests
    BY DEF NoCall, Requests
  <2> QED
    BY <1>4, <1>5, <2>1, <2>2, <2>3 DEF Replies, Ledger, OwnAnswer
<1>13. Order'
  <2>1. UnderWay' = UnderWay
    BY <1>6 DEF UnderWay
  <2> QED
    BY <1>3, <1>4, <1>6, <2>1 DEF Order, MayCall
<1>14. StepsAreSound
  BY <1>4, <1>5 DEF StepsAreSound
<1> QED
  BY <1>7, <1>8, <1>12, <1>13, <1>14 DEF IInv

\* From the top of its loop a call goes to the flush or the read, or ends.
LEMMA LoopNotSettles ==
    ASSUME NEW c, NEW k, k.kind \in Kinds \ {"reidentify"}, Loop(c, k)
    PROVE  at' # "settle"
<1>1. \A d, n : FlushThenRecv(d, n) => at' # "settle"
  BY DEF FlushThenRecv, SendFirst
<1>2. \A d, n, r : Return(d, n, r) => at' # "settle"
  BY DEF Return
<1>2a. \A d, n : Complete(d, n) => at' # "settle"
  BY <1>2 DEF Complete
<1>3. CASE k.kind = "connect"
  <2>1. AwaitIdentified(c, k)
    BY <1>3 DEF Loop
  <2> QED
    BY <1>1, <1>2, <2>1, AwaitCases
<1>4. CASE k.kind \in Requests
  <2>1. Wait(c, k)
    BY <1>4 DEF Loop, Requests
  <2> QED
    BY <1>1, <1>2, <1>2a, <2>1, WaitCases
<1>5. CASE k.kind = "next" /\ Has(c, k)
  BY <1>2, <1>5 DEF Loop
<1>6. CASE k.kind \in {"next", "poll"} /\ ~(k.kind = "next" /\ Has(c, k))
  <2>1. FlushThenRecv(c, k)
    BY <1>6 DEF Loop
  <2> QED
    BY <1>1, <2>1
<1> QED
  BY <1>3, <1>4, <1>5, <1>6 DEF Kinds, Requests

\* request, raw_request and raw_batch.
LEMMA StartRequestPasses ==
    ASSUME IInv, NEW kind \in Requests, NEW encodes \in BOOLEAN, StartRequest(kind, encodes)
    PROVE  IInv' /\ StepsAreSound
<1> PICK c : c = conn
  OBVIOUS
<1> PICK n : n = result.no + 1
  OBVIOUS
<1> PICK due : due = now + RequestTimeout
  OBVIOUS
<1> PICK batch \in BOOLEAN : batch = (kind = "batch")
  OBVIOUS
<1> PICK e : e = Enqueue(c.session, due, batch, encodes)
  OBVIOUS
<1> PICK d : d = [c EXCEPT !.session = e.session]
  OBVIOUS
<1> PICK plain : plain = NewCall(kind)
  OBVIOUS
<1> PICK k : k = [plain EXCEPT !.id = c.session.nextId]
  OBVIOUS
<1>1. /\ MayCall /\ UNCHANGED <<now, server>>
      /\ e.error # "none" => Return(d, plain, Answerless("session")) /\ UNCHANGED served
      /\ e.error = "none" => Loop(d, k)
  BY DEF StartRequest
<1>2. /\ Fit(c) /\ Greeted(c) /\ Plain /\ n \in Nat
      /\ Accounted(c, n) /\ c.session.nextId < n /\ c.session.nextId <= MaxCalls
      /\ Unasked(asked, c.session.outgoing, c.session.nextId)
  BY <1>1, Idle
<1>3. /\ plain \in Calls /\ plain.kind = kind /\ plain.no = n /\ plain.deadline = due
      /\ kind \in Kinds \ {"connect", "reidentify"}
  BY <1>1, NewCallIs DEF Requests, Kinds
<1>4. due \in Nat
  BY <1>2 DEF Plain
<1>5. Entered(c, e, d, due, batch)
  BY <1>2, <1>4, RequestEntered
<1>6. CASE e.error # "none"
  <2>1. /\ Fit(d) /\ d.session.phase = c.session.phase /\ EventsOf(d) = EventsOf(c)
        /\ d.inbox = c.inbox /\ (HasClosed(d) <=> HasClosed(c))
        /\ d.session.outgoing = c.session.outgoing
        /\ d.session.nextId \in {c.session.nextId, c.session.nextId + 1}
    BY <1>5, <1>6 DEF Entered
  <2>2. Return(d, plain, Answerless("session")) /\ UNCHANGED served
    BY <1>1, <1>6
  <2> QED
    BY <1>1, <1>3, <2>1, <2>2, RefusedPasses
<1>7. CASE e.error = "none"
  <2> PICK id : id = c.session.nextId
    OBVIOUS
  <2>1. /\ Fit(d) /\ d.inbox = c.inbox
        /\ d.session.phase = c.session.phase /\ d.session.phase = "Identified"
        /\ EventsOf(d) = EventsOf(c)
        /\ d.session.nextId = id + 1
        /\ d.session.outgoing = Append(c.session.outgoing, CallFrame(id, batch))
        /\ d.session.pending[id].deadline = due
    BY <1>5, <1>7 DEF Entered
  <2>2. /\ id \in Nat \ {0} /\ id \in 1 .. MaxCalls /\ id \in 1 .. (id + 1) - 1 /\ MaxCalls \in Nat
        /\ c.session.outgoing \in Seq(OutgoingFrame)
    BY <1>2 DEF Fit, WellFormed, WellTyped
  <2>3. /\ k \in Calls /\ k.kind = kind /\ k.id = id /\ k.no = n /\ k.deadline = due
    BY <1>3, <2>2 DEF Calls
  <2>4. Suits(d, k)
    BY <2>1, <2>2, <2>3 DEF Suits, Greeted
  <2>5. Timely(d, k)
    <3> SUFFICES ASSUME NEW x \in ToSet(d.inbox), IsOwn(x, k), x.result = "timeout" PROVE FALSE
      BY DEF Timely
    <3>1. IsCompletion(x) /\ x.id = id
      BY <2>3, OwnCompletes
    <3>2. PICK i \in DOMAIN c.inbox : x = c.inbox[i]
      BY <2>1 DEF ToSet
    <3>3. x.id \in 1 .. id - 1
      BY <1>2, <3>1, <3>2 DEF Fit, Exclusive
    <3> QED
      BY <2>2, <3>1, <3>3
  <2>6. Ready(d, k)
    BY <1>2, <2>1, <2>4, <2>5 DEF Ready
  <2>7. Loop(d, k) /\ k.kind \in Kinds \ {"reidentify"}
    BY <1>1, <1>3, <1>7, <2>3
  <2>8. Continues(d, k) /\ at' # "settle"
    BY <2>6, <2>7, LoopContinues, LoopNotSettles
  <2>9. ~HasClosed(c)
    BY <1>2, <2>1 DEF Fit
  <2>10. asked \in [1 .. MaxCalls -> SUBSET Nat] /\ asked[id] = {}
    <3>1. asked \in [1 .. MaxCalls -> SUBSET Nat]
      BY DEF IInv, Types
    <3> QED
      BY <1>2, <2>2, <3>1 DEF Accounted
  <2>11. Accounted(d, n)
    <3>1. d.session.nextId <= n /\ d.session.nextId - 1 <= MaxCalls
      BY <1>2, <2>1, <2>2
    <3>2. \A y \in DOMAIN asked : d.session.nextId <= y => asked[y] = {}
      <4>1. \A y \in 1 .. MaxCalls : id + 1 <= y => id <= y
        BY <2>2
      <4> QED
        BY <1>2, <2>1, <2>10, <4>1 DEF Accounted
    <3> QED
      BY <1>2, <2>1, <3>1, <3>2 DEF Accounted
  <2>12. Unasked(asked, d.session.outgoing, d.session.nextId)
    <3> PICK a : a = asked
      OBVIOUS
    <3> PICK f : f = CallFrame(id, batch)
      OBVIOUS
    <3> PICK out : out = c.session.outgoing
      OBVIOUS
    <3> PICK m : m = id + 1
      OBVIOUS
    <3>1. f \in OutgoingFrame /\ f.id = id
      BY <2>2 DEF CallFrame, OutgoingFrame
    <3>2. /\ out \in Seq(OutgoingFrame) /\ m \in Nat /\ id <= m /\ id + 1 <= m
          /\ Unasked(a, out, id) /\ a[id] = {}
      BY <1>2, <2>2, <2>10
    <3>3. Unasked(a, Append(out, f), m)
      BY <2>2, <3>1, <3>2, UnaskedAppend
    <3> QED
      BY <2>1, <3>3
  <2>13. k.kind \in Requests => asked[k.id] \subseteq {k.no}
    BY <2>3, <2>10
  <2>14. Accounted(d, k.no)
    BY <2>3, <2>11
  <2>15. at # "gone"
    BY <1>1 DEF MayCall
  <2>16. Passes(d, k)
    BY <1>1, <2>1, <2>6, <2>8, <2>9, <2>12, <2>13, <2>14, <2>15, QuietPasses
  <2> QED
    BY <2>16, Passed
<1> QED
  BY <1>6, <1>7

\* next_event and poll.
LEMMA StartReadingPasses ==
    ASSUME IInv, NEW kind \in {"next", "poll"}, StartReading(kind)
    PROVE  IInv' /\ StepsAreSound
<1> PICK c : c = conn
  OBVIOUS
<1> PICK n : n = result.no + 1
  OBVIOUS
<1> PICK k : k = NewCall(kind)
  OBVIOUS
<1>1. MayCall /\ Loop(c, k) /\ UNCHANGED <<now, server>> /\ at # "gone"
  BY DEF StartReading, MayCall
<1>2. /\ Fit(c) /\ Greeted(c) /\ Plain /\ Accounted(c, n)
      /\ Unasked(asked, c.session.outgoing, c.session.nextId)
  BY <1>1, Idle
<1>3. /\ k \in Calls /\ k.kind = kind /\ k.no = n
      /\ k.kind \in Kinds \ {"reidentify"} /\ k.kind \notin Requests
  BY <1>1, NewCallIs DEF Requests, Kinds
<1>4. Ready(c, k)
  BY <1>2, <1>3 DEF Ready, Suits
<1>5. Continues(c, k) /\ at' # "settle"
  BY <1>1, <1>3, <1>4, LoopContinues, LoopNotSettles
<1>6. Accounted(c, k.no)
  BY <1>2, <1>3
<1>7. Passes(c, k)
  BY <1>1, <1>2, <1>3, <1>4, <1>5, <1>6, QuietPasses
<1> QED
  BY <1>7, Passed

\* reidentify.
LEMMA StartReidentifyPasses ==
    ASSUME IInv, NEW subs \in Subscriptions, NEW encodes \in BOOLEAN,
           StartReidentify(subs, encodes)
    PROVE  IInv' /\ StepsAreSound
<1> PICK c : c = conn
  OBVIOUS
<1> PICK n : n = result.no + 1
  OBVIOUS
<1> PICK e : e = Reidentify(c.session, subs, encodes)
  OBVIOUS
<1> PICK d : d = [c EXCEPT !.session = e.session]
  OBVIOUS
<1> PICK k : k = NewCall("reidentify")
  OBVIOUS
<1>1. /\ MayCall /\ UNCHANGED <<now, server>> /\ at # "gone"
      /\ e.error # "none" => Return(d, k, Answerless("session")) /\ UNCHANGED served
      /\ e.error = "none" => FlushThenResume(d, k)
  BY DEF StartReidentify, MayCall
<1>2. /\ Fit(c) /\ Greeted(c) /\ Plain /\ Accounted(c, n)
      /\ Unasked(asked, c.session.outgoing, c.session.nextId)
  BY <1>1, Idle
<1>3. /\ k \in Calls /\ k.kind = "reidentify" /\ k.no = n /\ "reidentify" \in Kinds \ {"connect"}
      /\ k.kind \notin Requests
  BY <1>1, NewCallIs DEF Requests, Kinds
<1>4. Renewed(c, e, d)
  BY <1>2, ReidentifyEntered
<1>5. /\ Fit(d) /\ d.inbox = c.inbox /\ d.session.phase = c.session.phase
      /\ d.session.nextId = c.session.nextId
      /\ EventsOf(d) = EventsOf(c) /\ (HasClosed(d) <=> HasClosed(c))
  BY <1>4 DEF Renewed
<1>6. CASE e.error # "none"
  <2>1. d.session.outgoing = c.session.outgoing
    BY <1>4, <1>6 DEF Renewed
  <2>2. Return(d, k, Answerless("session")) /\ UNCHANGED served
    BY <1>1, <1>6
  <2> QED
    BY <1>1, <1>3, <1>5, <2>1, <2>2, RefusedPasses
<1>7. CASE e.error = "none"
  <2>1. d.session.phase = "Identified" /\ ~HasClosed(d) /\ ~HasClosed(c)
    BY <1>4, <1>5, <1>7 DEF Renewed, Fit
  <2>2. PICK frame \in OutgoingFrame :
            ~IsCall(frame) /\ d.session.outgoing = Append(c.session.outgoing, frame)
    BY <1>4, <1>7 DEF Renewed
  <2>3. Ready(d, k)
    BY <1>2, <1>3, <1>5, <2>1 DEF Ready, Suits, Greeted
  <2>4. Continues(d, k)
    BY <1>1, <1>7, <2>3, ResumeContinues
  <2>5. Accounted(d, k.no)
    BY <1>2, <1>3, <1>5 DEF Accounted
  <2>6. Unasked(asked, d.session.outgoing, d.session.nextId)
    <3> PICK a : a = asked
      OBVIOUS
    <3> PICK m : m = c.session.nextId
      OBVIOUS
    <3> PICK out : out = c.session.outgoing
      OBVIOUS
    <3>1. /\ out \in Seq(OutgoingFrame) /\ m \in Nat \ {0} /\ m \in Nat /\ m <= m
          /\ Unasked(a, out, m)
      BY <1>2 DEF Fit, WellFormed, WellTyped
    <3>2. Unasked(a, Append(out, frame), m)
      BY <2>2, <3>1, UnaskedAppend
    <3> QED
      BY <1>5, <2>2, <3>2
  <2>7. Passes(d, k)
    BY <1>1, <1>3, <1>5, <2>1, <2>3, <2>4, <2>5, <2>6, QuietPasses
  <2> QED
    BY <2>7, Passed
<1> QED
  BY <1>6, <1>7

----------------------------------------------------------------------------
(* OBS, the socket and the clock.                                          *)

\* The client stands still while OBS or the socket takes a step.
LEMMA ServerKeeps ==
    ASSUME IInv, UNCHANGED client, UNCHANGED asked,
           link' \in Seq(ServerFrame),
           socket' \in {"up", "closing", "closed", "broken"},
           obs' \in [stage : {"new", "greeted", "identify", "reidentify", "ready"},
                     open : SUBSET [id : Nat, batch : BOOLEAN]],
           obs'.open \subseteq obs.open,
           \A i \in DOMAIN link' : IsAnswer(link'[i]) => Reached(asked, link'[i].id),
           emitted' \in Nat, garbage' \in Nat,
           socket' \notin {"broken", "closed"} =>
                /\ socket = "up"
                /\ (served \o EventsOf(conn)) \o UnderWay = Counted(emitted) =>
                        (served \o EventsOf(conn)) \o UnderWay' = Counted(emitted')
    PROVE  IInv' /\ StepsAreSound
<1>1. UNCHANGED <<conn, at, call, sending, now, wake, result, served>>
  BY DEF client
<1>2. Types /\ Control /\ Replies /\ Order
  BY DEF IInv
<1>3. Types'
  BY <1>1, <1>2 DEF Types
<1>4. Control'
  BY <1>1, <1>2 DEF Control
<1>5. Replies'
  <2>1. Ledger => Ledger'
    <3> SUFFICES ASSUME Ledger PROVE Ledger'
      OBVIOUS
    <3> PICK n : n = IF at = "idle" THEN result.no ELSE call.no
      OBVIOUS
    <3>1. Accounted(conn, n)'
      BY <1>1 DEF Ledger, Accounted
    <3>2. n = IF at' = "idle" THEN result'.no ELSE call'.no
      BY <1>1
    <3>3. Unsent' = Unsent
      BY <1>1 DEF Unsent
    <3>4. Accounted(conn, IF at = "idle" THEN result.no ELSE call.no)'
      BY <3>1, <3>2
    <3> QED
      BY <1>1, <3>3, <3>4 DEF Ledger
  <2> QED
    BY <1>1, <1>2, <2>1 DEF Replies, OwnAnswer
<1>6. Order'
  BY <1>1, <1>2 DEF Order
<1>7. StepsAreSound
  BY <1>1 DEF StepsAreSound
<1> QED
  BY <1>3, <1>4, <1>5, <1>6, <1>7 DEF IInv

\* The next number is counted.
LEMMA CountedNext ==
    ASSUME NEW n \in Nat
    PROVE  Counted(n) \o <<n + 1>> = Counted(n + 1)
<1> DEFINE a == Counted(n)
           b == Counted(n + 1)
<1>1. /\ a \in Seq(Nat) /\ Len(a) = n /\ \A i \in 1 .. n : a[i] = i
      /\ b \in Seq(Nat) /\ Len(b) = n + 1 /\ \A i \in 1 .. n + 1 : b[i] = i
  BY DEF Counted
<1> HIDE DEF a, b
<1>2. Append(a, n + 1) = b
  BY <1>1
<1>3. a \o <<n + 1>> = Append(a, n + 1)
  BY <1>1
<1> QED
  BY <1>2, <1>3 DEF a, b

\* What is under way ends with the frame sent last.
LEMMA FlightConcat ==
    ASSUME NEW a \in Seq(ServerFrame), NEW b \in Seq(ServerFrame)
    PROVE  Flight(a \o b) = Flight(a) \o Flight(b)
BY ChosenConcat DEF Flight

\* OBS sends a frame.
LEMMA ServerSends ==
    ASSUME IInv, UNCHANGED client, UNCHANGED asked, MaySend,
           NEW m \in ServerFrame, link' = Append(link, m),
           IsAnswer(m) => Reached(asked, m.id),
           socket' \in {"up", "closing"},
           obs' \in [stage : {"new", "greeted", "identify", "reidentify", "ready"},
                     open : SUBSET [id : Nat, batch : BOOLEAN]],
           obs'.open \subseteq obs.open, garbage' \in Nat,
           m.op = OpEvent => emitted' = emitted + 1 /\ m.id = emitted + 1,
           m.op # OpEvent => emitted' = emitted
    PROVE  IInv' /\ StepsAreSound
<1>1. /\ link \in Seq(ServerFrame) /\ emitted \in Nat /\ served \in Seq(Nat)
      /\ at # "gone" /\ socket = "up" /\ Fit(conn) /\ Replies
  BY DEF IInv, Types, MaySend, Control
<1>2. link' \in Seq(ServerFrame)
  BY <1>1
<1> PICK all : all = link'
  OBVIOUS
<1> PICK one : one = <<m>>
  OBVIOUS
<1>3. one \in Seq(ServerFrame) /\ all = link \o one /\ all \in Seq(ServerFrame)
  BY <1>1, <1>2
<1>4. \A i \in DOMAIN link' : IsAnswer(link'[i]) => Reached(asked, link'[i].id)
  <2>1. \A i \in DOMAIN link : IsAnswer(link[i]) => Reached(asked, link[i].id)
    BY <1>1 DEF Replies, Ledger, Accounted
  <2>2. \A i \in DOMAIN link' : link'[i] = m \/ (i \in DOMAIN link /\ link'[i] = link[i])
    BY <1>1
  <2> QED
    BY <2>1, <2>2
<1>5. emitted' \in Nat
  BY <1>1
<1>6. UnderWay' = UnderWay \o Flight(one)
  <2>1. UnderWay = Flight(link)
    BY <1>1, FlyingIsFlight DEF UnderWay, Flying
  <2>2. UnderWay' = Flight(all)
    <3>1. UnderWay' = Flying(all)
      BY DEF UnderWay, Flying
    <3> QED
      BY <1>3, <3>1, FlyingIsFlight
  <2>3. Flight(all) = Flight(link) \o Flight(one)
    <3> PICK l : l = link
      OBVIOUS
    <3>1. l \in Seq(ServerFrame) /\ one \in Seq(ServerFrame) /\ all = l \o one
      BY <1>1, <1>3
    <3>2. Flight(l \o one) = Flight(l) \o Flight(one)
      BY <3>1, FlightConcat
    <3> QED
      BY <3>1, <3>2
  <2> QED
    BY <2>1, <2>2, <2>3
<1>7. UnderWay \in Seq(Nat) /\ EventsOf(conn) \in Seq(Nat)
  <2>1. UnderWay = Flight(link)
    BY <1>1, FlyingIsFlight DEF UnderWay, Flying
  <2> QED
    BY <1>1, <2>1, FlightTyped, EventsAreChosen DEF Fit
<1>8. ASSUME (served \o EventsOf(conn)) \o UnderWay = Counted(emitted)
      PROVE  (served \o EventsOf(conn)) \o UnderWay' = Counted(emitted')
  <2> PICK a : a = served \o EventsOf(conn)
    OBVIOUS
  <2> PICK b : b = UnderWay
    OBVIOUS
  <2> PICK n : n = emitted
    OBVIOUS
  <2>1. a \in Seq(Nat) /\ b \in Seq(Nat) /\ n \in Nat /\ a \o b = Counted(n)
    BY <1>1, <1>7, <1>8
  <2>2. Flight(one) = IF m \in EventFrames THEN <<m.id>> ELSE <<>>
    BY ChosenOne DEF Flight
  <2>3. CASE m.op = OpEvent
    <3>1. Flight(one) = <<n + 1>> /\ emitted' = n + 1
      BY <2>2, <2>3 DEF EventFrames
    <3>2. a \o (b \o <<n + 1>>) = (a \o b) \o <<n + 1>>
      <4> PICK t : t = <<n + 1>>
        OBVIOUS
      <4>1. a \in Seq(Nat) /\ b \in Seq(Nat) /\ t \in Seq(Nat)
        BY <2>1
      <4>2. a \o (b \o t) = (a \o b) \o t
        BY <4>1, NumbersAssociate
      <4> QED
        BY <4>2
    <3>3. Counted(n) \o <<n + 1>> = Counted(n + 1)
      BY <2>1, CountedNext
    <3> QED
      BY <1>6, <2>1, <3>1, <3>2, <3>3
  <2>4. CASE m.op # OpEvent
    <3>1. Flight(one) = <<>> /\ emitted' = n
      BY <2>2, <2>4 DEF EventFrames
    <3>2. b \o <<>> = b
      BY <2>1
    <3> QED
      BY <1>6, <2>1, <3>1, <3>2
  <2> QED
    BY <2>3, <2>4
<1> QED
  BY <1>1, <1>2, <1>4, <1>5, <1>8, ServerKeeps

\* A frame of OBS with this opcode and this id.
Carries(m, op, id) ==
    /\ m \in ServerFrame /\ m.op = op /\ m.id = id
    /\ IsAnswer(m) <=> op \in {7, 9}

\* Every record of this form is one.
LEMMA MessageTyped ==
    ASSUME NEW op \in (0 .. 9) \cup {-1}, NEW auth \in BOOLEAN, NEW id \in Nat, NEW ok \in BOOLEAN,
           NEW rpc \in Nat, NEW m,
           m = [op |-> op, decodes |-> TRUE, auth |-> auth, rpc |-> rpc, id |-> id, ok |-> ok]
    PROVE  Carries(m, op, id)
<1>1. TRUE \in {TRUE}
  OBVIOUS
<1>2. m \in [op : (0 .. 9) \cup {-1}, decodes : {TRUE}, auth : BOOLEAN, rpc : Nat, id : Nat,
             ok : BOOLEAN]
  BY <1>1
<1>3. m.op = op /\ m.id = id
  OBVIOUS
<1>4. IsAnswer(m) <=> op \in {7, 9}
  BY <1>3 DEF IsAnswer, OpRequestResponse, OpRequestBatchResponse
<1> QED
  BY <1>2, <1>3, <1>4 DEF Carries, ServerFrame

\* The messages of OBS are frames.
LEMMA MessageCarries ==
    ASSUME NEW op \in 0 .. 9, NEW auth \in BOOLEAN, NEW id \in Nat, NEW ok \in BOOLEAN
    PROVE  Carries(Message(op, auth, id, ok), op, id)
<1> PICK rpc : rpc = IF op = OpIdentified THEN 1 ELSE 0
  OBVIOUS
<1> PICK m : m = Message(op, auth, id, ok)
  OBVIOUS
<1>1. rpc \in Nat /\ op \in (0 .. 9) \cup {-1}
  OBVIOUS
<1>2. m = [op |-> op, decodes |-> TRUE, auth |-> auth, rpc |-> rpc, id |-> id, ok |-> ok]
  BY DEF Message
<1>3. Carries(m, op, id)
  BY <1>1, <1>2, MessageTyped
<1> QED
  BY <1>3

\* With another opcode they are frames as well.
LEMMA GarbageCarries ==
    ASSUME NEW op, NEW auth \in BOOLEAN, NEW id \in Nat, NEW ok \in BOOLEAN,
           NEW bad \in (0 .. 9) \cup {-1}
    PROVE  Carries([Message(op, auth, id, ok) EXCEPT !.op = bad], bad, id)
<1> PICK rpc : rpc = IF op = OpIdentified THEN 1 ELSE 0
  OBVIOUS
<1> PICK m : m = [Message(op, auth, id, ok) EXCEPT !.op = bad]
  OBVIOUS
<1>1. rpc \in Nat
  OBVIOUS
<1>2. m = [op |-> bad, decodes |-> TRUE, auth |-> auth, rpc |-> rpc, id |-> id, ok |-> ok]
  BY DEF Message
<1>3. Carries(m, bad, id)
  BY <1>1, <1>2, MessageTyped
<1> QED
  BY <1>3

\* Every step of OBS and of the socket.
LEMMA ServerPasses ==
    ASSUME IInv, ServerStep
    PROVE  IInv' /\ StepsAreSound
<1> DEFINE Stages == {"new", "greeted", "identify", "reidentify", "ready"}
           Obs == [stage : Stages, open : SUBSET [id : Nat, batch : BOOLEAN]]
<1>1. /\ Types /\ obs \in Obs /\ emitted \in Nat /\ garbage \in Nat
      /\ link \in Seq(ServerFrame)
      /\ at # "gone" => \A r \in obs.open : Reached(asked, r.id)
      /\ at # "gone" => \A i \in DOMAIN link : IsAnswer(link[i]) => Reached(asked, link[i].id)
  BY DEF IInv, Types, Replies, Ledger, Accounted
<1>2. MaySend => socket = "up" /\ at # "gone"
  BY DEF MaySend
<1>3. \A stage \in Stages :
        [obs EXCEPT !.stage = stage] \in Obs /\ [obs EXCEPT !.stage = stage].open = obs.open
  BY <1>1
<1>4. ASSUME NEW auth \in BOOLEAN, ServerHello(auth) PROVE IInv' /\ StepsAreSound
  <2>1. PICK m : Carries(m, 0, 0) /\ link' = Append(link, m)
    <3>1. link' = Append(link, Message(0, auth, 0, FALSE))
      BY <1>4 DEF ServerHello, OpHello
    <3>2. 0 \in 0 .. 9 /\ 0 \in Nat /\ FALSE \in BOOLEAN
      OBVIOUS
    <3>3. Carries(Message(0, auth, 0, FALSE), 0, 0)
      BY <3>2, MessageCarries
    <3> QED
      BY <3>1, <3>3
  <2>2. m \in ServerFrame /\ ~IsAnswer(m) /\ m.op # OpEvent
    BY <2>1 DEF Carries, OpEvent
  <2>3. /\ MaySend /\ obs' = [obs EXCEPT !.stage = "greeted"]
        /\ UNCHANGED client /\ UNCHANGED asked
        /\ socket' = socket /\ emitted' = emitted /\ garbage' = garbage
    BY <1>4 DEF ServerHello
  <2>4. obs' \in Obs /\ obs'.open \subseteq obs.open
    BY <1>3, <2>3
  <2> QED
    BY <1>1, <1>2, <2>1, <2>2, <2>3, <2>4, ServerSends
<1>5. ASSUME ServerIdentified PROVE IInv' /\ StepsAreSound
  <2>1. PICK m : Carries(m, 2, 0) /\ link' = Append(link, m)
    <3>1. link' = Append(link, Message(2, FALSE, 0, FALSE))
      BY <1>5 DEF ServerIdentified, OpIdentified
    <3>2. 2 \in 0 .. 9 /\ 0 \in Nat /\ FALSE \in BOOLEAN
      OBVIOUS
    <3>3. Carries(Message(2, FALSE, 0, FALSE), 2, 0)
      BY <3>2, MessageCarries
    <3> QED
      BY <3>1, <3>3
  <2>2. m \in ServerFrame /\ ~IsAnswer(m) /\ m.op # OpEvent
    BY <2>1 DEF Carries, OpEvent
  <2>3. /\ MaySend /\ obs' = [obs EXCEPT !.stage = "ready"]
        /\ UNCHANGED client /\ UNCHANGED asked
        /\ socket' = socket /\ emitted' = emitted /\ garbage' = garbage
    BY <1>5 DEF ServerIdentified
  <2>4. obs' \in Obs /\ obs'.open \subseteq obs.open
    BY <1>3, <2>3
  <2> QED
    BY <1>1, <1>2, <2>1, <2>2, <2>3, <2>4, ServerSends
<1>6. ASSUME ServerEvent PROVE IInv' /\ StepsAreSound
  <2> PICK n \in Nat : n = emitted + 1
    BY <1>1
  <2>1. PICK m : Carries(m, 5, n) /\ link' = Append(link, m)
    <3>1. link' = Append(link, Message(5, FALSE, n, FALSE))
      BY <1>6 DEF ServerEvent, OpEvent
    <3>2. 5 \in 0 .. 9 /\ 0 \in Nat /\ FALSE \in BOOLEAN
      OBVIOUS
    <3>3. Carries(Message(5, FALSE, n, FALSE), 5, n)
      BY <3>2, MessageCarries
    <3> QED
      BY <3>1, <3>3
  <2>2. m \in ServerFrame /\ ~IsAnswer(m) /\ m.op = OpEvent /\ m.id = n
    BY <2>1 DEF Carries, OpEvent
  <2>3. /\ MaySend /\ obs' = obs
        /\ UNCHANGED client /\ UNCHANGED asked
        /\ socket' = socket /\ emitted' = n /\ garbage' = garbage
    BY <1>6 DEF ServerEvent
  <2> QED
    BY <1>1, <1>2, <2>1, <2>2, <2>3, ServerSends
<1>7. ASSUME NEW r \in obs.open, NEW ok \in BOOLEAN, ServerAnswer(r, ok)
      PROVE  IInv' /\ StepsAreSound
  <2>1. PICK op \in {7, 9} : link' = Append(link, Message(op, FALSE, r.id, ok))
    BY <1>7 DEF ServerAnswer, OpRequestResponse, OpRequestBatchResponse
  <2>2. PICK m : Carries(m, op, r.id) /\ link' = Append(link, m)
    <3>1. op \in 0 .. 9 /\ r.id \in Nat
      BY <1>1, <2>1
    <3>2. Carries(Message(op, FALSE, r.id, ok), op, r.id)
      BY <3>1, MessageCarries
    <3> QED
      BY <2>1, <3>2
  <2>3. /\ MaySend /\ obs' = [obs EXCEPT !.open = @ \ {r}]
        /\ UNCHANGED client /\ UNCHANGED asked
        /\ socket' = socket /\ emitted' = emitted /\ garbage' = garbage
    BY <1>7 DEF ServerAnswer
  <2>4. obs' \in Obs /\ obs'.open \subseteq obs.open
    BY <1>1, <2>3
  <2>5. m \in ServerFrame /\ m.op # OpEvent /\ m.id = r.id
    BY <2>2 DEF Carries, OpEvent
  <2>6. Reached(asked, m.id)
    BY <1>1, <1>2, <2>3, <2>5
  <2> QED
    BY <1>1, <1>2, <2>2, <2>3, <2>4, <2>5, <2>6, ServerSends
<1>8. ASSUME ServerGarbage PROVE IInv' /\ StepsAreSound
  <2>1. PICK m : Carries(m, -1, 0) /\ link' = Append(link, m)
    <3>1. link' = Append(link, [Message(OpEvent, FALSE, 0, FALSE) EXCEPT !.op = -1])
      BY <1>8 DEF ServerGarbage
    <3>2. -1 \in (0 .. 9) \cup {-1} /\ 0 \in Nat /\ FALSE \in BOOLEAN
      OBVIOUS
    <3>3. Carries([Message(OpEvent, FALSE, 0, FALSE) EXCEPT !.op = -1], -1, 0)
      BY <3>2, GarbageCarries
    <3> QED
      BY <3>1, <3>3
  <2>2. m \in ServerFrame /\ ~IsAnswer(m) /\ m.op # OpEvent
    BY <2>1 DEF Carries, OpEvent
  <2>3. /\ MaySend /\ obs' = obs
        /\ UNCHANGED client /\ UNCHANGED asked
        /\ socket' = socket /\ emitted' = emitted /\ garbage' = garbage + 1
    BY <1>8 DEF ServerGarbage
  <2> QED
    BY <1>1, <1>2, <2>1, <2>2, <2>3, ServerSends
<1>9. ASSUME NEW code \in Codes, ServerClose(code) PROVE IInv' /\ StepsAreSound
  <2> PICK m : m = [op |-> WsClose, code |-> code]
    OBVIOUS
  <2>1. m \in ServerFrame /\ m.op = 10
    BY DEF ServerFrame, WsClose
  <2>2. ~IsAnswer(m) /\ m.op # OpEvent
    BY <2>1 DEF IsAnswer, OpEvent, OpRequestResponse, OpRequestBatchResponse
  <2>3. /\ MaySend /\ link' = Append(link, m) /\ obs' = obs
        /\ UNCHANGED client /\ UNCHANGED asked
        /\ socket' = "closing" /\ emitted' = emitted /\ garbage' = garbage
    BY <1>9 DEF ServerClose
  <2> QED
    BY <1>1, <1>2, <2>1, <2>2, <2>3, ServerSends
<1>10. ASSUME ServerBreaks PROVE IInv' /\ StepsAreSound
  <2>1. /\ UNCHANGED client /\ UNCHANGED asked /\ socket' = "broken" /\ at # "gone"
        /\ link' = link \/ link' = <<>>
        /\ obs' = obs /\ emitted' = emitted /\ garbage' = garbage
    BY <1>10 DEF ServerBreaks
  <2>2. link' \in Seq(ServerFrame)
    <3>1. <<>> \in Seq(ServerFrame)
      OBVIOUS
    <3> QED
      BY <1>1, <2>1, <3>1
  <2>3. \A i \in DOMAIN link' : IsAnswer(link'[i]) => Reached(asked, link'[i].id)
    BY <1>1, <2>1
  <2> QED
    BY <1>1, <2>1, <2>2, <2>3, ServerKeeps
<1> QED
  BY <1>4, <1>5, <1>6, <1>7, <1>8, <1>9, <1>10 DEF ServerStep

\* Time passes.
LEMMA TickPasses ==
    ASSUME IInv, Tick
    PROVE  IInv' /\ StepsAreSound
<1>1. /\ now' = now + 1
      /\ UNCHANGED <<conn, at, call, sending, wake, result, served>>
      /\ UNCHANGED <<link, socket, obs, emitted, asked, garbage>>
  BY DEF Tick, server
<1>2. Types /\ Control /\ Replies /\ Order
  BY DEF IInv
<1>3. Types'
  BY <1>1, <1>2 DEF Types
<1>4. Control'
  <2>1. at = "flush" /\ Timed(call) => call.deadline <= now' + call.wait
    <3> SUFFICES ASSUME at = "flush", Timed(call) PROVE call.deadline <= now' + call.wait
      OBVIOUS
    <3>1. now \in Nat /\ call.deadline \in Nat /\ call.wait \in Nat
      BY <1>2 DEF Types, Calls
    <3>2. call.deadline <= now + call.wait
      BY <1>2 DEF Control
    <3> QED
      BY <1>1, <3>1, <3>2
  <2> QED
    BY <1>1, <1>2, <2>1 DEF Control
<1>5. Replies'
  <2>1. Ledger => Ledger'
    <3> SUFFICES ASSUME Ledger PROVE Ledger'
      OBVIOUS
    <3> PICK n : n = IF at = "idle" THEN result.no ELSE call.no
      OBVIOUS
    <3>1. Accounted(conn, n)'
      BY <1>1 DEF Ledger, Accounted
    <3>2. n = IF at' = "idle" THEN result'.no ELSE call'.no
      BY <1>1
    <3>3. Unsent' = Unsent
      BY <1>1 DEF Unsent
    <3>4. Accounted(conn, IF at = "idle" THEN result.no ELSE call.no)'
      BY <3>1, <3>2
    <3> QED
      BY <1>1, <3>3, <3>4 DEF Ledger
  <2> QED
    BY <1>1, <1>2, <2>1 DEF Replies, OwnAnswer
<1>6. Order'
  <2>1. UnderWay' = UnderWay
    BY <1>1 DEF UnderWay
  <2> QED
    BY <1>1, <1>2, <2>1 DEF Order
<1>7. StepsAreSound
  BY <1>1 DEF StepsAreSound
<1> QED
  BY <1>3, <1>4, <1>5, <1>6, <1>7 DEF IInv

----------------------------------------------------------------------------
(* Every behaviour.                                                        *)

\* The connection starts out fit.
LEMMA InitHolds == Init => IInv
<1> SUFFICES ASSUME Init PROVE IInv
  OBVIOUS
<1>1. PICK password \in BOOLEAN, subs \in Subscriptions :
        conn = [session |-> NewSession(password, subs, 1), inbox |-> <<>>]
  BY DEF Init
<1> PICK s : s = NewSession(password, subs, 1)
  OBVIOUS
<1>2. /\ WellFormed(s) /\ s.events = <<>> /\ s.outgoing = <<>> /\ s.nextId = 1
      /\ s.phase = "AwaitingHello"
  <2>1. WellFormed(s) /\ s.events = <<>>
    <3>1. 1 \in Nat
      OBVIOUS
    <3> QED
      BY <3>1, NewSessionTyped
  <2>2. s.outgoing = <<>> /\ s.nextId = 1 /\ s.phase = "AwaitingHello"
    BY DEF NewSession
  <2> QED
    BY <2>1, <2>2
<1>3. conn.session = s /\ conn.inbox = <<>> /\ conn = [session |-> s, inbox |-> <<>>]
  BY <1>1
<1>4. /\ at = "recv" /\ now = 0 /\ wake = RequestTimeout /\ served = <<>> /\ link = <<>>
      /\ socket = "up" /\ emitted = 0 /\ garbage = 0
      /\ obs = [stage |-> "new", open |-> {}]
      /\ asked = [id \in 1 .. MaxCalls |-> {}]
      /\ sending = [op |-> OpRequest, id |-> 0]
      /\ call = [kind |-> "connect", no |-> 1, id |-> 0,
                 deadline |-> RequestTimeout, wait |-> RequestTimeout]
      /\ result = [kind |-> "none", no |-> 0, id |-> 0, deadline |-> 0,
                   outcome |-> "ok", answer |-> "none", from |-> 0]
  BY DEF Init, Ended, NoCall, Answerless
<1>5. RequestTimeout \in Nat /\ MaxCalls \in Nat
  OBVIOUS
<1>6. ~HasClosed(conn) /\ ~Has(conn, call) /\ ToSet(conn.inbox) = {}
  BY <1>3 DEF HasClosed, Has, ToSet
<1>7. Types
  <2>1. call \in Calls /\ result \in Endings
    BY <1>4, <1>5 DEF Calls, Kinds, Endings, Outcomes
  <2>2. sending \in OutgoingFrame
    BY <1>4 DEF OutgoingFrame
  <2>3. /\ served \in Seq(Nat) /\ link \in Seq(ServerFrame)
        /\ asked \in [1 .. MaxCalls -> SUBSET Nat]
        /\ obs \in [stage : {"new", "greeted", "identify", "reidentify", "ready"},
                    open : SUBSET [id : Nat, batch : BOOLEAN]]
    BY <1>4
  <2> QED
    BY <1>4, <1>5, <2>1, <2>2, <2>3 DEF Types
<1>8. Control
  <2>1. Fit(conn)
    <3>1. conn.inbox \in Seq(SessionEvent) /\ DOMAIN conn.inbox = {}
      BY <1>3
    <3>2. Exclusive(conn.session, conn.inbox)
      BY <3>1 DEF Exclusive
    <3> QED
      BY <1>2, <1>3, <1>6, <3>1, <3>2 DEF Fit
  <2>2. Suits(conn, call)
    BY <1>4, <1>7 DEF Suits, Types, Requests
  <2>3. Unanswered(conn, call)
    BY <1>6 DEF Unanswered
  <2>4. call.kind = "connect" /\ call.deadline <= wake
    BY <1>4, <1>5
  <2> QED
    BY <1>2, <1>3, <1>4, <2>1, <2>2, <2>3, <2>4 DEF Control
<1>9. Replies
  <2>1. Accounted(conn, 1)
    <3>1. conn.session.nextId = 1 /\ 1 <= 1 /\ 1 - 1 <= MaxCalls
      BY <1>2, <1>3, <1>5
    <3> QED
      BY <1>4, <1>6, <3>1 DEF Accounted
  <2>2. Unasked(asked, Unsent, conn.session.nextId)
    BY <1>2, <1>3, <1>4 DEF Unsent, Unasked
  <2>3. call.no = 1 /\ call.kind \notin Requests /\ result.kind \notin Requests /\ at # "idle"
    BY <1>4 DEF Requests
  <2> QED
    BY <1>4, <2>1, <2>2, <2>3 DEF Replies, Ledger, OwnAnswer, Requests
<1>10. Order
  <2> PICK c : c = conn
    OBVIOUS
  <2>1. EventsOf(c) = <<>>
    <3>1. c.inbox \in Seq(SessionEvent) /\ \A i \in DOMAIN c.inbox : c.inbox[i] \notin ObsEvents
      BY <1>3
    <3> QED
      BY <3>1, ChosenNone, EventsAreChosen
  <2>2. UnderWay = <<>>
    <3> PICK l : l = link
      OBVIOUS
    <3>1. l \in Seq(ServerFrame) /\ \A i \in DOMAIN l : l[i] \notin EventFrames
      BY <1>4
    <3>2. Flight(l) = <<>>
      BY <3>1, ChosenNone DEF Flight
    <3> QED
      BY <3>1, <3>2, FlyingIsFlight DEF UnderWay, Flying
  <2>3. Counted(0) = <<>>
    BY DEF Counted
  <2>4. (<<>> \o <<>>) \o <<>> = <<>>
    OBVIOUS
  <2> QED
    BY <1>2, <1>3, <1>4, <2>1, <2>2, <2>3, <2>4 DEF Order
<1> QED
  BY <1>7, <1>8, <1>9, <1>10 DEF IInv

\* Every step keeps the invariant and what the action properties ask.
LEMMA StepHolds == IInv /\ [Next]_vars => IInv' /\ StepsAreSound
<1> SUFFICES ASSUME IInv, [Next]_vars PROVE IInv' /\ StepsAreSound
  OBVIOUS
<1>1. CASE TaskStep
  BY <1>1, SentPasses, TransportFailsPasses, RecvMessagePasses, RecvClosePasses, SleepFiresPasses
     DEF TaskStep
<1>2. CASE OwnerStep
  <2>1. ASSUME NEW kind \in {"single", "batch"}, NEW encodes \in BOOLEAN,
               StartRequest(kind, encodes)
        PROVE  IInv' /\ StepsAreSound
    BY <2>1, StartRequestPasses DEF Requests
  <2> QED
    BY <1>2, <2>1, StartReadingPasses, StartReidentifyPasses, CancelPasses DEF OwnerStep
<1>3. CASE ServerStep
  BY <1>3, ServerPasses
<1>4. CASE Tick
  BY <1>4, TickPasses
<1>5. CASE UNCHANGED vars
  <2>1. UNCHANGED client /\ UNCHANGED server
    BY <1>5 DEF vars
  <2>2. /\ UNCHANGED <<conn, at, call, sending, now, wake, result, served>>
        /\ UNCHANGED <<link, socket, obs, emitted, asked, garbage>>
    BY <2>1 DEF client, server
  <2>3. Types' /\ Control'
    BY <2>2 DEF IInv, Types, Control
  <2>4. Replies'
    <3>1. Unsent' = Unsent
      BY <2>2 DEF Unsent
    <3> QED
      BY <2>2, <3>1 DEF IInv, Replies, Ledger, Accounted, OwnAnswer
  <2>5. Order'
    <3>1. UnderWay' = UnderWay
      BY <2>2 DEF UnderWay
    <3> QED
      BY <2>2, <3>1 DEF IInv, Order
  <2>6. StepsAreSound
    BY <2>2 DEF StepsAreSound
  <2> QED
    BY <2>3, <2>4, <2>5, <2>6 DEF IInv
<1> QED
  BY <1>1, <1>2, <1>3, <1>4, <1>5 DEF Next

\* The invariant holds in every behaviour: what the owner's calls, the session,
\* the inbox and the frames under way say of each other.
THEOREM ConnectionHolds == Spec => []IInv
<1>1. Init => IInv
  BY InitHolds
<1>2. IInv /\ [Next]_vars => IInv'
  BY StepHolds
<1> QED
  BY <1>1, <1>2, PTL DEF Spec

\* Every request that ends with an answer of OBS ends with the answer to its
\* own frame (take_single, take_batch).
THEOREM AnswersAreOwn == Spec => []OwnAnswer
<1>1. IInv => OwnAnswer
  BY DEF IInv, Replies
<1> QED
  BY <1>1, ConnectionHolds, PTL

\* The events of OBS reach the owner once each and in their order, whichever
\* calls read them and whichever of those were dropped (next_event, poll).
THEOREM EventsReachOwner == Spec => []EventsInOrder
<1>1. IInv => EventsInOrder
  BY DEF IInv, Order, EventsInOrder, UnderWay, Counted
<1> QED
  BY <1>1, ConnectionHolds, PTL

\* A call returns Timeout only once its deadline has passed.
THEOREM NoEarlyTimeout == Spec => TimeoutsAreDue
<1>1. IInv /\ [Next]_vars =>
        [result' # result /\ result'.outcome = "timeout" => now >= result'.deadline]_vars
  BY StepHolds DEF StepsAreSound
<1> QED
  BY <1>1, ConnectionHolds, PTL DEF Spec, TimeoutsAreDue

\* A request that returns Timeout leaves no answer of its own in the inbox
\* (wait_single, wait_batch).
THEOREM TimeoutsOverlookNothing == Spec => NoAnswerOverlooked
<1>1. IInv /\ [Next]_vars =>
        [result' # result /\ result'.outcome = "timeout" /\ result'.kind \in {"single", "batch"}
            => \A i \in DOMAIN conn'.inbox : ~IsOwn(conn'.inbox[i], result')]_vars
  BY StepHolds DEF StepsAreSound
<1> QED
  BY <1>1, ConnectionHolds, PTL DEF Spec, NoAnswerOverlooked

\* Closed stays in the inbox, and from then on no call but next_event()
\* succeeds.
THEOREM ClosedStays == Spec => ClosedIsFinal
<1>1. IInv /\ [Next]_vars =>
        [HasClosed(conn) =>
            /\ HasClosed(conn')
            /\ result' # result /\ result'.outcome = "ok" => result'.kind \in {"next", "dropped"}]_vars
  BY StepHolds DEF StepsAreSound
<1> QED
  BY <1>1, ConnectionHolds, PTL DEF Spec, ClosedIsFinal
=============================================================================
