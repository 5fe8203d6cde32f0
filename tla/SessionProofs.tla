---------------------------- MODULE SessionProofs ----------------------------
(***************************************************************************)
(* Theorems about Session, for every choice of its constants.              *)
(***************************************************************************)
EXTENDS Session, SharedLemmas

USE SessionAssumption

----------------------------------------------------------------------------
(* The type invariant.                                                     *)

\* The frames the environment may send are messages the session is typed for.
LEMMA FramesAreIncoming ==
    ASSUME NEW m \in ServerFrames
    PROVE  IsIncoming(m)
<1> DEFINE Ops == {-1, OpHello, OpIdentified, OpReidentify, OpEvent,
                   OpRequestResponse, OpRequestBatchResponse}
<1>1. m \in [op : Ops, decodes : BOOLEAN, auth : BOOLEAN, rpc : RpcVersions \cup {0},
             id : ServerIds \cup {0}, ok : BOOLEAN]
  BY Zenon DEF ServerFrames
<1>2. /\ Ops \subseteq Int
      /\ RpcVersions \cup {0} \subseteq Nat /\ ServerIds \cup {0} \subseteq Nat
  BY DEF OpHello, OpIdentified, OpReidentify, OpEvent, OpRequestResponse,
         OpRequestBatchResponse
<1> HIDE DEF Ops
<1>3. m.op \in Ops /\ m.decodes \in BOOLEAN /\ m.auth \in BOOLEAN /\ m.ok \in BOOLEAN
  BY <1>1, Zenon
<1>4. m.rpc \in RpcVersions \cup {0} /\ m.id \in ServerIds \cup {0}
  BY <1>1, Zenon
<1> QED
  BY <1>2, <1>3, <1>4 DEF IsIncoming

\* poll_transmit() keeps the type invariant and touches neither calls nor events.
LEMMA TakeFrameTyped ==
    ASSUME TypeOK, TakeFrame
    PROVE  /\ TypeOK'
           /\ session'.events = session.events /\ session'.nextId = session.nextId
           /\ session'.pending = session.pending
<1> DEFINE out == Tail(session.outgoing)
<1>1. session.outgoing \in Seq(OutgoingFrame) /\ session.outgoing # <<>>
  BY DEF TypeOK, WellFormed, WellTyped, TakeFrame
<1>2. out \in Seq(OutgoingFrame) /\ Head(session.outgoing) \in OutgoingFrame
  BY <1>1, HeadTailProperties
<1>3. session' = [session EXCEPT !.outgoing = out]
  BY DEF TakeFrame, PollTransmit, TypeOK, WellFormed, WellTyped
<1>4. sent' \in Seq(OutgoingFrame) /\ surfaced' \in Seq(SessionEvent)
  BY <1>2, AppendProperties DEF TakeFrame, TypeOK
<1> HIDE DEF out
<1>5. /\ session'.events = session.events /\ session'.nextId = session.nextId
      /\ session'.pending = session.pending /\ session'.phase = session.phase
  BY <1>3 DEF TypeOK, WellFormed, WellTyped
<1>6. WellFormed(session')
  BY <1>2, <1>3, <1>5 DEF TypeOK, WellFormed, WellTyped, PendingIds
<1> QED
  BY <1>4, <1>5, <1>6 DEF TypeOK

\* poll_event() keeps the type invariant and the history of events.
LEMMA TakeEventTyped ==
    ASSUME TypeOK, TakeEvent
    PROVE  /\ TypeOK'
           /\ session'.nextId = session.nextId /\ session'.pending = session.pending
           /\ Trace' = Trace
<1> DEFINE evs == session.events
           rest == Tail(evs)
<1>1. evs \in Seq(SessionEvent) /\ evs # <<>>
  BY DEF TypeOK, WellFormed, WellTyped, TakeEvent
<1>2. rest \in Seq(SessionEvent) /\ Head(evs) \in SessionEvent
  BY <1>1, HeadTailProperties
<1>3. session' = [session EXCEPT !.events = rest]
  BY DEF TakeEvent, PollEvent, TypeOK, WellFormed, WellTyped
<1>4. sent' \in Seq(OutgoingFrame) /\ surfaced' \in Seq(SessionEvent)
  BY <1>2, AppendProperties DEF TakeEvent, TypeOK
<1>5. session'.events = rest
  BY <1>3 DEF TypeOK, WellFormed, WellTyped
<1>6. Trace' = Trace
  <2>1. surfaced \in Seq(SessionEvent) /\ surfaced' = Append(surfaced, Head(evs))
    BY DEF TypeOK, TakeEvent
  <2>2. Append(surfaced, Head(evs)) \o rest = surfaced \o evs
    BY <1>1, <2>1, PollConcat
  <2> QED
    BY <1>5, <2>1, <2>2 DEF Trace
<1> HIDE DEF rest
<1>7. /\ session'.nextId = session.nextId /\ session'.pending = session.pending
      /\ session'.phase = session.phase
  BY <1>3 DEF TypeOK, WellFormed, WellTyped
<1>8. WellFormed(session')
  BY <1>2, <1>3, <1>7 DEF TypeOK, WellFormed, WellTyped, PendingIds
<1> QED
  BY <1>4, <1>6, <1>7, <1>8 DEF TypeOK

\* Every step but a poll calls one method, which leaves the session sound.
LEMMA StepSound ==
    ASSUME TypeOK, [Next]_vars
    PROVE  \/ Sound(session, session') /\ UNCHANGED <<surfaced, sent>>
           \/ TakeFrame
           \/ TakeEvent
<1>1. WellFormed(session)
  BY DEF TypeOK
<1>2. CASE \E m \in ServerFrames, encodes \in BOOLEAN : ReceiveFrame(m, encodes)
  <2>1. PICK m \in ServerFrames, encodes \in BOOLEAN : ReceiveFrame(m, encodes)
    BY <1>2
  <2>2. Sound(session, HandleMessage(session, m, encodes).session)
    BY <1>1, FramesAreIncoming, MessageSound
  <2> QED
    BY <2>1, <2>2 DEF ReceiveFrame
<1>3. CASE \E code \in Codes : Close(code)
  BY <1>1, <1>3, CloseSound DEF Close
<1>4. CASE \E now \in Times : Tick(now)
  BY <1>1, <1>4, TimeoutSound DEF Tick
<1>5. CASE \E deadline \in Deadlines, batch, encodes \in BOOLEAN : Send(deadline, batch, encodes)
  BY <1>1, <1>5, EnqueueSound DEF Send
<1>6. CASE \E subs \in Subscriptions, encodes \in BOOLEAN : ChangeSubscriptions(subs, encodes)
  BY <1>1, <1>6, ReidentifySound DEF ChangeSubscriptions
<1>7. CASE UNCHANGED vars
  BY <1>1, <1>7, StutterSound DEF vars
<1> QED
  BY <1>2, <1>3, <1>4, <1>5, <1>6, <1>7 DEF Next

\* A session is well formed after any sequence of calls and frames: its
\* pending ids were allocated, and only an Identified one has any.
THEOREM TypeCorrect == Spec => []TypeOK
<1>1. Init => TypeOK
  <2> SUFFICES ASSUME Init PROVE TypeOK
    OBVIOUS
  <2>1. PICK password \in BOOLEAN, subs \in Subscriptions, rpc \in RpcVersions :
            session = NewSession(password, subs, rpc)
    BY DEF Init
  <2>2. WellFormed(session)
    BY <2>1, NewSessionTyped
  <2> QED
    BY <2>2 DEF Init, TypeOK
<1>2. TypeOK /\ [Next]_vars => TypeOK'
  <2> SUFFICES ASSUME TypeOK, [Next]_vars PROVE TypeOK'
    OBVIOUS
  <2>1. CASE Sound(session, session') /\ UNCHANGED <<surfaced, sent>>
    BY <2>1 DEF TypeOK, Sound
  <2> QED
    BY <2>1, StepSound, TakeFrameTyped, TakeEventTyped
<1> QED
  BY <1>1, <1>2, PTL DEF Spec

----------------------------------------------------------------------------
(* No call is settled twice.                                               *)

\* Every step of the specification keeps completions exclusive.
LEMMA ExclusiveStep ==
    ASSUME TypeOK, Exclusive(session, Trace), [Next]_vars
    PROVE  Exclusive(session, Trace)'
<1>1. surfaced \in Seq(SessionEvent) /\ session.events \in Seq(SessionEvent)
  BY DEF TypeOK, WellFormed, WellTyped
<1>2. Trace \in Seq(SessionEvent)
  BY <1>1, ConcatProperties DEF Trace
<1>3. CASE Sound(session, session') /\ UNCHANGED <<surfaced, sent>>
  <2>1. PICK p : Reports(session, session', p)
    BY <1>3 DEF Sound
  <2>2. p \in Seq(SessionEvent) /\ session'.events = session.events \o p
    BY <2>1 DEF Reports
  <2>3. Trace' = Trace \o p
    <3>1. Trace' = surfaced \o (session.events \o p)
      BY <1>3, <2>2 DEF Trace
    <3>2. (surfaced \o session.events) \o p = surfaced \o (session.events \o p)
      BY <1>1, <2>2, EventsAssociate
    <3> QED
      BY <3>1, <3>2 DEF Trace
  <2>4. Exclusive(session', Trace \o p)
    BY <1>2, <1>3, <2>1, ReportsExclusive DEF TypeOK, Sound
  <2> QED
    BY <2>3, <2>4
<1>4. CASE TakeFrame
  <2>1. /\ session'.events = session.events /\ session'.nextId = session.nextId
        /\ session'.pending = session.pending
    BY <1>4, TakeFrameTyped
  <2>2. Trace' = Trace
    BY <1>4, <2>1 DEF Trace, TakeFrame
  <2> QED
    BY <2>1, <2>2 DEF Exclusive, PendingIds
<1>5. CASE TakeEvent
  <2>1. /\ session'.nextId = session.nextId /\ session'.pending = session.pending
        /\ Trace' = Trace
    BY <1>5, TakeEventTyped
  <2> QED
    BY <2>1 DEF Exclusive, PendingIds
<1> QED
  BY <1>3, <1>4, <1>5, StepSound

\* Completions are exclusive in every state.
LEMMA AlwaysExclusive == Spec => []Exclusive(session, Trace)
<1>1. Init => Exclusive(session, Trace)
  <2> SUFFICES ASSUME Init PROVE Exclusive(session, Trace)
    OBVIOUS
  <2>1. session.events = <<>> /\ surfaced = <<>>
    BY NewSessionTyped DEF Init
  <2>2. Trace = <<>>
    BY <2>1 DEF Trace
  <2> QED
    BY <2>2 DEF Exclusive
<1>2. TypeOK /\ Exclusive(session, Trace) /\ [Next]_vars => Exclusive(session, Trace)'
  BY ExclusiveStep
<1> QED
  BY <1>1, <1>2, TypeCorrect, PTL DEF Spec

\* Whatever the server sends and whenever the clock or the socket strikes, a
\* call completes at most once, and never while its entry is still pending.
THEOREM SettledOnce == Spec => []SettledAtMostOnce
<1>1. Exclusive(session, Trace) => SettledAtMostOnce
  BY DEF Exclusive, SettledAtMostOnce, Settled
<1> QED
  BY <1>1, AlwaysExclusive, PTL

----------------------------------------------------------------------------
(* The turns a session takes.                                             *)

\* Every step but a poll is one turn of the session.
LEMMA StepTurns ==
    ASSUME TypeOK, [Next]_vars
    PROVE  \/ Turns(session, session') /\ UNCHANGED <<surfaced, sent>>
           \/ TakeFrame
           \/ TakeEvent
<1>1. WellFormed(session)
  BY DEF TypeOK
<1>2. CASE \E m \in ServerFrames, encodes \in BOOLEAN : ReceiveFrame(m, encodes)
  <2>1. PICK m \in ServerFrames, encodes \in BOOLEAN : ReceiveFrame(m, encodes)
    BY <1>2
  <2>2. Turns(session, HandleMessage(session, m, encodes).session)
    BY <1>1, FramesAreIncoming, MessageTurns
  <2> QED
    BY <2>1, <2>2 DEF ReceiveFrame
<1>3. CASE \E code \in Codes : Close(code)
  BY <1>1, <1>3, CloseTurns DEF Close
<1>4. CASE \E now \in Times : Tick(now)
  BY <1>1, <1>4, TimeoutTurns DEF Tick
<1>5. CASE \E deadline \in Deadlines, batch, encodes \in BOOLEAN : Send(deadline, batch, encodes)
  BY <1>1, <1>5, EnqueueTurns DEF Send
<1>6. CASE \E subs \in Subscriptions, encodes \in BOOLEAN : ChangeSubscriptions(subs, encodes)
  BY <1>1, <1>6, ReidentifyTurns DEF ChangeSubscriptions
<1>7. CASE UNCHANGED vars
  BY <1>1, <1>7, StutterTurns DEF vars
<1> QED
  BY <1>2, <1>3, <1>4, <1>5, <1>6, <1>7 DEF Next

----------------------------------------------------------------------------
(* The order of the events.                                                *)

\* NothingAfterClosed and IdentifiedComesFirst of the history tr.
ClosedLast(tr) ==
    \A i, j \in DOMAIN tr :
        i < j /\ tr[i].type = "Closed" =>
            \/ tr[j].type = "Closed"
            \/ IsCompletion(tr[j]) /\ tr[j].result = "closed"

IdentifiedFirst(tr) ==
    \A j \in DOMAIN tr :
        IF tr[j].type = "Identified"
        THEN \A i \in 1 .. j - 1 : tr[i].type # "Identified"
        ELSE tr[j].type # "Closed" => \E i \in 1 .. j - 1 : tr[i].type = "Identified"

\* They are inductive together with what the phase tells of the past.
InOrder(ss, tr) ==
    /\ ClosedLast(tr)
    /\ IdentifiedFirst(tr)
    /\ ss.phase \in {"AwaitingHello", "Identifying"} => tr = <<>>
    /\ ss.phase = "Identified" =>
            /\ \E i \in DOMAIN tr : tr[i].type = "Identified"
            /\ \A i \in DOMAIN tr : tr[i].type # "Closed"

\* A turn keeps the events in order.
LEMMA EventsStayInOrder ==
    ASSUME NEW ss, WellFormed(ss), NEW tt, NEW tr \in Seq(SessionEvent),
           NEW p, NEW q, Adds(ss, tt, p, q), InOrder(ss, tr)
    PROVE  InOrder(tt, tr \o p)
<1> DEFINE all == tr \o p
           n == Len(tr)
<1>1. /\ p \in Seq(SessionEvent) /\ Len(p) \in Nat /\ DOMAIN p = 1 .. Len(p)
      /\ n \in Nat /\ DOMAIN tr = 1 .. n
      /\ ss.phase \in Phases
  BY DEF Adds, WellFormed, WellTyped
<1>2. /\ DOMAIN all = 1 .. n + Len(p)
      /\ \A i \in 1 .. n + Len(p) : all[i] = IF i <= n THEN tr[i] ELSE p[i - n]
  BY <1>1, ConcatProperties, LenProperties
<1>3. p = <<>> => all = tr
  BY ConcatEmptySeq
<1> HIDE DEF all, n
<1>4. CASE Serves(ss, tt, p, q) /\ p = <<>>
  BY <1>3, <1>4 DEF Serves, InOrder, all
<1>5. CASE Greets(ss, tt, p, q) \/ Asks(ss, tt, p, q)
  BY <1>3, <1>5 DEF Greets, Asks, InOrder, all
<1>6. CASE Opens(ss, tt, p, q)
  <2>1. tr = <<>> /\ n = 0 /\ Len(p) = 1 /\ p[1].type = "Identified" /\ tt.phase = "Identified"
    BY <1>6 DEF Opens, InOrder, n
  <2>2. DOMAIN all = {1} /\ all[1] = p[1]
    BY <1>2, <2>1
  <2> QED
    BY <2>1, <2>2 DEF InOrder, ClosedLast, IdentifiedFirst, all
<1>7. CASE Serves(ss, tt, p, q) /\ p # <<>>
  <2>1. /\ ss.phase = "Identified" /\ tt.phase = "Identified"
        /\ \A i \in DOMAIN p : p[i].type \notin {"Identified", "Closed"}
    BY <1>7 DEF Serves
  <2>2. PICK k \in 1 .. n : tr[k].type = "Identified"
    BY <1>1, <2>1 DEF InOrder
  <2>3. \A i \in DOMAIN all : i <= n => i \in DOMAIN tr /\ all[i] = tr[i]
    BY <1>1, <1>2
  <2>4. \A i \in DOMAIN all : ~(i <= n) => all[i].type \notin {"Identified", "Closed"}
    BY <1>1, <1>2, <2>1
  <2>5. \A i \in DOMAIN all : all[i].type # "Closed"
    BY <2>1, <2>3, <2>4 DEF InOrder
  <2>6. k \in DOMAIN all /\ all[k].type = "Identified"
    BY <1>1, <1>2, <2>2
  <2>7. IdentifiedFirst(all)
    <3> SUFFICES ASSUME NEW j \in DOMAIN all
                 PROVE  IF all[j].type = "Identified"
                        THEN \A i \in 1 .. j - 1 : all[i].type # "Identified"
                        ELSE all[j].type # "Closed" =>
                                \E i \in 1 .. j - 1 : all[i].type = "Identified"
      BY DEF IdentifiedFirst
    <3>1. CASE j <= n
      <4>1. j \in DOMAIN tr /\ all[j] = tr[j] /\ \A i \in 1 .. j - 1 : all[i] = tr[i]
        BY <1>1, <1>2, <3>1
      <4> QED
        BY <4>1 DEF InOrder, IdentifiedFirst
    <3>2. CASE ~(j <= n)
      <4>1. k \in 1 .. j - 1
        BY <1>1, <1>2, <2>2, <3>2
      <4> QED
        BY <2>4, <2>6, <3>2, <4>1
    <3> QED
      BY <3>1, <3>2
  <2>8. ClosedLast(all)
    BY <2>5 DEF ClosedLast
  <2> QED
    BY <2>1, <2>5, <2>6, <2>7, <2>8 DEF InOrder, all
<1>8. CASE Closes(ss, tt, p, q)
  <2>1. /\ tt.phase = "Closed" /\ Len(p) > 0 /\ p[1].type = "Closed"
        /\ \A i \in 2 .. Len(p) :
                ss.phase = "Identified" /\ IsCompletion(p[i]) /\ p[i].result = "closed"
    BY <1>8 DEF Closes
  <2>2. \A i \in DOMAIN all : i <= n => i \in DOMAIN tr /\ all[i] = tr[i]
    BY <1>1, <1>2
  <2>3. \A i \in DOMAIN all : i = n + 1 => all[i].type = "Closed"
    BY <1>1, <1>2, <2>1
  <2>4. \A i \in DOMAIN all : i > n + 1 =>
            /\ IsCompletion(all[i]) /\ all[i].result = "closed"
            /\ \E k \in 1 .. n : tr[k].type = "Identified"
    <3> SUFFICES ASSUME NEW i \in DOMAIN all, i > n + 1
                 PROVE  /\ IsCompletion(all[i]) /\ all[i].result = "closed"
                        /\ \E k \in 1 .. n : tr[k].type = "Identified"
      OBVIOUS
    <3>1. i - n \in 2 .. Len(p) /\ all[i] = p[i - n]
      BY <1>1, <1>2
    <3>2. ss.phase = "Identified" /\ IsCompletion(all[i]) /\ all[i].result = "closed"
      BY <2>1, <3>1
    <3> QED
      BY <1>1, <3>2 DEF InOrder
  <2>5. ClosedLast(all)
    <3> SUFFICES ASSUME NEW i \in DOMAIN all, NEW j \in DOMAIN all, i < j,
                        all[i].type = "Closed"
                 PROVE  \/ all[j].type = "Closed"
                        \/ IsCompletion(all[j]) /\ all[j].result = "closed"
      BY DEF ClosedLast
    <3>1. CASE j <= n
      <4>1. i \in DOMAIN tr /\ j \in DOMAIN tr /\ all[i] = tr[i] /\ all[j] = tr[j]
        BY <1>1, <1>2, <3>1
      <4> QED
        BY <4>1 DEF InOrder, ClosedLast
    <3>2. CASE j = n + 1
      BY <2>3, <3>2
    <3>3. CASE j > n + 1
      BY <2>4, <3>3
    <3> QED
      BY <1>1, <1>2, <3>1, <3>2, <3>3
  <2>6. IdentifiedFirst(all)
    <3> SUFFICES ASSUME NEW j \in DOMAIN all
                 PROVE  IF all[j].type = "Identified"
                        THEN \A i \in 1 .. j - 1 : all[i].type # "Identified"
                        ELSE all[j].type # "Closed" =>
                                \E i \in 1 .. j - 1 : all[i].type = "Identified"
      BY DEF IdentifiedFirst
    <3>1. CASE j <= n
      <4>1. j \in DOMAIN tr /\ all[j] = tr[j] /\ \A i \in 1 .. j - 1 : all[i] = tr[i]
        BY <1>1, <1>2, <3>1
      <4> QED
        BY <4>1 DEF InOrder, IdentifiedFirst
    <3>2. CASE j = n + 1
      BY <2>3, <3>2
    <3>3. CASE j > n + 1
      <4>1. PICK k \in 1 .. n : tr[k].type = "Identified"
        BY <2>4, <3>3
      <4>2. k \in 1 .. j - 1 /\ all[k] = tr[k]
        BY <1>1, <1>2, <3>3
      <4>3. all[j].type # "Identified"
        BY <2>4, <3>3 DEF IsCompletion
      <4> QED
        BY <4>1, <4>2, <4>3
    <3> QED
      BY <1>1, <1>2, <3>1, <3>2, <3>3
  <2> QED
    BY <2>1, <2>5, <2>6 DEF InOrder, all
<1> QED
  BY <1>4, <1>5, <1>6, <1>7, <1>8 DEF Adds

----------------------------------------------------------------------------
(* The order of the frames.                                                *)

\* WireInOrder of the history wi, strengthened with what the phase and
\* nextId tell of it.
SentInOrder(ss, wi) ==
    /\ \A j \in DOMAIN wi :
        /\ (wi[j].op = OpIdentify) <=> (j = 1)
        /\ wi[j].op = OpIdentify /\ wi[j].auth => ss.password
        /\ IsCall(wi[j]) => \A i \in 1 .. j - 1 : IsCall(wi[i]) => wi[i].id < wi[j].id
        /\ IsCall(wi[j]) => wi[j].id < ss.nextId
    /\ ss.phase = "AwaitingHello" => wi = <<>>
    /\ ss.phase \in {"Identifying", "Identified"} => wi # <<>>

\* A turn keeps the frames in order.
LEMMA FramesStayInOrder ==
    ASSUME NEW ss, WellFormed(ss), NEW tt, WellFormed(tt), NEW wi \in Seq(OutgoingFrame),
           NEW p, NEW q, Adds(ss, tt, p, q), SentInOrder(ss, wi)
    PROVE  SentInOrder(tt, wi \o q)
<1> DEFINE all == wi \o q
           n == Len(wi)
<1>1. /\ q \in Seq(OutgoingFrame) /\ Len(q) \in Nat /\ DOMAIN q = 1 .. Len(q)
      /\ n \in Nat /\ DOMAIN wi = 1 .. n
      /\ ss.nextId \in Nat /\ tt.nextId \in Nat /\ ss.nextId <= tt.nextId
      /\ tt.password = ss.password
  BY DEF Adds, WellFormed, WellTyped
<1>2. /\ DOMAIN all = 1 .. n + Len(q)
      /\ \A i \in 1 .. n + Len(q) : all[i] = IF i <= n THEN wi[i] ELSE q[i - n]
      /\ all \in Seq(OutgoingFrame)
  BY <1>1, ConcatProperties, LenProperties
<1>3. q = <<>> => all = wi
  BY ConcatEmptySeq
<1>4. \A i \in DOMAIN wi : IsCall(wi[i]) => wi[i].id \in Nat
  <2> SUFFICES ASSUME NEW i \in DOMAIN wi, IsCall(wi[i]) PROVE wi[i].id \in Nat
    OBVIOUS
  <2>1. wi[i] \in OutgoingFrame
    BY ElementOfSeq, <1>1
  <2> QED
    BY <2>1 DEF OutgoingFrame, IsCall, OpIdentify, OpReidentify, OpRequest, OpRequestBatch
<1>5. n = 0 <=> wi = <<>>
  BY EmptySeq
<1> HIDE DEF all, n
<1>6. CASE q = <<>> /\ (tt.phase = "AwaitingHello" => ss.phase = "AwaitingHello")
                    /\ (tt.phase \in {"Identifying", "Identified"} =>
                            ss.phase \in {"Identifying", "Identified"})
  <2>1. \A j \in DOMAIN wi : IsCall(wi[j]) => wi[j].id < tt.nextId
    BY <1>1, <1>4 DEF SentInOrder
  <2> QED
    BY <1>1, <1>3, <1>6, <2>1 DEF SentInOrder, all
<1>7. CASE Greets(ss, tt, p, q)
  <2>1. /\ wi = <<>> /\ n = 0 /\ tt.phase = "Identifying" /\ Len(q) = 1
        /\ q[1].op = OpIdentify /\ (q[1].auth => ss.password)
    BY <1>5, <1>7 DEF Greets, SentInOrder
  <2>2. DOMAIN all = {1} /\ all[1] = q[1] /\ all # <<>>
    BY <1>2, <2>1
  <2>3. ~IsCall(all[1])
    BY <2>1, <2>2 DEF IsCall, OpIdentify, OpRequest, OpRequestBatch
  <2> QED
    BY <1>1, <2>1, <2>2, <2>3 DEF SentInOrder, all
<1>8. CASE Asks(ss, tt, p, q)
  <2>1. /\ ss.phase = "Identified" /\ tt.phase = "Identified" /\ Len(q) = 1
        /\ q[1].op # OpIdentify
        /\ IsCall(q[1]) => q[1].id = ss.nextId /\ ss.nextId < tt.nextId
    BY <1>8 DEF Asks
  <2>2. n > 0
    BY <1>1, <1>5, <2>1 DEF SentInOrder
  <2>3. \A j \in DOMAIN all :
            \/ j \in DOMAIN wi /\ all[j] = wi[j] /\ j <= n
            \/ j = n + 1 /\ all[j] = q[1]
    BY <1>1, <1>2, <2>1
  <2>4. ASSUME NEW j \in DOMAIN all
        PROVE  /\ (all[j].op = OpIdentify) <=> (j = 1)
               /\ all[j].op = OpIdentify /\ all[j].auth => tt.password
               /\ IsCall(all[j]) => \A i \in 1 .. j - 1 : IsCall(all[i]) => all[i].id < all[j].id
               /\ IsCall(all[j]) => all[j].id < tt.nextId
    <3>1. CASE j \in DOMAIN wi /\ all[j] = wi[j] /\ j <= n
      <4>1. \A i \in 1 .. j - 1 : all[i] = wi[i]
        BY <1>1, <1>2, <3>1
      <4> QED
        BY <1>1, <1>4, <3>1, <4>1 DEF SentInOrder
    <3>2. CASE j = n + 1 /\ all[j] = q[1]
      <4>1. \A i \in 1 .. j - 1 : i \in DOMAIN wi /\ all[i] = wi[i]
        BY <1>1, <1>2, <3>2
      <4>2. j # 1 /\ all[j].op # OpIdentify
        BY <1>1, <2>1, <2>2, <3>2
      <4> QED
        BY <2>1, <3>2, <4>1, <4>2 DEF SentInOrder
    <3> QED
      BY <2>3, <3>1, <3>2
  <2>5. all # <<>>
    BY <1>1, <1>2, <2>2
  <2> QED
    BY <2>1, <2>4, <2>5 DEF SentInOrder, all
<1> QED
  BY <1>6, <1>7, <1>8 DEF Adds, Serves, Opens, Closes

\* Concatenation of frame queues is associative.
LEMMA FramesAssociate ==
    ASSUME NEW a \in Seq(OutgoingFrame), NEW b \in Seq(OutgoingFrame),
           NEW c \in Seq(OutgoingFrame)
    PROVE  (a \o b) \o c = a \o (b \o c)
BY ConcatAssociative

\* What a method call queues is added to the histories.
LEMMA HistoriesGrow ==
    ASSUME surfaced \in Seq(SessionEvent), session.events \in Seq(SessionEvent),
           sent \in Seq(OutgoingFrame), session.outgoing \in Seq(OutgoingFrame),
           NEW p \in Seq(SessionEvent), NEW q \in Seq(OutgoingFrame),
           session'.events = session.events \o p,
           session'.outgoing = session.outgoing \o q,
           UNCHANGED <<surfaced, sent>>
    PROVE  Trace' = Trace \o p /\ Wire' = Wire \o q
<1>1. Trace' = surfaced \o (session.events \o p) /\ Wire' = sent \o (session.outgoing \o q)
  BY DEF Trace, Wire
<1>2. (surfaced \o session.events) \o p = surfaced \o (session.events \o p)
  BY EventsAssociate, Zenon
<1>3. (sent \o session.outgoing) \o q = sent \o (session.outgoing \o q)
  BY FramesAssociate, Zenon
<1> QED
  BY <1>1, <1>2, <1>3 DEF Trace, Wire

----------------------------------------------------------------------------
(* The theorems.                                                           *)

\* Polling moves events and frames from the queues to the histories.
LEMMA PollsKeepHistories ==
    ASSUME TypeOK, TakeFrame \/ TakeEvent
    PROVE  /\ Trace' = Trace /\ Wire' = Wire
           /\ session'.phase = session.phase /\ session'.nextId = session.nextId
           /\ session'.password = session.password
<1>1. /\ surfaced \in Seq(SessionEvent) /\ session.events \in Seq(SessionEvent)
      /\ sent \in Seq(OutgoingFrame) /\ session.outgoing \in Seq(OutgoingFrame)
  BY DEF TypeOK, WellFormed, WellTyped
<1>2. CASE TakeFrame
  <2>1. /\ session'.events = session.events /\ session'.phase = session.phase
        /\ session'.nextId = session.nextId /\ session'.password = session.password
        /\ session'.outgoing = Tail(session.outgoing)
    BY <1>2 DEF TakeFrame, PollTransmit, TypeOK, WellFormed, WellTyped
  <2>2. Append(sent, Head(session.outgoing)) \o Tail(session.outgoing) = sent \o session.outgoing
    <3>1. session.outgoing # <<>>
      BY <1>2 DEF TakeFrame
    <3> QED
      BY <1>1, <3>1, PollConcat, Zenon
  <2>3. Wire' = Wire
    BY <1>2, <2>1, <2>2 DEF Wire, TakeFrame
  <2>4. Trace' = Trace
    BY <1>2, <2>1 DEF Trace, TakeFrame
  <2> QED
    BY <2>1, <2>3, <2>4
<1>3. CASE TakeEvent
  <2>1. /\ session'.outgoing = session.outgoing /\ session'.phase = session.phase
        /\ session'.nextId = session.nextId /\ session'.password = session.password
    BY <1>3 DEF TakeEvent, PollEvent, TypeOK, WellFormed, WellTyped
  <2>2. Wire' = Wire
    BY <1>3, <2>1 DEF Wire, TakeEvent
  <2> QED
    BY <1>3, <2>1, <2>2, TakeEventTyped
<1> QED
  BY <1>2, <1>3

InOrderNow == InOrder(session, Trace) /\ SentInOrder(session, Wire)

\* Every step of the specification keeps both histories in order.
LEMMA OrderStep ==
    ASSUME TypeOK, TypeOK', InOrderNow, [Next]_vars
    PROVE  InOrderNow'
<1>1. /\ surfaced \in Seq(SessionEvent) /\ session.events \in Seq(SessionEvent)
      /\ sent \in Seq(OutgoingFrame) /\ session.outgoing \in Seq(OutgoingFrame)
      /\ WellFormed(session) /\ WellFormed(session')
  BY DEF TypeOK, WellFormed, WellTyped
<1>2. Trace \in Seq(SessionEvent) /\ Wire \in Seq(OutgoingFrame)
  BY <1>1, ConcatProperties DEF Trace, Wire
<1>3. CASE Turns(session, session') /\ UNCHANGED <<surfaced, sent>>
  <2>1. PICK p, q : Adds(session, session', p, q)
    BY <1>3 DEF Turns
  <2>2. /\ p \in Seq(SessionEvent) /\ session'.events = session.events \o p
        /\ q \in Seq(OutgoingFrame) /\ session'.outgoing = session.outgoing \o q
    BY <2>1 DEF Adds
  <2>3. Trace' = Trace \o p /\ Wire' = Wire \o q
    BY <1>1, <1>3, <2>2, HistoriesGrow
  <2>4. InOrder(session', Trace \o p)
    BY <1>1, <1>2, <2>1, EventsStayInOrder DEF InOrderNow
  <2>5. SentInOrder(session', Wire \o q)
    BY <1>1, <1>2, <2>1, FramesStayInOrder DEF InOrderNow
  <2> QED
    BY <2>3, <2>4, <2>5 DEF InOrderNow
<1>4. CASE TakeFrame \/ TakeEvent
  BY <1>4, PollsKeepHistories DEF InOrderNow, InOrder, SentInOrder
<1> QED
  BY <1>3, <1>4, StepTurns

\* Both histories are in order in every state.
LEMMA AlwaysInOrder == Spec => []InOrderNow
<1>1. Init => InOrderNow
  <2> SUFFICES ASSUME Init PROVE InOrderNow
    OBVIOUS
  <2>1. session.events = <<>> /\ session.outgoing = <<>> /\ session.phase = "AwaitingHello"
    BY DEF Init, NewSession
  <2>2. Trace = <<>> /\ Wire = <<>>
    BY <2>1 DEF Init, Trace, Wire
  <2> QED
    BY <2>1, <2>2 DEF InOrderNow, InOrder, ClosedLast, IdentifiedFirst, SentInOrder
<1>2. TypeOK /\ TypeOK' /\ InOrderNow /\ [Next]_vars => InOrderNow'
  BY OrderStep
<1> QED
  BY <1>1, <1>2, TypeCorrect, PTL DEF Spec

\* After Closed a session reports nothing but further closes and the calls
\* that close cut off.
THEOREM ClosedIsLast == Spec => []NothingAfterClosed
<1>1. InOrderNow => NothingAfterClosed
  BY DEF InOrderNow, InOrder, ClosedLast, NothingAfterClosed
<1> QED
  BY <1>1, AlwaysInOrder, PTL

\* Identified is reported once, before any event, answer or timeout.
THEOREM IdentifiedIsFirst == Spec => []IdentifiedComesFirst
<1>1. InOrderNow => IdentifiedComesFirst
  BY DEF InOrderNow, InOrder, IdentifiedFirst, IdentifiedComesFirst
<1> QED
  BY <1>1, AlwaysInOrder, PTL

\* The client's frames open with its only Identify, which answers no
\* challenge without a password, and the ids of its calls increase.
THEOREM FramesInOrder == Spec => []WireInOrder
<1>1. InOrderNow => WireInOrder
  BY DEF InOrderNow, SentInOrder, WireInOrder
<1> QED
  BY <1>1, AlwaysInOrder, PTL

----------------------------------------------------------------------------
(* The calls.                                                              *)

\* Every step but a poll accounts for the calls.
LEMMA StepAccounts ==
    ASSUME TypeOK, [Next]_vars
    PROVE  \/ AccountsForCalls(session, session') /\ UNCHANGED <<surfaced, sent>>
           \/ TakeFrame
           \/ TakeEvent
<1>1. WellFormed(session)
  BY DEF TypeOK
<1>2. CASE \E m \in ServerFrames, encodes \in BOOLEAN : ReceiveFrame(m, encodes)
  <2>1. PICK m \in ServerFrames, encodes \in BOOLEAN : ReceiveFrame(m, encodes)
    BY <1>2
  <2>2. AccountsForCalls(session, HandleMessage(session, m, encodes).session)
    BY <1>1, FramesAreIncoming, MessageAccounts
  <2> QED
    BY <2>1, <2>2 DEF ReceiveFrame
<1>3. CASE \E code \in Codes : Close(code)
  BY <1>1, <1>3, CloseAccounts DEF Close
<1>4. CASE \E now \in Times : Tick(now)
  BY <1>1, <1>4, TimeoutAccounts DEF Tick
<1>5. CASE \E deadline \in Deadlines, batch, encodes \in BOOLEAN : Send(deadline, batch, encodes)
  BY <1>1, <1>5, EnqueueAccounts DEF Send
<1>6. CASE \E subs \in Subscriptions, encodes \in BOOLEAN : ChangeSubscriptions(subs, encodes)
  BY <1>1, <1>6, ReidentifyAccounts DEF ChangeSubscriptions
<1>7. CASE UNCHANGED vars
  BY <1>1, <1>7, StutterAccounts DEF vars
<1> QED
  BY <1>2, <1>3, <1>4, <1>5, <1>6, <1>7 DEF Next

----------------------------------------------------------------------------
(* The invariant.                                                          *)

\* CallsAccountedFor of the histories tr and wi.
Accounted(ss, tr, wi) ==
    /\ \A j \in DOMAIN wi :
            IsCall(wi[j]) => wi[j].id \in PendingIds(ss) \/ Names(tr, wi[j].id)
    /\ \A id \in PendingIds(ss) : \E j \in DOMAIN wi :
            wi[j] = CallFrame(id, ss.pending[id].batch)
    /\ \A i \in DOMAIN tr : IsCompletion(tr[i]) => \E j \in DOMAIN wi :
            wi[j] = CallFrame(tr[i].id, tr[i].type = "BatchResponse")

\* A method call keeps the calls accounted for.
LEMMA AccountsStayComplete ==
    ASSUME NEW ss, WellFormed(ss), NEW tt, NEW tr \in Seq(SessionEvent),
           NEW wi \in Seq(OutgoingFrame), NEW p, NEW q,
           Accounts(ss, tt, p, q), Accounted(ss, tr, wi)
    PROVE  Accounted(tt, tr \o p, wi \o q)
<1> DEFINE events == tr \o p
           frames == wi \o q
<1>1. p \in Seq(SessionEvent) /\ q \in Seq(OutgoingFrame)
  BY DEF Accounts
<1>2. /\ \A i \in DOMAIN tr : i \in DOMAIN events /\ events[i] = tr[i]
      /\ \A i \in DOMAIN p : Len(tr) + i \in DOMAIN events /\ events[Len(tr) + i] = p[i]
      /\ \A i \in DOMAIN events :
            \/ i \in DOMAIN tr /\ events[i] = tr[i]
            \/ i - Len(tr) \in DOMAIN p /\ events[i] = p[i - Len(tr)]
  BY <1>1
<1>3. /\ \A j \in DOMAIN wi : j \in DOMAIN frames /\ frames[j] = wi[j]
      /\ \A j \in DOMAIN q : Len(wi) + j \in DOMAIN frames /\ frames[Len(wi) + j] = q[j]
      /\ \A j \in DOMAIN frames :
            \/ j \in DOMAIN wi /\ frames[j] = wi[j]
            \/ j - Len(wi) \in DOMAIN q /\ frames[j] = q[j - Len(wi)]
  BY <1>1
<1> HIDE DEF events, frames
<1>4. \A id : Names(tr, id) \/ Names(p, id) => Names(events, id)
  BY <1>2 DEF Names
<1>5. ASSUME NEW j \in DOMAIN frames, IsCall(frames[j])
      PROVE  frames[j].id \in PendingIds(tt) \/ Names(events, frames[j].id)
  <2>1. CASE j \in DOMAIN wi /\ frames[j] = wi[j]
    <3>1. wi[j].id \in PendingIds(ss) \/ Names(tr, wi[j].id)
      BY <1>5, <2>1 DEF Accounted
    <3>2. wi[j].id \in PendingIds(ss) \ PendingIds(tt) => Names(p, wi[j].id)
      BY DEF Accounts
    <3> QED
      BY <1>4, <2>1, <3>1, <3>2
  <2>2. CASE j - Len(wi) \in DOMAIN q /\ frames[j] = q[j - Len(wi)]
    BY <1>5, <2>2 DEF Accounts
  <2> QED
    BY <1>3, <2>1, <2>2
<1>6. ASSUME NEW id \in PendingIds(tt)
      PROVE  \E j \in DOMAIN frames : frames[j] = CallFrame(id, tt.pending[id].batch)
  <2>1. CASE id \in PendingIds(ss) /\ tt.pending[id] = ss.pending[id]
    <3>1. PICK j \in DOMAIN wi : wi[j] = CallFrame(id, ss.pending[id].batch)
      BY <2>1 DEF Accounted
    <3> QED
      BY <1>3, <2>1, <3>1
  <2>2. CASE \E j \in DOMAIN q : q[j] = CallFrame(id, tt.pending[id].batch)
    BY <1>3, <2>2
  <2> QED
    BY <2>1, <2>2 DEF Accounts
<1>7. ASSUME NEW i \in DOMAIN events, IsCompletion(events[i])
      PROVE  \E j \in DOMAIN frames :
                frames[j] = CallFrame(events[i].id, events[i].type = "BatchResponse")
  <2>1. CASE i \in DOMAIN tr /\ events[i] = tr[i]
    <3>1. PICK j \in DOMAIN wi : wi[j] = CallFrame(tr[i].id, tr[i].type = "BatchResponse")
      BY <1>7, <2>1 DEF Accounted
    <3> QED
      BY <1>3, <2>1, <3>1
  <2>2. CASE i - Len(tr) \in DOMAIN p /\ events[i] = p[i - Len(tr)]
    <3>1. /\ events[i].id \in PendingIds(ss)
          /\ events[i].type = AnswerType(ss.pending[events[i].id].batch)
      BY <1>7, <2>2 DEF Accounts
    <3>2. PICK j \in DOMAIN wi :
            wi[j] = CallFrame(events[i].id, ss.pending[events[i].id].batch)
      BY <3>1 DEF Accounted
    <3>3. CallFrame(events[i].id, ss.pending[events[i].id].batch)
            = CallFrame(events[i].id, events[i].type = "BatchResponse")
      BY <3>1 DEF CallFrame, AnswerType
    <3> QED
      BY <1>3, <3>2, <3>3
  <2> QED
    BY <1>2, <2>1, <2>2
<1> QED
  BY <1>5, <1>6, <1>7 DEF Accounted, events, frames

\* Polling leaves the map alone.
LEMMA PollsKeepPending ==
    ASSUME TypeOK, TakeFrame \/ TakeEvent
    PROVE  session'.pending = session.pending
BY DEF TakeFrame, TakeEvent, PollTransmit, PollEvent, TypeOK, WellFormed, WellTyped

\* Every step of the specification keeps the calls accounted for.
LEMMA AccountedStep ==
    ASSUME TypeOK, Accounted(session, Trace, Wire), [Next]_vars
    PROVE  Accounted(session, Trace, Wire)'
<1>1. /\ surfaced \in Seq(SessionEvent) /\ session.events \in Seq(SessionEvent)
      /\ sent \in Seq(OutgoingFrame) /\ session.outgoing \in Seq(OutgoingFrame)
      /\ WellFormed(session)
  BY DEF TypeOK, WellFormed, WellTyped
<1>2. Trace \in Seq(SessionEvent) /\ Wire \in Seq(OutgoingFrame)
  BY <1>1, ConcatProperties DEF Trace, Wire
<1>3. CASE AccountsForCalls(session, session') /\ UNCHANGED <<surfaced, sent>>
  <2>1. PICK p, q : Accounts(session, session', p, q)
    BY <1>3 DEF AccountsForCalls
  <2>2. /\ p \in Seq(SessionEvent) /\ session'.events = session.events \o p
        /\ q \in Seq(OutgoingFrame) /\ session'.outgoing = session.outgoing \o q
    BY <2>1 DEF Accounts
  <2>3. Trace' = Trace \o p /\ Wire' = Wire \o q
    BY <1>1, <1>3, <2>2, HistoriesGrow
  <2>4. Accounted(session', Trace \o p, Wire \o q)
    BY <1>1, <1>2, <2>1, AccountsStayComplete
  <2> QED
    BY <2>3, <2>4
<1>4. CASE TakeFrame \/ TakeEvent
  <2>1. Trace' = Trace /\ Wire' = Wire /\ session'.pending = session.pending
    BY <1>4, PollsKeepHistories, PollsKeepPending
  <2> QED
    BY <2>1 DEF Accounted, PendingIds
<1> QED
  BY <1>3, <1>4, StepAccounts

\* The calls are accounted for in every state.
LEMMA AlwaysAccounted == Spec => []Accounted(session, Trace, Wire)
<1>1. Init => Accounted(session, Trace, Wire)
  <2> SUFFICES ASSUME Init PROVE Accounted(session, Trace, Wire)
    OBVIOUS
  <2>1. /\ session.events = <<>> /\ session.outgoing = <<>>
        /\ PendingIds(session) = {}
    BY DEF Init, NewSession, PendingIds
  <2>2. Trace = <<>> /\ Wire = <<>>
    BY <2>1 DEF Init, Trace, Wire
  <2> QED
    BY <2>1, <2>2 DEF Accounted
<1>2. TypeOK /\ Accounted(session, Trace, Wire) /\ [Next]_vars => Accounted(session, Trace, Wire)'
  BY AccountedStep
<1> QED
  BY <1>1, <1>2, TypeCorrect, PTL DEF Spec

\* Every call on the wire is pending, settled or named by an answer that did
\* not match it, and only calls on the wire are pending or settled, as the
\* kind of call they are.
THEOREM NoCallIsLost == Spec => []CallsAccountedFor
<1>1. Accounted(session, Trace, Wire) => CallsAccountedFor
  <2> SUFFICES ASSUME Accounted(session, Trace, Wire) PROVE CallsAccountedFor
    OBVIOUS
  <2>1. Issued \subseteq PendingIds(session) \cup Settled \cup Misanswered
    BY DEF Accounted, Names, Issued, Settled, Misanswered
  <2> QED
    BY <2>1 DEF Accounted, CallFrame, CallsAccountedFor
<1> QED
  BY <1>1, AlwaysAccounted, PTL

----------------------------------------------------------------------------
(* Deadlines.                                                              *)

\* When handle_timeout() times a call out, the call was due, and nothing that
\* was due no later stays pending.
LEMMA TimeoutsInOrder ==
    ASSUME NEW ss, WellFormed(ss), NEW now \in Nat,
           NEW tt, tt = HandleTimeout(ss, now),
           NEW i \in DOMAIN tt.events \ DOMAIN ss.events,
           NEW id \in PendingIds(ss), tt.events[i].id = id
    PROVE  /\ ss.pending[id].deadline # NoDeadline
           /\ \A other \in PendingIds(ss) :
                /\ ss.pending[other].deadline # NoDeadline
                /\ ss.pending[other].deadline <= ss.pending[id].deadline
                => other \notin PendingIds(tt)
<1> DEFINE ids == Expired(ss, now)
           fs == Failures(ss, ids, "timeout")
<1>1. ids \in SUBSET PendingIds(ss) /\ WellTyped(ss) /\ "timeout" \in Results
  BY DEF Expired, WellFormed, Results
<1>2. tt = RemovePending(PushFailures(ss, ids, "timeout"), ids)
  BY DEF HandleTimeout
<1> HIDE DEF ids
<1>3. FailedSome(ss, tt, ids, "timeout")
  BY <1>1, <1>2, FailSome, Zenon
<1>4. FailsEach(ss, ids, "timeout", fs)
  BY <1>1, FailuresOfPending, Zenon
<1>5. tt.events = ss.events \o fs /\ PendingIds(tt) = PendingIds(ss) \ ids
  BY <1>3 DEF FailedSome
<1>6. ss.events \in Seq(SessionEvent) /\ fs \in Seq(SessionEvent)
  BY <1>1, <1>4 DEF FailsEach, WellTyped
<1> HIDE DEF fs
<1>7. i - Len(ss.events) \in DOMAIN fs /\ tt.events[i] = fs[i - Len(ss.events)]
  BY <1>5, <1>6
<1>8. id \in ids
  BY <1>4, <1>7 DEF FailsEach
<1>9. /\ ss.pending[id].deadline # NoDeadline /\ ss.pending[id].deadline <= now
      /\ \A other \in PendingIds(ss) \ ids :
            \/ ss.pending[other].deadline = NoDeadline
            \/ ~(ss.pending[other].deadline <= now)
  BY <1>8 DEF ids, Expired
<1>10. \A k \in PendingIds(ss) : ss.pending[k].deadline \in Nat \cup {NoDeadline}
  BY <1>1 DEF WellTyped, PendingEntry
<1>11. ASSUME NEW other \in PendingIds(ss), ss.pending[other].deadline # NoDeadline,
              ss.pending[other].deadline <= ss.pending[id].deadline
       PROVE  other \in ids
  <2>1. now \in Nat
    BY SessionAssumption
  <2>2. /\ ss.pending[other].deadline \in Nat /\ ss.pending[id].deadline \in Nat
    BY <1>9, <1>10, <1>11
  <2>3. ss.pending[other].deadline <= now
    BY <1>9, <1>11, <2>1, <2>2
  <2> QED
    BY <1>9, <1>11, <2>3
<1> QED
  BY <1>5, <1>9, <1>11

\* Calls time out in the order of their deadlines, and a call without one
\* never does.
THEOREM TimeoutsFollowDeadlines == Spec => DeadlinesInOrder
<1> DEFINE InDeadlineOrder ==
        \A id, other \in PendingIds(session) :
            TimedOut(id) =>
                /\ session.pending[id].deadline # NoDeadline
                /\ /\ session.pending[other].deadline # NoDeadline
                   /\ session.pending[other].deadline <= session.pending[id].deadline
                   => other \notin PendingIds(session)'
<1>1. TypeOK /\ [Next]_vars => InDeadlineOrder
  <2> SUFFICES ASSUME TypeOK, [Next]_vars,
                      NEW id \in PendingIds(session), NEW other \in PendingIds(session),
                      TimedOut(id)
               PROVE  /\ session.pending[id].deadline # NoDeadline
                      /\ /\ session.pending[other].deadline # NoDeadline
                         /\ session.pending[other].deadline <= session.pending[id].deadline
                         => other \notin PendingIds(session')
    BY DEF PendingIds
  <2>1. WellFormed(session) /\ session.events \in Seq(SessionEvent)
    BY DEF TypeOK, WellFormed, WellTyped
  <2>2. PICK i \in DOMAIN session'.events \ DOMAIN session.events :
            /\ IsCompletion(session'.events[i]) /\ session'.events[i].id = id
            /\ session'.events[i].result = "timeout"
    BY DEF TimedOut
  <2>3. CASE TakeFrame
    <3>1. session'.events = session.events
      BY <2>3, TakeFrameTyped
    <3> QED
      BY <2>2, <3>1
  <2>4. CASE TakeEvent
    <3>1. session'.events = Tail(session.events) /\ session.events # <<>>
      BY <2>1, <2>4 DEF TakeEvent, PollEvent, WellFormed, WellTyped
    <3>2. DOMAIN session'.events \subseteq DOMAIN session.events
      BY <2>1, <3>1
    <3> QED
      BY <2>2, <3>2
  <2>5. CASE AccountsForCalls(session, session')
    <3>1. PICK p, q : Accounts(session, session', p, q)
      BY <2>5 DEF AccountsForCalls
    <3>2. p \in Seq(SessionEvent) /\ session'.events = session.events \o p
      BY <3>1 DEF Accounts
    <3>3. i - Len(session.events) \in DOMAIN p /\ session'.events[i] = p[i - Len(session.events)]
      BY <2>1, <2>2, <3>2
    <3>4. PICK now \in Nat : session' = HandleTimeout(session, now)
      BY <2>2, <3>1, <3>3 DEF Accounts
    <3> QED
      BY <2>1, <2>2, <3>4, TimeoutsInOrder
  <2> QED
    BY <2>3, <2>4, <2>5, StepAccounts
<1> QED
  BY <1>1, TypeCorrect, PTL DEF Spec, DeadlinesInOrder

----------------------------------------------------------------------------
(* The state of a call, from the pending ids and the two histories.        *)

Sends(wi, id) == \E j \in DOMAIN wi : IsCall(wi[j]) /\ wi[j].id = id

StateOf(ids, tr, wi, id) ==
    IF id \in ids THEN "open"
    ELSE IF Answers(tr, id) THEN "answered"
    ELSE IF Completes(tr, id) THEN "failed"
    ELSE IF Sends(wi, id) THEN "dropped"
    ELSE "idle"

\* Where completions are exclusive that is the state Session maps a call to.
LEMMA CallStateIs ==
    Exclusive(session, Trace) =>
        \A id : CallState(id) = StateOf(PendingIds(session), Trace, Wire, id)
<1> SUFFICES ASSUME Exclusive(session, Trace), NEW id
             PROVE  CallState(id) = StateOf(PendingIds(session), Trace, Wire, id)
  OBVIOUS
<1>1. Completes(Trace, id) <=> id \in Settled
  BY DEF Completes, Settled
<1>2. Sends(Wire, id) <=> id \in Issued
  BY DEF Sends, Issued
<1>3. id \in Settled => id \notin PendingIds(session)
  BY DEF Settled, Exclusive
<1>4. Answers(Trace, id) => Completes(Trace, id)
  BY DEF Answers, Completes
<1> QED
  BY <1>1, <1>2, <1>3, <1>4 DEF CallState, StateOf, Answers

\* From before to after, the states of call id: one that stays in the map
\* stays open, one that enters was idle, one that leaves moves as its event
\* says, and no other moves.
CallMoves(ss, tt, id, before, after, p) ==
    /\ id \in PendingIds(ss) <=> before = "open"
    /\ id \in PendingIds(tt) <=> after = "open"
    /\ id \notin PendingIds(ss) \cup PendingIds(tt) => after = before
    /\ id \in PendingIds(tt) \ PendingIds(ss) => before = "idle"
    /\ id \in PendingIds(ss) \ PendingIds(tt) =>
          after = IF Answers(p, id) THEN "answered"
                  ELSE IF Completes(p, id) THEN "failed" ELSE "dropped"

\* That is what a method call does to the state of a call.
LEMMA CallsMove ==
    ASSUME NEW ss, WellFormed(ss), NEW tt, WellFormed(tt),
           NEW tr \in Seq(SessionEvent), NEW wi \in Seq(OutgoingFrame),
           Exclusive(ss, tr), SentInOrder(ss, wi), Accounted(ss, tr, wi),
           NEW p, NEW q, Accounts(ss, tt, p, q),
           \A k \in PendingIds(tt) \ PendingIds(ss) : ss.nextId <= k,
           NEW id
    PROVE  CallMoves(ss, tt, id, StateOf(PendingIds(ss), tr, wi, id),
                     StateOf(PendingIds(tt), tr \o p, wi \o q, id), p)
<1> DEFINE events == tr \o p
           frames == wi \o q
<1>1. p \in Seq(SessionEvent) /\ q \in Seq(OutgoingFrame)
  BY DEF Accounts
<1>2. /\ \A i \in DOMAIN tr : i \in DOMAIN events /\ events[i] = tr[i]
      /\ \A i \in DOMAIN p : Len(tr) + i \in DOMAIN events /\ events[Len(tr) + i] = p[i]
      /\ \A i \in DOMAIN events :
            \/ i \in DOMAIN tr /\ events[i] = tr[i]
            \/ i - Len(tr) \in DOMAIN p /\ events[i] = p[i - Len(tr)]
  BY <1>1
<1>3. /\ \A j \in DOMAIN wi : j \in DOMAIN frames /\ frames[j] = wi[j]
      /\ \A j \in DOMAIN q : Len(wi) + j \in DOMAIN frames /\ frames[Len(wi) + j] = q[j]
      /\ \A j \in DOMAIN frames :
            \/ j \in DOMAIN wi /\ frames[j] = wi[j]
            \/ j - Len(wi) \in DOMAIN q /\ frames[j] = q[j - Len(wi)]
  BY <1>1
<1> HIDE DEF events, frames
<1>4. Completes(events, id) <=> Completes(tr, id) \/ Completes(p, id)
  BY <1>2 DEF Completes
<1>5. Answers(events, id) <=> Answers(tr, id) \/ Answers(p, id)
  BY <1>2 DEF Answers
<1>6. Sends(frames, id) <=> Sends(wi, id) \/ Sends(q, id)
  BY <1>3 DEF Sends
<1>7. (Answers(tr, id) => Completes(tr, id)) /\ (Answers(p, id) => Completes(p, id))
  BY DEF Answers, Completes
<1>8. Completes(p, id) => id \in PendingIds(ss)
  BY DEF Completes, Accounts
<1>9. Sends(q, id) => id \in PendingIds(tt)
  BY DEF Sends, Accounts
<1>10. Completes(tr, id) => id \in 1 .. ss.nextId - 1 /\ id \notin PendingIds(ss)
  BY DEF Completes, Exclusive
<1>11. Sends(wi, id) => id < ss.nextId
  BY DEF Sends, SentInOrder
<1>12. id \in PendingIds(ss) => Sends(wi, id)
  <2> SUFFICES ASSUME id \in PendingIds(ss) PROVE Sends(wi, id)
    OBVIOUS
  <2>1. PICK j \in DOMAIN wi : wi[j] = CallFrame(id, ss.pending[id].batch)
    BY DEF Accounted
  <2>2. IsCall(wi[j]) /\ wi[j].id = id
    BY <2>1 DEF CallFrame, IsCall
  <2> QED
    BY <2>2 DEF Sends
<1>13. id \in PendingIds(tt) \ PendingIds(ss) => ~Completes(tr, id) /\ ~Sends(wi, id)
  <2> SUFFICES ASSUME id \in PendingIds(tt) \ PendingIds(ss)
               PROVE  ~Completes(tr, id) /\ ~Sends(wi, id)
    OBVIOUS
  <2>1. ss.nextId <= id /\ id \in Nat /\ ss.nextId \in Nat
    BY DEF WellFormed, WellTyped
  <2> QED
    BY <1>10, <1>11, <2>1
<1>14. /\ id \notin PendingIds(ss) \cup PendingIds(tt) =>
            /\ ~Completes(p, id) /\ ~Answers(p, id) /\ ~Sends(q, id)
       /\ id \in PendingIds(ss) => ~Completes(tr, id) /\ ~Answers(tr, id)
  BY <1>7, <1>8, <1>9, <1>10
<1> QED
  BY <1>4, <1>5, <1>6, <1>7, <1>12, <1>13, <1>14 DEF CallMoves, StateOf, events, frames

----------------------------------------------------------------------------
(* The refinement.                                                         *)

\* The invariants the refinement rests on.
LedgerInv ==
    /\ TypeOK
    /\ Exclusive(session, Trace)
    /\ InOrderNow
    /\ Accounted(session, Trace, Wire)

\* The ledger before and after a step, in terms of Conn and StateOf.
LEMMA LedgerStates ==
    ASSUME LedgerInv, LedgerInv'
    PROVE  /\ ConnState = Conn(session) /\ ConnState' = Conn(session')
           /\ CallStates = [id \in CallIds |-> StateOf(PendingIds(session), Trace, Wire, id)]
           /\ CallStates' = [id \in CallIds |-> StateOf(PendingIds(session'), Trace', Wire', id)]
<1>1. /\ ConnState = Conn(session)
      /\ ConnState' = Conn(session')
  BY DEF ConnState, Conn
<1>2. \A id : CallState(id) = StateOf(PendingIds(session), Trace, Wire, id)
  BY CallStateIs DEF LedgerInv
<1>3. (Exclusive(session, Trace) =>
        \A id : CallState(id) = StateOf(PendingIds(session), Trace, Wire, id))'
  BY CallStateIs, PTL
<1>4. \A id : CallState(id)' = StateOf(PendingIds(session'), Trace', Wire', id)
  BY <1>3 DEF LedgerInv
<1> QED
  BY <1>1, <1>2, <1>4 DEF CallStates

\* A poll moves no entry of the ledger.
LEMMA PollsKeepLedger ==
    ASSUME LedgerInv, LedgerInv', TakeFrame \/ TakeEvent
    PROVE  UNCHANGED <<ConnState, CallStates>>
<1>1. /\ Trace' = Trace /\ Wire' = Wire /\ session'.phase = session.phase
      /\ session'.pending = session.pending
  BY PollsKeepHistories, PollsKeepPending DEF LedgerInv
<1>2. Conn(session') = Conn(session) /\ PendingIds(session') = PendingIds(session)
  BY <1>1 DEF Conn, PendingIds
<1> QED
  BY <1>1, <1>2, LedgerStates

\* A method call is one move of the ledger, or none.
LEMMA MovesKeepLedger ==
    ASSUME LedgerInv, LedgerInv', Sound(session, session'),
           AccountsForCalls(session, session'), UNCHANGED <<surfaced, sent>>
    PROVE  [Ledger!Next]_<<ConnState, CallStates>>
<1> DEFINE ids == PendingIds(session)
           left == PendingIds(session')
           before(id) == StateOf(ids, Trace, Wire, id)
           after(id) == StateOf(left, Trace', Wire', id)
<1>1. PICK p, q : Accounts(session, session', p, q)
  BY DEF AccountsForCalls
<1>2. /\ WellFormed(session) /\ WellFormed(session')
      /\ surfaced \in Seq(SessionEvent) /\ session.events \in Seq(SessionEvent)
      /\ sent \in Seq(OutgoingFrame) /\ session.outgoing \in Seq(OutgoingFrame)
  BY DEF LedgerInv, TypeOK, WellFormed, WellTyped
<1>3. Trace \in Seq(SessionEvent) /\ Wire \in Seq(OutgoingFrame)
  BY <1>2, ConcatProperties DEF Trace, Wire
<1>4. Trace' = Trace \o p /\ Wire' = Wire \o q
  <2>1. /\ p \in Seq(SessionEvent) /\ session'.events = session.events \o p
        /\ q \in Seq(OutgoingFrame) /\ session'.outgoing = session.outgoing \o q
    BY <1>1 DEF Accounts
  <2> QED
    BY <1>2, <2>1, HistoriesGrow
<1>5. \A k \in left \ ids : session.nextId <= k
  BY DEF Sound, Reports
<1>6. \A id : /\ id \in ids <=> before(id) = "open"
              /\ id \in left <=> after(id) = "open"
              /\ id \notin ids \cup left => after(id) = before(id)
              /\ id \in left \ ids => before(id) = "idle"
              /\ id \in ids \ left =>
                    after(id) = IF Answers(p, id) THEN "answered"
                                ELSE IF Completes(p, id) THEN "failed" ELSE "dropped"
  <2>1. /\ Exclusive(session, Trace) /\ SentInOrder(session, Wire)
        /\ Accounted(session, Trace, Wire)
    BY DEF LedgerInv, InOrderNow
  <2>2. \A k \in PendingIds(session') \ PendingIds(session) : session.nextId <= k
    BY <1>5
  <2> TAKE id
  <2>3. CallMoves(session, session', id, before(id), after(id), p)
    BY <1>1, <1>2, <1>3, <1>4, <2>1, <2>2, CallsMove
  <2> QED
    BY <2>3 DEF CallMoves
<1>7. /\ ConnState = Conn(session) /\ ConnState' = Conn(session')
      /\ CallStates = [id \in CallIds |-> before(id)]
      /\ CallStates' = [id \in CallIds |-> after(id)]
  BY LedgerStates
<1>8. Ledger!OpenCalls = CallIds \cap ids
  BY <1>6, <1>7 DEF Ledger!OpenCalls
<1> HIDE DEF before, after, ids, left
<1>9. CASE QuietMove(session, session')
  <2>1. left = ids
    BY <1>9 DEF QuietMove, ids, left
  <2>2. CallStates' = CallStates
    BY <1>6, <1>7, <2>1
  <2>3. \/ ConnState' = ConnState
        \/ ConnState = "opening" /\ ConnState' = "up"
    BY <1>7, <1>9 DEF QuietMove
  <2> QED
    BY <2>2, <2>3 DEF Ledger!Next, Ledger!Identify
<1>10. CASE IssueMove(session, session')
  <2> DEFINE new == session.nextId
  <2>1. left = ids \cup {new} /\ new \notin ids /\ ConnState = "up" /\ ConnState' = "up"
    BY <1>2, <1>7, <1>10 DEF IssueMove, ids, left, WellFormed, WellTyped
  <2> HIDE DEF new
  <2>2. /\ \A id \in CallIds : id # new => after(id) = before(id)
        /\ before(new) = "idle" /\ after(new) = "open"
    BY <1>6, <2>1
  <2>3. CASE new \in CallIds
    <3>1. CallStates[new] = "idle" /\ Ledger!Settle({new}, "open")
      BY <1>7, <2>2, <2>3 DEF Ledger!Settle
    <3>2. Ledger!Issue(new)
      BY <2>1, <3>1 DEF Ledger!Issue
    <3> QED
      BY <2>3, <3>2 DEF Ledger!Next
  <2>4. CASE new \notin CallIds
    BY <1>7, <2>1, <2>2, <2>4
  <2> QED
    BY <2>3, <2>4
<1>11. CASE AnswerMove(session, session', p)
  <2>1. PICK k \in ids : left = ids \ {k} /\ (Completes(p, k) => Answers(p, k))
    BY <1>11 DEF AnswerMove, ids, left
  <2>2. ConnState = "up" /\ ConnState' = "up"
    BY <1>7, <1>11 DEF AnswerMove
  <2>3. /\ \A id \in CallIds : id # k => after(id) = before(id)
        /\ after(k) \in {"answered", "dropped"}
    BY <1>6, <2>1
  <2>4. CASE k \in CallIds
    <3>1. Ledger!Settle({k}, "answered") \/ Ledger!Settle({k}, "dropped")
      BY <1>7, <2>3 DEF Ledger!Settle
    <3>2. Ledger!Answer(k)
      BY <1>8, <2>1, <2>2, <2>4, <3>1 DEF Ledger!Answer
    <3> QED
      BY <2>4, <3>2 DEF Ledger!Next
  <2>5. CASE k \notin CallIds
    BY <1>7, <2>2, <2>3, <2>5
  <2> QED
    BY <2>4, <2>5
<1>12. CASE FailMove(session, session', p)
  <2> DEFINE gone == CallIds \cap (ids \ left)
  <2>1. \A id \in ids \ left : after(id) = "failed"
    BY <1>6, <1>12 DEF FailMove, ids, left
  <2>2. left \subseteq ids
    BY <1>12 DEF FailMove, ids, left
  <2>3. Ledger!Settle(gone, "failed")
    <3>1. \A id \in CallIds : after(id) = IF id \in gone THEN "failed" ELSE before(id)
      BY <1>6, <2>1, <2>2
    <3> QED
      BY <1>7, <3>1 DEF Ledger!Settle
  <2>4. CASE ConnState = "up" /\ ConnState' = "up"
    <3>1. gone \in SUBSET Ledger!OpenCalls
      BY <1>8
    <3>2. Ledger!Expire(gone)
      BY <2>3, <2>4 DEF Ledger!Expire
    <3> QED
      BY <3>1, <3>2 DEF Ledger!Next
  <2>5. CASE ConnState' = "down" /\ left = {}
    <3>1. gone = Ledger!OpenCalls
      BY <1>8, <2>5
    <3>2. Ledger!Shut
      BY <2>3, <2>5, <3>1 DEF Ledger!Shut
    <3> QED
      BY <3>2 DEF Ledger!Next
  <2> QED
    BY <1>7, <1>12, <2>4, <2>5 DEF FailMove, left
<1> QED
  BY <1>1, <1>9, <1>10, <1>11, <1>12 DEF Accounts

\* Every way a call of a session ends is one move of one entry of the ledger,
\* and a close fails what is open in the step that closes.
THEOREM SessionImplementsLedger == Spec => ImplementsLedger
<1>1. Init => Ledger!Init
  <2> SUFFICES ASSUME Init PROVE Ledger!Init
    OBVIOUS
  <2>1. /\ session.events = <<>> /\ session.outgoing = <<>> /\ session.phase = "AwaitingHello"
        /\ PendingIds(session) = {}
    BY DEF Init, NewSession, PendingIds
  <2>2. Trace = <<>> /\ Wire = <<>>
    BY <2>1 DEF Init, Trace, Wire
  <2>3. Settled = {} /\ Issued = {}
    BY <2>2 DEF Settled, Issued
  <2>4. \A id : CallState(id) = "idle"
    BY <2>1, <2>3 DEF CallState
  <2> QED
    BY <2>1, <2>4 DEF Ledger!Init, CallStates, ConnState
<1>2. LedgerInv /\ LedgerInv' /\ [Next]_vars => [Ledger!Next]_<<ConnState, CallStates>>
  <2> SUFFICES ASSUME LedgerInv, LedgerInv', [Next]_vars
               PROVE  [Ledger!Next]_<<ConnState, CallStates>>
    OBVIOUS
  <2>1. CASE TakeFrame \/ TakeEvent
    BY <2>1, PollsKeepLedger
  <2>2. CASE ~(TakeFrame \/ TakeEvent)
    <3>1. /\ Sound(session, session') /\ AccountsForCalls(session, session')
          /\ UNCHANGED <<surfaced, sent>>
      BY <2>2, StepSound, StepAccounts DEF LedgerInv
    <3> QED
      BY <3>1, MovesKeepLedger
  <2> QED
    BY <2>1, <2>2
<1>3. Spec => []LedgerInv
  BY TypeCorrect, AlwaysExclusive, AlwaysInOrder, AlwaysAccounted, PTL DEF LedgerInv
<1> QED
  BY <1>1, <1>2, <1>3, PTL DEF Spec, ImplementsLedger, Ledger!Spec, Ledger!ledger

=============================================================================
