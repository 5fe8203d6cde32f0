-------------------------- MODULE StateCacheProofs --------------------------
(***************************************************************************)
(* Theorems about StateCache, for any settings and inputs of OBS, any      *)
(* number of changes and connections.                                      *)
(***************************************************************************)
EXTENDS StateCache, TLAPS, SequenceTheorems

USE StateCacheAssumption

----------------------------------------------------------------------------
(* The inductive invariant.                                                *)

Known == [of : Fields, changes : Nat]

AnswerItem == [of : Fields, changes : Nat, result : {"ok", "failed", "bare"}]

EventFrame == [kind : {"event"}, of : Fields, value : Known]

AnswerFrame == [kind : {"answer"}, step : 1 .. Len(Steps), items : Seq(AnswerItem)]

\* The field that item i of the answer to step n is about.
FieldAt(n, i) ==
    IF Steps[n] = Batch
    THEN IF i % 2 = 1 THEN Muted((i + 1) \div 2) ELSE Volume(i \div 2)
    ELSE Steps[n]

\* The items are the answer to step n.
Matches(n, items) == \A i \in DOMAIN items : items[i].of = FieldAt(n, i)

\* An event about f stands in s behind position i.
Follows(s, i, f) == \E j \in DOMAIN s : j > i /\ s[j].kind = "event" /\ s[j].of = f

\* An event about f stands anywhere in s.
Reports(s, f) == \E i \in DOMAIN s : s[i].kind = "event" /\ s[i].of = f

\* A driver that is away from OBS has neither frames nor an answer.
Typed ==
    /\ settings \in [Fields -> Nat]
    /\ link \in Seq(EventFrame \cup AnswerFrame)
    /\ step \in Nat \ {0}
    /\ open => step \in 1 .. Len(Steps)
    /\ reply \in [kind : {"none", "answer"}, items : Seq(AnswerItem)]
    /\ reply.kind = "answer" => step \in 1 .. Len(Steps) /\ Matches(step, reply.items)
    /\ reply.kind = "none" => reply.items = <<>>
    /\ DOMAIN cache = Fields
    /\ \A f \in Fields : cache[f] # None => cache[f] \in Known
    /\ fresh \subseteq Fields
    /\ ~up => link = <<>> /\ reply = NoReply

\* The last event about a field has its value; an answer has the values that
\* its fields had when it was sent, and events behind it have the later ones,
\* but for changes that no event tells of.
LinkCurrent(set, silent, s) ==
    \A i \in DOMAIN s :
        /\ s[i].kind = "event" =>
            /\ s[i].value.of = s[i].of
            /\ \/ s[i].value.changes = set[s[i].of]
               \/ Follows(s, i, s[i].of)
               \/ s[i].of \in silent
        /\ s[i].kind = "answer" =>
            /\ Matches(s[i].step, s[i].items)
            /\ \A k \in Good(s[i].items) :
                \/ s[i].items[k].changes = set[s[i].items[k].of]
                \/ Follows(s, i, s[i].items[k].of)
                \/ s[i].items[k].of \in silent

\* So has an answer that waits in its oneshot, unless it has been overtaken.
ReplyCurrent ==
    \A k \in Good(reply.items) :
        \/ reply.items[k].changes = settings[reply.items[k].of]
        \/ reply.items[k].of \in overtaken \cup untold
        \/ Reported(reply.items[k].of)

\* The two invariants of the run speak of the cache alone; what will be written
\* to it is still in the link or in the oneshot.
CacheInv ==
    /\ Typed
    /\ LinkCurrent(settings, untold, link)
    /\ ReplyCurrent
    /\ AgreesUnlessOvertaken
    /\ NothingMixedUp

----------------------------------------------------------------------------
(* The calls of snapshot().                                                *)

\* Each call reads a setting, but for those of the inputs.
LEMMA StepsType ==
    /\ Steps \in Seq(Fields \cup {List, Batch})
    /\ \A n \in 1 .. Len(Steps) : Steps[n] \in Fields \cup {List, Batch}
<1> DEFINE F == Fields \cup {List, Batch}
           b == [i \in DOMAIN Before |-> <<Before[i], "value">>]
           a == [i \in DOMAIN After |-> <<After[i], "value">>]
<1>1. b \in Seq(F)
  <2>1. Len(Before) \in Nat /\ DOMAIN Before = 1 .. Len(Before)
    OBVIOUS
  <2>2. \A i \in 1 .. Len(Before) : <<Before[i], "value">> \in F
    BY <2>1 DEF Fields, Names
  <2> HIDE DEF F
  <2> QED
    BY <2>1, <2>2
<1>2. a \in Seq(F)
  <2>1. Len(After) \in Nat /\ DOMAIN After = 1 .. Len(After)
    OBVIOUS
  <2>2. \A i \in 1 .. Len(After) : <<After[i], "value">> \in F
    BY <2>1 DEF Fields, Names
  <2> HIDE DEF F
  <2> QED
    BY <2>1, <2>2
<1>3. <<List, Batch>> \in Seq(F)
  OBVIOUS
<1>4. Steps = b \o <<List, Batch>> \o a
  BY DEF Steps
<1> HIDE DEF F, b, a
<1>5. Steps \in Seq(F)
  BY <1>1, <1>2, <1>3, <1>4
<1> QED
  BY <1>5 DEF F

\* OBS answers each call with the fields that snapshot() takes the answer for.
LEMMA AskedFields ==
    ASSUME step \in 1 .. Len(Steps)
    PROVE  /\ Asked \in Seq(Fields)
           /\ \A i \in DOMAIN Asked : Asked[i] = FieldAt(step, i)
<1>1. CASE Steps[step] = List
  <2>1. Steps[step] # Batch
    BY <1>1 DEF Batch, List
  <2>2. Asked = <<>>
    BY <1>1, <2>1 DEF Asked
  <2> QED
    BY <2>2
<1>2. CASE Steps[step] = Batch
  <2> DEFINE n == Len(Inputs)
  <2>0. n \in Nat /\ DOMAIN Inputs = 1 .. n
    OBVIOUS
  <2>1. Steps[step] # List
    BY <1>2 DEF Batch, List
  <2>2. Asked = [i \in 1 .. 2 * n |->
                    IF i % 2 = 1 THEN Muted((i + 1) \div 2) ELSE Volume(i \div 2)]
    BY <1>2, <2>1 DEF Asked
  <2>3. \A i \in 1 .. 2 * n : i % 2 = 1 => (i + 1) \div 2 \in 1 .. n
    BY <2>0
  <2>4. \A i \in 1 .. 2 * n : i % 2 # 1 => i \div 2 \in 1 .. n
    BY <2>0
  <2>5. \A i \in 1 .. n : Muted(i) \in Fields /\ Volume(i) \in Fields
    BY <2>0 DEF Fields, InputFields
  <2>6. \A i \in 1 .. 2 * n :
            (IF i % 2 = 1 THEN Muted((i + 1) \div 2) ELSE Volume(i \div 2)) \in Fields
    BY <2>3, <2>4, <2>5
  <2>7. 2 * n \in Nat
    BY <2>0
  <2> HIDE DEF n
  <2>8. Asked \in Seq(Fields) /\ DOMAIN Asked = 1 .. 2 * n
    BY <2>2, <2>6, <2>7
  <2> QED
    BY <1>2, <2>2, <2>8 DEF FieldAt
<1>3. CASE Steps[step] # List /\ Steps[step] # Batch
  <2>1. Asked = <<Steps[step]>>
    BY <1>3 DEF Asked
  <2>2. Steps[step] \in Fields
    BY <1>3, StepsType
  <2> QED
    BY <1>3, <2>1, <2>2 DEF FieldAt
<1> QED
  BY <1>1, <1>2, <1>3

----------------------------------------------------------------------------
(* Frames on the link.                                                     *)

\* What follows a frame goes on following it when the first frame leaves.
LEMMA TailCurrent ==
    ASSUME NEW set, NEW silent, NEW s \in Seq(EventFrame \cup AnswerFrame), s # <<>>,
           LinkCurrent(set, silent, s)
    PROVE  /\ Tail(s) \in Seq(EventFrame \cup AnswerFrame)
           /\ LinkCurrent(set, silent, Tail(s))
           /\ \A f : Follows(s, 1, f) <=> Reports(Tail(s), f)
           /\ \A f : Reports(s, f) <=>
                        Reports(Tail(s), f) \/ (s[1].kind = "event" /\ s[1].of = f)
<1> DEFINE t == Tail(s)
<1>1. /\ t \in Seq(EventFrame \cup AnswerFrame)
      /\ Len(s) \in Nat \ {0} /\ DOMAIN s = 1 .. Len(s)
      /\ Len(t) = Len(s) - 1 /\ DOMAIN t = 1 .. Len(t)
      /\ \A i \in DOMAIN t : t[i] = s[i + 1]
  OBVIOUS
<1> HIDE DEF t
<1>2. \A i \in DOMAIN s : i > 1 => i - 1 \in DOMAIN t /\ t[i - 1] = s[i]
  BY <1>1
<1>3. \A i \in DOMAIN t : i + 1 \in DOMAIN s
  BY <1>1
<1>4. \A f : \A i \in DOMAIN t : Follows(s, i + 1, f) => Follows(t, i, f)
  BY <1>1, <1>2 DEF Follows
<1>5. LinkCurrent(set, silent, t)
  <2> SUFFICES ASSUME NEW i \in DOMAIN t
               PROVE  /\ t[i].kind = "event" =>
                            /\ t[i].value.of = t[i].of
                            /\ \/ t[i].value.changes = set[t[i].of]
                               \/ Follows(t, i, t[i].of)
                               \/ t[i].of \in silent
                      /\ t[i].kind = "answer" =>
                            /\ Matches(t[i].step, t[i].items)
                            /\ \A k \in Good(t[i].items) :
                                \/ t[i].items[k].changes = set[t[i].items[k].of]
                                \/ Follows(t, i, t[i].items[k].of)
                                \/ t[i].items[k].of \in silent
    BY DEF LinkCurrent
  <2>1. i + 1 \in DOMAIN s /\ t[i] = s[i + 1]
    BY <1>1, <1>3
  <2>2. \A f : Follows(s, i + 1, f) => Follows(t, i, f)
    BY <1>4
  <2> QED
    BY <2>1, <2>2 DEF LinkCurrent
<1>6. \A i \in DOMAIN t : i + 1 > 1
  BY <1>1
<1>7. \A f : Follows(s, 1, f) <=> Reports(t, f)
  BY <1>1, <1>2, <1>3, <1>6 DEF Follows, Reports
<1>8. 1 \in DOMAIN s /\ \A i \in DOMAIN s : i = 1 \/ i > 1
  BY <1>1
<1>9. \A f : Reports(s, f) <=> Follows(s, 1, f) \/ (s[1].kind = "event" /\ s[1].of = f)
  BY <1>8 DEF Follows, Reports
<1> QED
  BY <1>1, <1>5, <1>7, <1>9 DEF t

\* What follows a frame still does when another is sent.
LEMMA AppendFollows ==
    ASSUME NEW s \in Seq(EventFrame \cup AnswerFrame), NEW m \in EventFrame \cup AnswerFrame
    PROVE  /\ Append(s, m) \in Seq(EventFrame \cup AnswerFrame)
           /\ DOMAIN Append(s, m) = DOMAIN s \cup {Len(s) + 1}
           /\ Len(s) + 1 \notin DOMAIN s
           /\ \A i \in DOMAIN s : Append(s, m)[i] = s[i]
           /\ Append(s, m)[Len(s) + 1] = m
           /\ \A i, f : Follows(s, i, f) => Follows(Append(s, m), i, f)
           /\ m.kind = "event" => \A i \in DOMAIN s : Follows(Append(s, m), i, m.of)
<1> DEFINE t == Append(s, m)
<1>1. /\ t \in Seq(EventFrame \cup AnswerFrame)
      /\ Len(s) \in Nat /\ DOMAIN s = 1 .. Len(s)
      /\ DOMAIN t = 1 .. Len(s) + 1
      /\ \A i \in DOMAIN s : t[i] = s[i]
      /\ t[Len(s) + 1] = m
  OBVIOUS
<1> HIDE DEF t
<1>2. DOMAIN t = DOMAIN s \cup {Len(s) + 1} /\ Len(s) + 1 \notin DOMAIN s
  BY <1>1
<1>3. \A i, f : Follows(s, i, f) => Follows(t, i, f)
  BY <1>1, <1>2 DEF Follows
<1>4. \A i \in DOMAIN s : Len(s) + 1 > i
  BY <1>1
<1>5. m.kind = "event" => \A i \in DOMAIN s : Follows(t, i, m.of)
  BY <1>1, <1>2, <1>4 DEF Follows
<1> QED
  BY <1>1, <1>2, <1>3, <1>5 DEF t

----------------------------------------------------------------------------
(* The invariant holds at the start and is kept by every action.           *)

\* The cache starts out in the invariant.
LEMMA InitCurrent == Init => CacheInv
<1> SUFFICES ASSUME Init PROVE CacheInv
  OBVIOUS
<1>1. DOMAIN link = {} /\ reply.items = <<>> /\ DOMAIN reply.items = {}
  BY DEF Init, NoReply
<1>2. Typed
  BY <1>1 DEF Init, Typed, NoReply
<1>3. LinkCurrent(settings, untold, link) /\ ReplyCurrent
  BY <1>1 DEF LinkCurrent, ReplyCurrent, Good
<1>4. AgreesUnlessOvertaken /\ NothingMixedUp
  BY DEF Init, AgreesUnlessOvertaken, NothingMixedUp
<1> QED
  BY <1>2, <1>3, <1>4 DEF CacheInv

\* A connection begins or ends.
LEMMA ConnectionsKeep ==
    ASSUME CacheInv, Connect \/ Disconnect
    PROVE  CacheInv'
<1>1. link' = <<>> /\ reply' = NoReply /\ settings' = settings /\ cache' = cache
  BY DEF Connect, Disconnect
<1>2. DOMAIN link' = {} /\ DOMAIN reply'.items = {}
  BY <1>1 DEF NoReply
<1>3. 1 \in 1 .. Len(Steps)
  <2>1. Len(Steps) \in Nat /\ Len(Steps) # 0
    <3> DEFINE b == [i \in DOMAIN Before |-> <<Before[i], "value">>]
               a == [i \in DOMAIN After |-> <<After[i], "value">>]
    <3>1. Len(b) \in Nat /\ Len(a) \in Nat /\ Steps = b \o <<List, Batch>> \o a
      BY DEF Steps
    <3> QED
      BY <3>1, StepsType
  <2> QED
    BY <2>1
<1>4. Typed'
  BY <1>1, <1>3 DEF CacheInv, Typed, Connect, Disconnect, NoReply, histories
<1>5. LinkCurrent(settings, untold, link)' /\ ReplyCurrent'
  BY <1>2 DEF LinkCurrent, ReplyCurrent, Good
<1>6. AgreesUnlessOvertaken'
  BY DEF AgreesUnlessOvertaken, Connect, Disconnect
<1>7. NothingMixedUp'
  BY <1>1 DEF NothingMixedUp, CacheInv
<1> QED
  BY <1>4, <1>5, <1>6, <1>7 DEF CacheInv

\* The driver reads a frame.
LEMMA FrameKeeps ==
    ASSUME CacheInv, Frame
    PROVE  CacheInv'
<1> DEFINE m == Head(link)
<1>0. /\ up /\ link # <<>> /\ link' = Tail(link) /\ 1 \in DOMAIN link /\ m = link[1]
      /\ m \in EventFrame \cup AnswerFrame
      /\ settings' = settings /\ untold' = untold /\ up' = up /\ step' = step /\ open' = open
  BY DEF Frame, CacheInv, Typed
<1>a. m.kind = "event" =>
        /\ cache' = [cache EXCEPT ![m.of] = m.value]
        /\ fresh' = fresh \cup {m.of}
        /\ reply' = reply
        /\ reply.kind = "none" => overtaken' = overtaken \ {m.of}
        /\ reply.kind # "none" =>
                overtaken' = overtaken \cup
                    {f \in {m.of} : \E i \in DOMAIN reply.items : reply.items[i].of = f}
  BY DEF Frame, Apply
<1>b. m.kind # "event" =>
        /\ cache' = cache /\ fresh' = fresh /\ overtaken' = overtaken
        /\ m.step = step => reply' = [kind |-> "answer", items |-> m.items]
        /\ m.step # step => reply' = reply
  BY DEF Frame, Answers
<1> HIDE DEF m
<1>c. \A f : (Reported(f) <=> Reports(link, f)) /\ (Reported(f)' <=> Reports(link', f))
  BY DEF Reported, Reports
<1>d. link \in Seq(EventFrame \cup AnswerFrame) /\ LinkCurrent(settings, untold, link)
  BY DEF CacheInv, Typed
<1>1. /\ link' \in Seq(EventFrame \cup AnswerFrame)
      /\ LinkCurrent(settings, untold, link')
      /\ \A f : Follows(link, 1, f) <=> Reports(link', f)
      /\ \A f : Reports(link, f) <=> Reports(link', f) \/ (link[1].kind = "event" /\ link[1].of = f)
  BY <1>0, <1>d, TailCurrent
<1>2. \A f : Reported(f) <=> Reported(f)' \/ (m.kind = "event" /\ m.of = f)
  BY <1>0, <1>1, <1>c
<1>e. /\ m.kind = "event" =>
            /\ m.value.of = m.of
            /\ m.value.changes = settings[m.of] \/ Reports(link', m.of) \/ m.of \in untold
      /\ m.kind = "answer" =>
            /\ Matches(m.step, m.items)
            /\ \A k \in Good(m.items) :
                \/ m.items[k].changes = settings[m.items[k].of]
                \/ Reports(link', m.items[k].of)
                \/ m.items[k].of \in untold
  <2>1. m.kind = "event" =>
            /\ m.value.of = m.of
            /\ m.value.changes = settings[m.of] \/ Follows(link, 1, m.of) \/ m.of \in untold
    BY <1>0, <1>d DEF LinkCurrent
  <2>2. m.kind = "answer" =>
            /\ Matches(m.step, m.items)
            /\ \A k \in Good(m.items) :
                \/ m.items[k].changes = settings[m.items[k].of]
                \/ Follows(link, 1, m.items[k].of)
                \/ m.items[k].of \in untold
    BY <1>0, <1>d DEF LinkCurrent
  <2> QED
    BY <1>1, <2>1, <2>2
<1>3. CASE m.kind = "event"
  <2>1. m \in EventFrame
    BY <1>0, <1>3 DEF AnswerFrame
  <2>2. /\ cache' = [cache EXCEPT ![m.of] = m.value]
        /\ fresh' = fresh \cup {m.of}
        /\ reply' = reply
        /\ reply.kind = "none" => overtaken' = overtaken \ {m.of}
        /\ reply.kind # "none" =>
                overtaken' = overtaken \cup
                    {f \in {m.of} : \E i \in DOMAIN reply.items : reply.items[i].of = f}
    BY <1>3, <1>a
  <2>3. /\ m.of \in Fields /\ m.value \in Known
        /\ m.value.of = m.of
        /\ m.value.changes = settings[m.of] \/ Reports(link', m.of) \/ m.of \in untold
    BY <1>3, <1>e, <2>1 DEF EventFrame
  <2>4. DOMAIN cache = Fields /\ DOMAIN cache' = Fields
    BY <2>2 DEF CacheInv, Typed
  <2>5. Typed'
    BY <1>0, <1>1, <2>2, <2>3, <2>4 DEF CacheInv, Typed
  <2>6. ReplyCurrent'
    <3> SUFFICES ASSUME NEW k \in Good(reply.items)
                 PROVE  \/ reply.items[k].changes = settings[reply.items[k].of]
                        \/ reply.items[k].of \in overtaken' \cup untold
                        \/ Reports(link', reply.items[k].of)
      BY <1>0, <1>c, <2>2 DEF ReplyCurrent, Reported, Reports
    <3>1. reply.kind # "none" /\ k \in DOMAIN reply.items
      BY DEF CacheInv, Typed, Good
    <3> QED
      BY <1>2, <1>c, <2>2, <3>1 DEF CacheInv, ReplyCurrent
  <2>7. AgreesUnlessOvertaken'
    <3> SUFFICES ASSUME NEW f \in fresh' \ (overtaken' \cup untold), ~Reported(f)'
                 PROVE  cache'[f] = Value(f)'
      BY <1>0 DEF AgreesUnlessOvertaken
    <3>1. CASE f = m.of
      <4>1. cache'[f] = m.value
        BY <2>2, <2>3, <2>4, <3>1
      <4>2. m.value.changes = settings'[f] /\ m.value.of = f
        BY <1>0, <1>c, <2>3, <3>1
      <4>3. m.value = [of |-> m.value.of, changes |-> m.value.changes]
        BY <2>3 DEF Known
      <4> QED
        BY <4>1, <4>2, <4>3 DEF Value
    <3>2. CASE f # m.of
      <4>1. f \in fresh \ (overtaken \cup untold) /\ ~Reported(f) /\ f \in Fields
        BY <1>2, <2>2, <3>2 DEF CacheInv, Typed
      <4> QED
        BY <1>0, <2>2, <2>4, <3>2, <4>1 DEF CacheInv, AgreesUnlessOvertaken, Value
    <3> QED
      BY <3>1, <3>2
  <2>8. NothingMixedUp'
    BY <2>2, <2>3, <2>4 DEF CacheInv, NothingMixedUp
  <2> QED
    BY <1>0, <1>1, <2>5, <2>6, <2>7, <2>8 DEF CacheInv
<1>4. CASE m.kind # "event"
  <2>1. m \in AnswerFrame /\ m.kind = "answer"
    BY <1>0, <1>4 DEF EventFrame, AnswerFrame
  <2>2. /\ cache' = cache /\ fresh' = fresh /\ overtaken' = overtaken
        /\ m.step = step => reply' = [kind |-> "answer", items |-> m.items]
        /\ m.step # step => reply' = reply
    BY <1>4, <1>b
  <2>3. \A f : Reported(f)' <=> Reported(f)
    BY <1>2, <1>4
  <2>4. m.items \in Seq(AnswerItem) /\ m.step \in 1 .. Len(Steps)
    BY <2>1 DEF AnswerFrame
  <2>5. /\ Matches(m.step, m.items)
        /\ \A k \in Good(m.items) :
            \/ m.items[k].changes = settings[m.items[k].of]
            \/ Reports(link', m.items[k].of)
            \/ m.items[k].of \in untold
    BY <1>e, <2>1
  <2>6. Typed'
    BY <1>0, <1>1, <2>2, <2>4, <2>5 DEF CacheInv, Typed
  <2>7. ReplyCurrent'
    <3>1. CASE m.step = step
      <4>1. reply'.items = m.items
        BY <2>2, <3>1
      <4>2. \A k \in Good(reply'.items) :
                \/ reply'.items[k].changes = settings'[reply'.items[k].of]
                \/ Reports(link', reply'.items[k].of)
                \/ reply'.items[k].of \in untold'
        BY <1>0, <2>5, <4>1
      <4> QED
        BY <4>2 DEF ReplyCurrent, Reported, Reports
    <3>2. CASE m.step # step
      BY <1>0, <2>2, <2>3, <3>2 DEF CacheInv, ReplyCurrent
    <3> QED
      BY <3>1, <3>2
  <2>8. AgreesUnlessOvertaken' /\ NothingMixedUp'
    BY <1>0, <2>2, <2>3 DEF CacheInv, AgreesUnlessOvertaken, NothingMixedUp, Value
  <2> QED
    BY <1>0, <1>1, <2>6, <2>7, <2>8 DEF CacheInv
<1> QED
  BY <1>3, <1>4

\* The snapshot writes the answer in its oneshot.
LEMMA OwnReplyKeeps ==
    ASSUME CacheInv, OwnReply
    PROVE  CacheInv'
<1> DEFINE good == Good(reply.items)
           written == {ItemField(i) : i \in good}
           blank == {ItemField(i) : i \in Blank(reply.items)}
           value(f) == reply.items[CHOOSE i \in good : ItemField(i) = f]
<1>1. /\ up /\ reply.kind = "answer"
      /\ cache' = [f \in Fields |->
                      IF f \in written
                      THEN [of |-> value(f).of, changes |-> value(f).changes]
                      ELSE IF f \in blank THEN None ELSE cache[f]]
      /\ fresh' = (fresh \ blank) \cup written
      /\ step' = step + 1 /\ open' = (step < Len(Steps)) /\ reply' = NoReply
      /\ UNCHANGED <<settings, link, up, overtaken, untold>>
  BY DEF OwnReply, NextStep
<1>2. /\ step \in 1 .. Len(Steps) /\ Len(Steps) \in Nat
      /\ \A i \in good : i \in DOMAIN reply.items /\ reply.items[i] \in AnswerItem
                            /\ ItemField(i) = reply.items[i].of
  BY <1>1, StepsType DEF CacheInv, Typed, Good, Matches, ItemField, FieldAt
<1>3. written \subseteq Fields
  BY <1>2 DEF AnswerItem
<1>4. \A f \in written : \E i \in good : value(f) = reply.items[i] /\ reply.items[i].of = f
  <2> SUFFICES ASSUME NEW f \in written
               PROVE  \E i \in good : value(f) = reply.items[i] /\ reply.items[i].of = f
    OBVIOUS
  <2>1. \E i \in good : ItemField(i) = f
    OBVIOUS
  <2>2. (CHOOSE i \in good : ItemField(i) = f) \in good
    BY <2>1
  <2>3. ItemField(CHOOSE i \in good : ItemField(i) = f) = f
    BY <2>1
  <2> QED
    BY <1>2, <2>2, <2>3
<1> HIDE DEF written, value, blank
<1>5. Typed'
  <2>0. open' => step < Len(Steps)
    BY <1>1, Zenon
  <2>1. step' \in Nat \ {0} /\ (open' => step' \in 1 .. Len(Steps))
    BY <1>1, <1>2, <2>0
  <2>2. reply' \in [kind : {"none", "answer"}, items : Seq(AnswerItem)]
    BY <1>1 DEF NoReply
  <2>3. DOMAIN cache' = Fields
    BY <1>1
  <2>4. ASSUME NEW f \in Fields, cache'[f] # None
        PROVE  cache'[f] \in Known
    <3>1. CASE f \in written
      <4>1. PICK i \in good : value(f) = reply.items[i] /\ reply.items[i].of = f
        BY <1>4, <3>1
      <4>2. reply.items[i] \in AnswerItem
        BY <1>2
      <4>3. value(f).of \in Fields /\ value(f).changes \in Nat
        BY <4>1, <4>2 DEF AnswerItem
      <4> QED
        BY <1>1, <3>1, <4>3 DEF Known
    <3>2. CASE f \notin written
      BY <1>1, <2>4, <3>2 DEF CacheInv, Typed
    <3> QED
      BY <3>1, <3>2
  <2> QED
    BY <1>1, <1>3, <2>1, <2>2, <2>3, <2>4 DEF CacheInv, Typed, NoReply
<1>6. LinkCurrent(settings, untold, link)'
  BY <1>1 DEF CacheInv
<1>7. DOMAIN reply'.items = {}
  BY <1>1 DEF NoReply
<1>8. ReplyCurrent'
  BY <1>7 DEF ReplyCurrent, Good
<1>9. \A f : Reported(f)' <=> Reported(f)
  BY <1>1 DEF Reported
<1>10. AgreesUnlessOvertaken'
  <2> SUFFICES ASSUME NEW f \in fresh' \ (overtaken' \cup untold'), ~Reported(f)'
               PROVE  cache'[f] = Value(f)'
    BY DEF AgreesUnlessOvertaken
  <2>1. f \in Fields
    BY <1>1, <1>3 DEF CacheInv, Typed
  <2>2. CASE f \in written
    <3>1. PICK i \in good : value(f) = reply.items[i] /\ reply.items[i].of = f
      BY <1>4, <2>2
    <3>2. reply.items[i].changes = settings[f]
      BY <1>1, <1>9, <3>1 DEF CacheInv, ReplyCurrent
    <3> QED
      BY <1>1, <2>1, <2>2, <3>1, <3>2 DEF Value
  <2>3. CASE f \notin written
    BY <1>1, <1>9, <2>1, <2>3 DEF CacheInv, AgreesUnlessOvertaken, Value
  <2> QED
    BY <2>2, <2>3
<1>11. NothingMixedUp'
  <2> SUFFICES ASSUME NEW f \in Fields, cache'[f] # None
               PROVE  cache'[f].of = f
    BY DEF NothingMixedUp
  <2>1. CASE f \in written
    BY <1>1, <1>4, <2>1
  <2>2. CASE f \notin written
    BY <1>1, <2>2 DEF CacheInv, NothingMixedUp
  <2> QED
    BY <2>1, <2>2
<1> QED
  BY <1>5, <1>6, <1>8, <1>10, <1>11 DEF CacheInv

\* The snapshot goes on without an answer.
LEMMA TolerateKeeps ==
    ASSUME CacheInv, Tolerate
    PROVE  CacheInv'
<1>1. /\ up /\ step <= Len(Steps) /\ reply.kind = "none"
      /\ UNCHANGED <<settings, link, up, cache, fresh, overtaken, untold>>
      /\ reply' = reply \/ reply' = NoReply
  BY DEF Tolerate, NextStep, histories
<1>2. reply.items = <<>> /\ reply'.items = <<>> /\ reply'.kind = "none"
  BY <1>1 DEF CacheInv, Typed, NoReply
<1>3. step \in 1 .. Len(Steps) /\ Len(Steps) \in Nat
  BY <1>1, StepsType DEF CacheInv, Typed
<1>4. \/ step' = step + 1 /\ open' = (step < Len(Steps))
      \/ step' = step + 2 /\ open' = (step + 1 < Len(Steps))
  BY DEF Tolerate, NextStep
<1>5. step' \in Nat \ {0} /\ (open' => step' \in 1 .. Len(Steps))
  <2>1. \/ step' = step + 1 /\ (open' => step < Len(Steps))
        \/ step' = step + 2 /\ (open' => step + 1 < Len(Steps))
    BY <1>4, Zenon
  <2> QED
    BY <1>3, <2>1
<1>6. reply' \in [kind : {"none", "answer"}, items : Seq(AnswerItem)]
  BY <1>1 DEF CacheInv, Typed, NoReply
<1>7. Typed'
  BY <1>1, <1>2, <1>5, <1>6 DEF CacheInv, Typed
<1>8. DOMAIN reply'.items = {}
  BY <1>2
<1>9. ReplyCurrent' /\ LinkCurrent(settings, untold, link)'
  BY <1>1, <1>8 DEF CacheInv, ReplyCurrent, Good
<1>10. AgreesUnlessOvertaken' /\ NothingMixedUp'
  BY <1>1 DEF CacheInv, AgreesUnlessOvertaken, NothingMixedUp, Value, Reported
<1> QED
  BY <1>7, <1>9, <1>10 DEF CacheInv

\* What an item that has not failed is about.
LEMMA GoodItems ==
    ASSUME NEW items \in Seq(AnswerItem), NEW k \in Good(items)
    PROVE  items[k].of \in Fields
<1>1. k \in DOMAIN items
  BY DEF Good
<1>2. items[k] \in AnswerItem
  BY <1>1
<1> QED
  BY <1>2 DEF AnswerItem

\* What frames on the link are about.
LEMMA OnLink ==
    ASSUME Typed, NEW i \in DOMAIN link
    PROVE  /\ link[i].kind = "event" => link[i].of \in Fields
           /\ link[i].kind = "answer" =>
                \A k \in Good(link[i].items) : link[i].items[k].of \in Fields
<1>1. link[i] \in EventFrame \cup AnswerFrame
  BY DEF Typed
<1>2. link[i].kind = "event" => link[i].of \in Fields
  BY <1>1 DEF EventFrame, AnswerFrame
<1>3. link[i].kind = "answer" => link[i].items \in Seq(AnswerItem)
  BY <1>1 DEF EventFrame, AnswerFrame
<1> QED
  BY <1>2, <1>3, GoodItems

\* A setting of OBS changes, and an event says so.
LEMMA ToldKeeps ==
    ASSUME CacheInv, NEW f \in Fields, Change(f), up, f \in subscribed
    PROVE  CacheInv'
<1> DEFINE m == [kind |-> "event", of |-> f,
                 value |-> [of |-> f, changes |-> settings[f] + 1]]
<1>1. /\ settings \in [Fields -> Nat]
      /\ settings' = [settings EXCEPT ![f] = settings[f] + 1]
      /\ link' = Append(link, m) /\ untold' = untold \ {f}
      /\ UNCHANGED <<up, step, open, reply, cache, fresh, overtaken>>
  BY DEF Change, CacheInv, Typed
<1>2. /\ settings' \in [Fields -> Nat]
      /\ \A g \in Fields : g # f => settings'[g] = settings[g] /\ (g \in untold => g \in untold')
  BY <1>1
<1>3. settings'[f] = settings[f] + 1
  BY <1>1
<1>4. m \in EventFrame /\ m.kind = "event" /\ m.of = f /\ m.value.of = f
        /\ m.value.changes = settings'[f]
  BY <1>1, <1>3 DEF EventFrame, Known
<1>5. link \in Seq(EventFrame \cup AnswerFrame)
  BY DEF CacheInv, Typed
<1> HIDE DEF m
<1> DEFINE n == Len(link) + 1
<1>6. /\ link' \in Seq(EventFrame \cup AnswerFrame)
      /\ DOMAIN link' = DOMAIN link \cup {n} /\ n \notin DOMAIN link
      /\ \A i \in DOMAIN link : link'[i] = link[i]
      /\ link'[n] = m
      /\ \A i, g : Follows(link, i, g) => Follows(link', i, g)
      /\ \A i \in DOMAIN link : Follows(link', i, f)
  <2>1. /\ Append(link, m) \in Seq(EventFrame \cup AnswerFrame)
        /\ DOMAIN Append(link, m) = DOMAIN link \cup {n} /\ n \notin DOMAIN link
        /\ \A i \in DOMAIN link : Append(link, m)[i] = link[i]
        /\ Append(link, m)[n] = m
        /\ \A i, g : Follows(link, i, g) => Follows(Append(link, m), i, g)
        /\ m.kind = "event" => \A i \in DOMAIN link : Follows(Append(link, m), i, m.of)
    BY <1>4, <1>5, AppendFollows
  <2> QED
    BY <1>1, <1>4, <2>1
<1> HIDE DEF n
<1>7. Reports(link', f) /\ \A g : Reports(link, g) => Reports(link', g)
  BY <1>4, <1>6 DEF Reports
<1>8. Typed'
  BY <1>1, <1>2, <1>6 DEF CacheInv, Typed
<1>9. LinkCurrent(settings', untold', link')
  <2> SUFFICES ASSUME NEW i \in DOMAIN link'
               PROVE  /\ link'[i].kind = "event" =>
                          /\ link'[i].value.of = link'[i].of
                          /\ \/ link'[i].value.changes = settings'[link'[i].of]
                             \/ Follows(link', i, link'[i].of)
                             \/ link'[i].of \in untold'
                      /\ link'[i].kind = "answer" =>
                          /\ Matches(link'[i].step, link'[i].items)
                          /\ \A k \in Good(link'[i].items) :
                              \/ link'[i].items[k].changes = settings'[link'[i].items[k].of]
                              \/ Follows(link', i, link'[i].items[k].of)
                              \/ link'[i].items[k].of \in untold'
    BY DEF LinkCurrent
  <2>1. CASE i = n
    BY <1>4, <1>6, <2>1
  <2>2. CASE i \in DOMAIN link
    <3>1. link'[i] = link[i] /\ link[i] \in EventFrame \cup AnswerFrame
      BY <1>5, <1>6, <2>2
    <3>2. CASE link[i].kind = "event"
      <4>1. /\ link[i].value.of = link[i].of
            /\ \/ link[i].value.changes = settings[link[i].of]
               \/ Follows(link, i, link[i].of)
               \/ link[i].of \in untold
        BY <2>2, <3>2 DEF CacheInv, LinkCurrent
      <4>2. link[i].of \in Fields
        BY <3>1, <3>2 DEF EventFrame, AnswerFrame
      <4> QED
        BY <1>2, <1>6, <2>2, <3>1, <3>2, <4>1, <4>2
    <3>3. CASE link[i].kind = "answer"
      <4>1. /\ Matches(link[i].step, link[i].items)
            /\ \A k \in Good(link[i].items) :
                  \/ link[i].items[k].changes = settings[link[i].items[k].of]
                  \/ Follows(link, i, link[i].items[k].of)
                  \/ link[i].items[k].of \in untold
        BY <2>2, <3>3 DEF CacheInv, LinkCurrent
      <4>2. \A k \in Good(link[i].items) : link[i].items[k].of \in Fields
        <5>1. link[i].items \in Seq(AnswerItem)
          BY <3>1, <3>3 DEF EventFrame, AnswerFrame
        <5> QED
          BY <5>1, GoodItems
      <4>3. \A k \in Good(link[i].items) :
                  \/ link[i].items[k].changes = settings'[link[i].items[k].of]
                  \/ Follows(link', i, link[i].items[k].of)
                  \/ link[i].items[k].of \in untold'
        BY <1>2, <1>6, <2>2, <4>1, <4>2
      <4> QED
        BY <3>1, <3>3, <4>1, <4>3
    <3> QED
      BY <3>1, <3>2, <3>3
  <2> QED
    BY <1>6, <2>1, <2>2
<1>10. ReplyCurrent'
  <2> SUFFICES ASSUME NEW k \in Good(reply.items)
               PROVE  \/ reply.items[k].changes = settings'[reply.items[k].of]
                      \/ reply.items[k].of \in overtaken \cup untold'
                      \/ Reports(link', reply.items[k].of)
    BY <1>1 DEF ReplyCurrent, Reported, Reports
  <2>1. reply.items[k].of \in Fields
    BY GoodItems DEF CacheInv, Typed
  <2>2. \/ reply.items[k].changes = settings[reply.items[k].of]
        \/ reply.items[k].of \in overtaken \cup untold
        \/ Reports(link, reply.items[k].of)
    BY DEF CacheInv, ReplyCurrent, Reported, Reports
  <2> QED
    BY <1>2, <1>7, <2>1, <2>2
<1>11. AgreesUnlessOvertaken'
  <2> SUFFICES ASSUME NEW g \in fresh \ (overtaken \cup untold'), ~Reports(link', g)
               PROVE  cache[g] = [of |-> g, changes |-> settings'[g]]
    BY <1>1 DEF AgreesUnlessOvertaken, Reported, Reports, Value
  <2>1. g \in Fields /\ g # f /\ ~Reports(link, g) /\ g \notin untold
    BY <1>1, <1>7 DEF CacheInv, Typed
  <2>2. cache[g] = [of |-> g, changes |-> settings[g]]
    BY <2>1 DEF CacheInv, AgreesUnlessOvertaken, Reported, Reports, Value
  <2> QED
    BY <1>2, <2>1, <2>2
<1>12. NothingMixedUp'
  BY <1>1 DEF CacheInv, NothingMixedUp
<1> QED
  BY <1>8, <1>9, <1>10, <1>11, <1>12 DEF CacheInv

\* A setting changes and no event says so: it is not looked for, it is ignored, or
\* there is no connection.
LEMMA UntoldKeeps ==
    ASSUME CacheInv, NEW f \in Fields,
           settings' = [settings EXCEPT ![f] = @ + 1], untold' = untold \cup {f},
           UNCHANGED <<link, up, step, open, reply, cache, fresh, overtaken>>
    PROVE  CacheInv'
<1>1. /\ settings \in [Fields -> Nat] /\ settings' \in [Fields -> Nat]
      /\ \A g \in Fields : g \in untold' \/ settings'[g] = settings[g]
      /\ \A g : g \in untold => g \in untold'
  <2>1. settings \in [Fields -> Nat]
    BY DEF CacheInv, Typed
  <2> QED
    BY <2>1
<1>2. Typed'
  BY <1>1 DEF CacheInv, Typed
<1>3. LinkCurrent(settings', untold', link')
  <2> SUFFICES ASSUME NEW i \in DOMAIN link
               PROVE  /\ link[i].kind = "event" =>
                            /\ link[i].value.of = link[i].of
                            /\ \/ link[i].value.changes = settings'[link[i].of]
                               \/ Follows(link, i, link[i].of)
                               \/ link[i].of \in untold'
                      /\ link[i].kind = "answer" =>
                            /\ Matches(link[i].step, link[i].items)
                            /\ \A k \in Good(link[i].items) :
                                \/ link[i].items[k].changes = settings'[link[i].items[k].of]
                                \/ Follows(link, i, link[i].items[k].of)
                                \/ link[i].items[k].of \in untold'
    BY DEF LinkCurrent
  <2>1. /\ link[i].kind = "event" => link[i].of \in Fields
        /\ link[i].kind = "answer" => \A k \in Good(link[i].items) : link[i].items[k].of \in Fields
    BY OnLink DEF CacheInv
  <2>2. link[i].kind = "event" =>
            /\ link[i].value.of = link[i].of
            /\ \/ link[i].value.changes = settings[link[i].of]
               \/ Follows(link, i, link[i].of)
               \/ link[i].of \in untold
    BY DEF CacheInv, LinkCurrent
  <2>3. link[i].kind = "answer" =>
            /\ Matches(link[i].step, link[i].items)
            /\ \A k \in Good(link[i].items) :
                  \/ link[i].items[k].changes = settings[link[i].items[k].of]
                  \/ Follows(link, i, link[i].items[k].of)
                  \/ link[i].items[k].of \in untold
    BY DEF CacheInv, LinkCurrent
  <2> QED
    BY <1>1, <2>1, <2>2, <2>3
<1>4. ReplyCurrent'
  <2> SUFFICES ASSUME NEW k \in Good(reply.items)
               PROVE  \/ reply.items[k].changes = settings'[reply.items[k].of]
                      \/ reply.items[k].of \in overtaken \cup untold'
                      \/ Reported(reply.items[k].of)
    BY DEF ReplyCurrent, Reported
  <2>1. reply.items[k].of \in Fields
    BY GoodItems DEF CacheInv, Typed
  <2> QED
    BY <1>1, <2>1 DEF CacheInv, ReplyCurrent
<1>5. AgreesUnlessOvertaken'
  <2> SUFFICES ASSUME up, NEW g \in fresh \ (overtaken \cup untold'), ~Reported(g)
               PROVE  cache[g] = [of |-> g, changes |-> settings'[g]]
    BY DEF AgreesUnlessOvertaken, Reported, Value
  <2>1. g \in Fields /\ g \notin untold
    BY <1>1 DEF CacheInv, Typed
  <2> QED
    BY <1>1, <2>1 DEF CacheInv, AgreesUnlessOvertaken, Value
<1>6. NothingMixedUp'
  BY DEF CacheInv, NothingMixedUp
<1> QED
  BY <1>2, <1>3, <1>4, <1>5, <1>6 DEF CacheInv

\* A setting of OBS changes.
LEMMA ChangeKeeps ==
    ASSUME CacheInv, NEW f \in Fields, Change(f)
    PROVE  CacheInv'
<1>1. CASE up /\ f \in subscribed
  BY <1>1, ToldKeeps
<1>2. CASE ~(up /\ f \in subscribed)
  BY <1>2, UntoldKeeps DEF Change
<1> QED
  BY <1>1, <1>2

\* A name changes by an event that apply() does not read.
LEMMA RenameKeeps ==
    ASSUME CacheInv, NEW f \in Named, Rename(f)
    PROVE  CacheInv'
BY UntoldKeeps, NamedAssumption DEF Rename

\* The application asks for other events.
LEMMA ReidentifyKeeps ==
    ASSUME CacheInv, NEW filter \in Filters, Reidentify(filter)
    PROVE  CacheInv'
<1>1. UNCHANGED <<settings, link, up, step, open, reply, cache, fresh, overtaken, untold>>
  BY DEF Reidentify, histories
<1> QED
  BY <1>1 DEF CacheInv, Typed, LinkCurrent, Follows, Good, Matches, ReplyCurrent, Reported,
              AgreesUnlessOvertaken, NothingMixedUp, Value

\* OBS answers the call of the snapshot.
LEMMA AnswerKeeps ==
    ASSUME CacheInv, NEW bad \in Nat, NEW result \in {"failed", "bare"}, Answer(bad, result)
    PROVE  CacheInv'
<1> DEFINE items == [i \in DOMAIN Asked |-> Item(Asked[i], IF i = bad THEN result ELSE "ok")]
           m == [kind |-> "answer", step |-> step, items |-> items]
           n == Len(link) + 1
<1>1. /\ up /\ open /\ ~open'
      /\ link' = Append(link, m)
      /\ UNCHANGED <<settings, up, step, reply, cache, fresh, overtaken, untold>>
  BY DEF Answer, histories
<1>2. step \in 1 .. Len(Steps) /\ settings \in [Fields -> Nat]
  BY <1>1 DEF CacheInv, Typed
<1>3. Asked \in Seq(Fields) /\ \A i \in DOMAIN Asked : Asked[i] = FieldAt(step, i)
  BY <1>2, AskedFields
<1>4. Len(Asked) \in Nat /\ DOMAIN Asked = 1 .. Len(Asked)
        /\ \A i \in DOMAIN Asked : Asked[i] \in Fields
  BY <1>3
<1>5. \A i \in DOMAIN Asked : Item(Asked[i], IF i = bad THEN result ELSE "ok") \in AnswerItem
  BY <1>2, <1>4 DEF Item, AnswerItem
<1>6. items \in Seq(AnswerItem) /\ DOMAIN items = DOMAIN Asked
  BY <1>4, <1>5
<1>7. \A i \in DOMAIN items : items[i].of = Asked[i] /\ items[i].changes = settings[Asked[i]]
  BY DEF Item
<1> HIDE DEF items
<1>8. m \in AnswerFrame /\ m.kind = "answer" /\ m.step = step /\ m.items = items
  BY <1>2, <1>6 DEF AnswerFrame
<1> HIDE DEF m
<1>9. Matches(m.step, m.items)
        /\ \A k \in Good(m.items) : m.items[k].changes = settings[m.items[k].of]
  BY <1>3, <1>6, <1>7, <1>8 DEF Matches, Good
<1>10. link \in Seq(EventFrame \cup AnswerFrame)
  BY DEF CacheInv, Typed
<1>11. /\ link' \in Seq(EventFrame \cup AnswerFrame)
       /\ DOMAIN link' = DOMAIN link \cup {n} /\ n \notin DOMAIN link
       /\ \A i \in DOMAIN link : link'[i] = link[i]
       /\ link'[n] = m
       /\ \A i, g : Follows(link, i, g) => Follows(link', i, g)
  <2>1. /\ Append(link, m) \in Seq(EventFrame \cup AnswerFrame)
        /\ DOMAIN Append(link, m) = DOMAIN link \cup {n} /\ n \notin DOMAIN link
        /\ \A i \in DOMAIN link : Append(link, m)[i] = link[i]
        /\ Append(link, m)[n] = m
        /\ \A i, g : Follows(link, i, g) => Follows(Append(link, m), i, g)
    BY <1>8, <1>10, AppendFollows
  <2> QED
    BY <1>1, <2>1
<1> HIDE DEF n
<1>12. \A g : Reported(g)' <=> Reported(g)
  BY <1>8, <1>11 DEF Reported
<1>13. Typed'
  BY <1>1, <1>11 DEF CacheInv, Typed
<1>14. LinkCurrent(settings', untold', link')
  <2> SUFFICES ASSUME NEW i \in DOMAIN link'
               PROVE  /\ link'[i].kind = "event" =>
                            /\ link'[i].value.of = link'[i].of
                            /\ \/ link'[i].value.changes = settings[link'[i].of]
                               \/ Follows(link', i, link'[i].of)
                               \/ link'[i].of \in untold
                      /\ link'[i].kind = "answer" =>
                            /\ Matches(link'[i].step, link'[i].items)
                            /\ \A k \in Good(link'[i].items) :
                                \/ link'[i].items[k].changes = settings[link'[i].items[k].of]
                                \/ Follows(link', i, link'[i].items[k].of)
                                \/ link'[i].items[k].of \in untold
    BY <1>1 DEF LinkCurrent
  <2>1. CASE i = n
    BY <1>8, <1>9, <1>11, <2>1
  <2>2. CASE i \in DOMAIN link
    <3>1. link'[i] = link[i]
      BY <1>11, <2>2
    <3>2. link[i].kind = "event" =>
            /\ link[i].value.of = link[i].of
            /\ \/ link[i].value.changes = settings[link[i].of]
               \/ Follows(link', i, link[i].of)
               \/ link[i].of \in untold
      BY <1>11, <2>2 DEF CacheInv, LinkCurrent
    <3>3. link[i].kind = "answer" =>
            /\ Matches(link[i].step, link[i].items)
            /\ \A k \in Good(link[i].items) :
                    \/ link[i].items[k].changes = settings[link[i].items[k].of]
                    \/ Follows(link', i, link[i].items[k].of)
                    \/ link[i].items[k].of \in untold
      BY <1>11, <2>2 DEF CacheInv, LinkCurrent
    <3> QED
      BY <3>1, <3>2, <3>3
  <2> QED
    BY <1>11, <2>1, <2>2
<1>15. ReplyCurrent'
  BY <1>1, <1>12 DEF CacheInv, ReplyCurrent
<1>16. AgreesUnlessOvertaken' /\ NothingMixedUp'
  BY <1>1, <1>12 DEF CacheInv, AgreesUnlessOvertaken, NothingMixedUp, Value
<1> QED
  BY <1>13, <1>14, <1>15, <1>16 DEF CacheInv

\* Every action of the cache, the connection and OBS keeps it.
LEMMA CacheStep == CacheInv /\ [Next]_vars => CacheInv'
<1> SUFFICES ASSUME CacheInv, [Next]_vars PROVE CacheInv'
  OBVIOUS
<1>1. CASE UNCHANGED vars
  BY <1>1 DEF CacheInv, Typed, LinkCurrent, Follows, Good, Matches, ReplyCurrent, Reported,
              AgreesUnlessOvertaken, NothingMixedUp, Value, vars, histories
<1>2. CASE Next
  <2>1. \A bad \in 0 .. 2 * Len(Inputs) : bad \in Nat
    OBVIOUS
  <2> QED
    BY <1>2, <2>1, ConnectionsKeep, FrameKeeps, OwnReplyKeeps, TolerateKeeps, ChangeKeeps,
       RenameKeeps, ReidentifyKeeps, AnswerKeeps DEF Next
<1> QED
  BY <1>1, <1>2

\* So it holds in every behaviour.
LEMMA AlwaysCurrent == Spec => []CacheInv
<1> QED
  BY InitCurrent, CacheStep, PTL DEF Spec

----------------------------------------------------------------------------
(* The order of what the cache is told.                                    *)

ItemValues(items) == {[of |-> items[k].of, changes |-> items[k].changes] : k \in Good(items)}

\* What a frame tells of.
Values(m) == IF m.kind = "event" THEN {m.value} ELSE ItemValues(m.items)

\* v is no older than what the cache has.
NotOlder(v) == cache[v.of] # None => cache[v.of].changes <= v.changes

\* On its way from OBS to the cache a setting only gets newer: from the cache to the
\* answer in its oneshot, to the frames in the order of the link, to what OBS has.
\* Only an answer that has been overtaken may be older than the cache.
CacheInOrder == \A f \in Fields : cache[f] # None => cache[f].changes <= settings[f]

ReplyInOrder ==
    \A v \in ItemValues(reply.items) :
        /\ v.changes <= settings[v.of]
        /\ v.of \in overtaken \/ NotOlder(v)

LinkInOrder ==
    \A i \in DOMAIN link : \A v \in Values(link[i]) :
        /\ v.changes <= settings[v.of]
        /\ NotOlder(v)
        /\ \A u \in ItemValues(reply.items) : u.of = v.of => u.changes <= v.changes
        /\ \A j \in DOMAIN link : \A w \in Values(link[j]) :
                j > i /\ w.of = v.of => v.changes <= w.changes

Ordered == CacheInOrder /\ ReplyInOrder /\ LinkInOrder

\* What all these are about.
LEMMA ValuesKnown ==
    ASSUME CacheInv
    PROVE  /\ settings \in [Fields -> Nat]
           /\ \A f \in Fields : cache[f] # None => cache[f].changes \in Nat
           /\ \A v \in ItemValues(reply.items) : v \in Known
           /\ \A i \in DOMAIN link : \A v \in Values(link[i]) : v \in Known
<1>1. ASSUME NEW items \in Seq(AnswerItem), NEW v \in ItemValues(items)
      PROVE  v \in Known
  <2>1. PICK k \in Good(items) : v = [of |-> items[k].of, changes |-> items[k].changes]
    BY DEF ItemValues
  <2>2. items[k] \in AnswerItem
    BY DEF Good
  <2> QED
    BY <2>1, <2>2 DEF AnswerItem, Known
<1>2. ASSUME NEW i \in DOMAIN link, NEW v \in Values(link[i])
      PROVE  v \in Known
  <2>1. link[i] \in EventFrame \cup AnswerFrame
    BY DEF CacheInv, Typed
  <2>2. CASE link[i].kind = "event"
    <3>1. v = link[i].value
      BY <2>2 DEF Values
    <3> QED
      BY <2>1, <2>2, <3>1 DEF EventFrame, AnswerFrame
  <2>3. CASE link[i].kind # "event"
    <3>1. v \in ItemValues(link[i].items)
      BY <2>3 DEF Values
    <3>2. link[i].items \in Seq(AnswerItem)
      BY <2>1, <2>3 DEF EventFrame, AnswerFrame
    <3> QED
      BY <1>1, <3>1, <3>2
  <2> QED
    BY <2>2, <2>3
<1>3. reply.items \in Seq(AnswerItem) /\ settings \in [Fields -> Nat]
  BY DEF CacheInv, Typed
<1>4. \A f \in Fields : cache[f] # None => cache[f].changes \in Nat
  BY DEF CacheInv, Typed, Known
<1> QED
  BY <1>1, <1>2, <1>3, <1>4

\* The order outlasts what neither sends nor reads.
LEMMA QuietOrdered ==
    ASSUME CacheInv, Ordered, cache' = cache,
           \A f \in Fields : settings'[f] \in Nat /\ settings[f] <= settings'[f],
           link' = link \/ link' = <<>>,
           \/ reply' = reply /\ overtaken' = overtaken
           \/ reply'.items = <<>>
    PROVE  Ordered'
<1>1. /\ settings \in [Fields -> Nat]
      /\ \A f \in Fields : cache[f] # None => cache[f].changes \in Nat
      /\ \A v \in ItemValues(reply.items) : v \in Known
      /\ \A i \in DOMAIN link : \A v \in Values(link[i]) : v \in Known
  BY ValuesKnown
<1>2. \A x : x \in Nat => \A f \in Fields : x <= settings[f] => x <= settings'[f]
  BY <1>1
<1>3. ItemValues(<<>>) = {}
  BY DEF ItemValues, Good
<1>4. \/ ItemValues(reply'.items) = ItemValues(reply.items) /\ overtaken' = overtaken
      \/ ItemValues(reply'.items) = {}
  BY <1>3
<1>5. CacheInOrder'
  BY <1>1, <1>2 DEF Ordered, CacheInOrder
<1>6. ReplyInOrder'
  BY <1>1, <1>2, <1>4 DEF Ordered, ReplyInOrder, NotOlder, Known
<1>7. LinkInOrder'
  BY <1>1, <1>2, <1>4 DEF Ordered, LinkInOrder, NotOlder, Known
<1> QED
  BY <1>5, <1>6, <1>7 DEF Ordered

\* So it does a frame that tells what OBS has at that time.
LEMMA SentOrdered ==
    ASSUME CacheInv, Ordered, cache' = cache, reply' = reply, overtaken' = overtaken,
           \A f \in Fields : settings'[f] \in Nat /\ settings[f] <= settings'[f],
           NEW m \in EventFrame \cup AnswerFrame, link' = Append(link, m),
           \A v \in Values(m) : v.of \in Fields /\ v.changes = settings'[v.of]
    PROVE  Ordered'
<1>1. /\ settings \in [Fields -> Nat]
      /\ \A f \in Fields : cache[f] # None => cache[f].changes \in Nat
      /\ \A v \in ItemValues(reply.items) : v \in Known
      /\ \A i \in DOMAIN link : \A v \in Values(link[i]) : v \in Known
  BY ValuesKnown
<1>2. \A x : x \in Nat => \A f \in Fields : x <= settings[f] => x <= settings'[f]
  BY <1>1
<1> DEFINE n == Len(link) + 1
<1>3. /\ DOMAIN link' = DOMAIN link \cup {n} /\ n \notin DOMAIN link
      /\ \A i \in DOMAIN link : link'[i] = link[i]
      /\ link'[n] = m
      /\ \A i \in DOMAIN link : ~(i > n)
  <2>1. link \in Seq(EventFrame \cup AnswerFrame)
    BY DEF CacheInv, Typed
  <2>2. Len(link) \in Nat /\ DOMAIN link = 1 .. Len(link)
    BY <2>1
  <2>3. \A i \in DOMAIN link : ~(i > n)
    BY <2>2
  <2> QED
    BY <2>1, <2>3, AppendFollows
<1>4. ~(n > n)
  <2>1. link \in Seq(EventFrame \cup AnswerFrame)
    BY DEF CacheInv, Typed
  <2> QED
    BY <2>1
<1> HIDE DEF n
<1>5. CacheInOrder'
  BY <1>1, <1>2 DEF Ordered, CacheInOrder
<1>6. ReplyInOrder'
  BY <1>1, <1>2 DEF Ordered, ReplyInOrder, NotOlder, Known
<1>7. LinkInOrder'
  <2> SUFFICES ASSUME NEW i \in DOMAIN link', NEW v \in Values(link'[i])
               PROVE  /\ v.changes <= settings'[v.of]
                      /\ cache[v.of] # None => cache[v.of].changes <= v.changes
                      /\ \A u \in ItemValues(reply.items) : u.of = v.of => u.changes <= v.changes
                      /\ \A j \in DOMAIN link' : \A w \in Values(link'[j]) :
                            j > i /\ w.of = v.of => v.changes <= w.changes
    BY DEF LinkInOrder, NotOlder
  <2>1. CASE i = n
    <3>1. v.of \in Fields /\ v.changes = settings'[v.of] /\ v.changes \in Nat
      BY <1>3, <2>1
    <3>2. v.changes <= settings'[v.of]
      BY <3>1
    <3>3. cache[v.of] # None => cache[v.of].changes <= v.changes
      BY <1>1, <1>2, <3>1 DEF Ordered, CacheInOrder
    <3>4. \A u \in ItemValues(reply.items) : u.of = v.of => u.changes <= v.changes
      BY <1>1, <1>2, <3>1 DEF Ordered, ReplyInOrder, Known
    <3>5. \A j \in DOMAIN link' : ~(j > i)
      BY <1>3, <1>4, <2>1
    <3> QED
      BY <3>2, <3>3, <3>4, <3>5
  <2>2. CASE i \in DOMAIN link
    <3>1. v \in Values(link[i]) /\ v \in Known
      BY <1>1, <1>3, <2>2
    <3>2. /\ v.changes <= settings[v.of]
          /\ cache[v.of] # None => cache[v.of].changes <= v.changes
          /\ \A u \in ItemValues(reply.items) : u.of = v.of => u.changes <= v.changes
          /\ \A j \in DOMAIN link : \A w \in Values(link[j]) :
                j > i /\ w.of = v.of => v.changes <= w.changes
      BY <2>2, <3>1 DEF Ordered, LinkInOrder, NotOlder
    <3>3. v.of \in Fields /\ v.changes \in Nat
      BY <3>1 DEF Known
    <3>4. v.changes <= settings'[v.of]
      BY <1>2, <3>2, <3>3
    <3>5. \A w \in Values(m) : w.of = v.of => v.changes <= w.changes
      BY <3>4
    <3> QED
      BY <1>3, <3>2, <3>4, <3>5
  <2> QED
    BY <1>3, <2>1, <2>2
<1> QED
  BY <1>5, <1>6, <1>7 DEF Ordered

\* What the first frame tells of is no newer than what the others do.
LEMMA ReadOrdered ==
    ASSUME CacheInv, Ordered, link # <<>>
    PROVE  /\ 1 \in DOMAIN link /\ Head(link) = link[1]
           /\ \A i \in DOMAIN Tail(link) : i + 1 \in DOMAIN link /\ Tail(link)[i] = link[i + 1]
           /\ \A v \in Values(link[1]) : \A i \in DOMAIN Tail(link) :
                \A w \in Values(Tail(link)[i]) : w.of = v.of => v.changes <= w.changes
           /\ \A i, j \in DOMAIN Tail(link) : j > i =>
                \A v \in Values(Tail(link)[i]), w \in Values(Tail(link)[j]) :
                    w.of = v.of => v.changes <= w.changes
<1>1. link \in Seq(EventFrame \cup AnswerFrame)
  BY DEF CacheInv, Typed
<1>2. /\ 1 \in DOMAIN link /\ Head(link) = link[1]
      /\ \A i \in DOMAIN Tail(link) : /\ i + 1 \in DOMAIN link /\ Tail(link)[i] = link[i + 1]
                                      /\ i + 1 > 1
      /\ \A i, j \in DOMAIN Tail(link) : j > i => j + 1 > i + 1
  BY <1>1
<1>3. \A i, j \in DOMAIN link : j > i =>
        \A v \in Values(link[i]), w \in Values(link[j]) : w.of = v.of => v.changes <= w.changes
  BY DEF Ordered, LinkInOrder
<1>4. \A v \in Values(link[1]) : \A i \in DOMAIN Tail(link) :
                \A w \in Values(Tail(link)[i]) : w.of = v.of => v.changes <= w.changes
  BY <1>2, <1>3
<1>5. \A i, j \in DOMAIN Tail(link) : j > i =>
                \A v \in Values(Tail(link)[i]), w \in Values(Tail(link)[j]) :
                    w.of = v.of => v.changes <= w.changes
  BY <1>2, <1>3
<1> QED
  BY <1>2, <1>4, <1>5

\* The step of NeverGoesBack.
Forward ==
    \A f \in Fields \ overtaken :
        cache[f] # None /\ cache'[f] # None => cache[f].changes <= cache'[f].changes

\* A cache that is left alone does not go back.
LEMMA StaysForward ==
    ASSUME CacheInv, cache' = cache
    PROVE  Forward
BY ValuesKnown DEF Forward

\* Reading an event brings the cache forward; an answer goes to its oneshot.
LEMMA FrameOrdered ==
    ASSUME CacheInv, Ordered, Frame
    PROVE  Ordered' /\ Forward
<1> DEFINE m == Head(link)
<1>1. /\ settings \in [Fields -> Nat]
      /\ \A f \in Fields : cache[f] # None => cache[f].changes \in Nat
      /\ \A v \in ItemValues(reply.items) : v \in Known
      /\ \A i \in DOMAIN link : \A v \in Values(link[i]) : v \in Known
  BY ValuesKnown
<1>2. link # <<>> /\ link' = Tail(link) /\ settings' = settings
  BY DEF Frame
<1>3. /\ 1 \in DOMAIN link /\ m = link[1]
      /\ \A i \in DOMAIN link' : i + 1 \in DOMAIN link /\ link'[i] = link[i + 1]
      /\ \A v \in Values(m) : \A i \in DOMAIN link' :
            \A w \in Values(link'[i]) : w.of = v.of => v.changes <= w.changes
      /\ \A i, j \in DOMAIN link' : j > i =>
            \A v \in Values(link'[i]), w \in Values(link'[j]) : w.of = v.of => v.changes <= w.changes
  BY <1>2, ReadOrdered
<1>4. /\ \A v \in Values(m) :
            /\ v.of \in Fields /\ v.changes \in Nat
            /\ v.changes <= settings[v.of]
            /\ cache[v.of] # None => cache[v.of].changes <= v.changes
      /\ \A i \in DOMAIN link' : \A v \in Values(link'[i]) :
            /\ v.of \in Fields /\ v.changes \in Nat
            /\ v.changes <= settings[v.of]
            /\ cache[v.of] # None => cache[v.of].changes <= v.changes
            /\ \A u \in ItemValues(reply.items) : u.of = v.of => u.changes <= v.changes
  <2>1. \A i \in DOMAIN link : \A v \in Values(link[i]) :
            /\ v.of \in Fields /\ v.changes \in Nat
            /\ v.changes <= settings[v.of]
            /\ cache[v.of] # None => cache[v.of].changes <= v.changes
            /\ \A u \in ItemValues(reply.items) : u.of = v.of => u.changes <= v.changes
    BY <1>1 DEF Ordered, LinkInOrder, NotOlder, Known
  <2> QED
    BY <1>3, <2>1
<1>5. \A v \in ItemValues(reply.items) :
        /\ v.of \in Fields /\ v.changes \in Nat
        /\ v.changes <= settings[v.of]
        /\ v.of \in overtaken \/ (cache[v.of] # None => cache[v.of].changes <= v.changes)
  BY <1>1 DEF Ordered, ReplyInOrder, NotOlder, Known
<1>6. CASE m.kind = "event"
  <2>1. /\ cache' = [cache EXCEPT ![m.of] = m.value] /\ reply' = reply
        /\ reply.kind = "none" => overtaken' = overtaken \ {m.of}
        /\ reply.kind # "none" =>
                overtaken' = overtaken \cup
                    {f \in {m.of} : \E i \in DOMAIN reply.items : reply.items[i].of = f}
    BY <1>6 DEF Frame, Apply
  <2> HIDE DEF m
  <2>2. m.value \in Values(m) /\ m.value.of = m.of
    <3>1. LinkCurrent(settings, untold, link)
      BY DEF CacheInv
    <3> QED
      BY <1>3, <1>6, <3>1 DEF LinkCurrent, Values
  <2>3. /\ m.of \in Fields /\ DOMAIN cache = Fields
        /\ cache'[m.of] = m.value
        /\ \A f \in Fields : f # m.of => cache'[f] = cache[f]
    BY <1>4, <2>1, <2>2 DEF CacheInv, Typed
  <2>4. CacheInOrder'
    BY <1>2, <1>4, <2>2, <2>3 DEF Ordered, CacheInOrder
  <2>5. \A v \in ItemValues(reply.items) : v.of = m.of => m.of \in overtaken'
    <3> SUFFICES ASSUME NEW v \in ItemValues(reply.items), v.of = m.of
                 PROVE  m.of \in overtaken'
      OBVIOUS
    <3>1. PICK k \in Good(reply.items) : reply.items[k].of = m.of
      BY DEF ItemValues
    <3>2. k \in DOMAIN reply.items
      BY DEF Good
    <3>3. reply.kind # "none"
      BY <3>2 DEF CacheInv, Typed
    <3> QED
      BY <2>1, <3>1, <3>2, <3>3
  <2>6. \A f \in overtaken : f # m.of => f \in overtaken'
    BY <2>1
  <2>7. ReplyInOrder'
    BY <1>2, <1>5, <2>1, <2>3, <2>5, <2>6 DEF ReplyInOrder, NotOlder
  <2>8. LinkInOrder'
    <3> SUFFICES ASSUME NEW i \in DOMAIN link', NEW v \in Values(link'[i])
                 PROVE  cache'[v.of] # None => cache'[v.of].changes <= v.changes
      BY <1>2, <1>3, <1>4, <2>1 DEF LinkInOrder, NotOlder
    <3> QED
      BY <1>3, <1>4, <2>2, <2>3
  <2>9. Forward
    <3> SUFFICES ASSUME NEW f \in Fields, cache[f] # None, cache'[f] # None
                 PROVE  cache[f].changes <= cache'[f].changes
      BY DEF Forward
    <3>1. CASE f = m.of
      BY <1>4, <2>2, <2>3, <3>1
    <3>2. CASE f # m.of
      BY <1>1, <2>3, <3>2
    <3> QED
      BY <3>1, <3>2
  <2> QED
    BY <2>4, <2>7, <2>8, <2>9 DEF Ordered
<1>7. CASE m.kind # "event"
  <2>1. /\ cache' = cache /\ overtaken' = overtaken
        /\ reply'.items = m.items \/ reply' = reply
    BY <1>7 DEF Frame
  <2>2. Values(m) = ItemValues(m.items)
    BY <1>7 DEF Values
  <2> HIDE DEF m
  <2>3. ItemValues(reply'.items) = Values(m) \/ ItemValues(reply'.items) = ItemValues(reply.items)
    BY <2>1, <2>2
  <2>4. CacheInOrder'
    BY <1>2, <2>1 DEF Ordered, CacheInOrder
  <2>5. ReplyInOrder'
    BY <1>2, <1>4, <1>5, <2>1, <2>3 DEF ReplyInOrder, NotOlder
  <2>6. LinkInOrder'
    <3> SUFFICES ASSUME NEW i \in DOMAIN link', NEW v \in Values(link'[i])
                 PROVE  \A u \in ItemValues(reply'.items) : u.of = v.of => u.changes <= v.changes
      BY <1>2, <1>3, <1>4, <2>1 DEF LinkInOrder, NotOlder
    <3>1. \A u \in Values(m) : u.of = v.of => u.changes <= v.changes
      BY <1>3
    <3>2. \A u \in ItemValues(reply.items) : u.of = v.of => u.changes <= v.changes
      BY <1>4
    <3> QED
      BY <2>3, <3>1, <3>2
  <2> QED
    BY <2>1, <2>4, <2>5, <2>6, StaysForward DEF Ordered
<1> QED
  BY <1>6, <1>7

\* The snapshot writes its answer, which is older than the cache only where it has
\* been overtaken.
LEMMA OwnReplyOrdered ==
    ASSUME CacheInv, Ordered, OwnReply
    PROVE  Ordered' /\ Forward
<1>1. /\ settings \in [Fields -> Nat]
      /\ \A f \in Fields : cache[f] # None => cache[f].changes \in Nat
      /\ \A v \in ItemValues(reply.items) : v \in Known
      /\ \A i \in DOMAIN link : \A v \in Values(link[i]) : v \in Known
  BY ValuesKnown
<1>2. /\ link' = link /\ settings' = settings /\ overtaken' = overtaken
      /\ reply'.items = <<>>
  BY DEF OwnReply, NextStep, NoReply
<1>3. ASSUME NEW f \in Fields, cache'[f] # None
      PROVE  \/ cache'[f] = cache[f]
             \/ \E v \in ItemValues(reply.items) : v.of = f /\ cache'[f] = v
  <2> DEFINE good == Good(reply.items)
             written == {ItemField(i) : i \in good}
             blank == {ItemField(i) : i \in Blank(reply.items)}
             value(g) == reply.items[CHOOSE i \in good : ItemField(i) = g]
  <2>1. cache' = [g \in Fields |->
                      IF g \in written
                      THEN [of |-> value(g).of, changes |-> value(g).changes]
                      ELSE IF g \in blank THEN None ELSE cache[g]]
    BY DEF OwnReply
  <2>2. CASE f \in written
    <3>1. PICK i \in good : ItemField(i) = f /\ value(f) = reply.items[i]
      <4>1. \E i \in good : ItemField(i) = f
        BY <2>2
      <4> QED
        BY <4>1
    <3>2. ItemField(i) = reply.items[i].of
      <4>1. reply.kind = "answer" /\ i \in DOMAIN reply.items
        BY DEF OwnReply, Good
      <4>2. Matches(step, reply.items)
        BY <4>1 DEF CacheInv, Typed
      <4> QED
        BY <4>1, <4>2 DEF Matches, ItemField, FieldAt
    <3>3. cache'[f] = [of |-> reply.items[i].of, changes |-> reply.items[i].changes]
      BY <2>1, <2>2, <3>1
    <3> QED
      BY <3>1, <3>2, <3>3 DEF ItemValues
  <2>3. CASE f \notin written
    <3> HIDE DEF written, blank, value
    <3> QED
      BY <1>3, <2>1, <2>3
  <2> QED
    BY <2>2, <2>3
<1>4. ItemValues(reply'.items) = {}
  BY <1>2 DEF ItemValues, Good
<1>5. \A v \in ItemValues(reply.items) :
        /\ v.changes <= settings[v.of]
        /\ v.of \in overtaken \/ (cache[v.of] # None => cache[v.of].changes <= v.changes)
  BY DEF Ordered, ReplyInOrder, NotOlder
<1>6. CacheInOrder'
  BY <1>2, <1>3, <1>5 DEF Ordered, CacheInOrder
<1>7. ReplyInOrder'
  BY <1>4 DEF ReplyInOrder
<1>8. LinkInOrder'
  <2> SUFFICES ASSUME NEW i \in DOMAIN link, NEW v \in Values(link[i])
               PROVE  cache'[v.of] # None => cache'[v.of].changes <= v.changes
    BY <1>2, <1>4 DEF Ordered, LinkInOrder, NotOlder
  <2>1. v.of \in Fields
    BY <1>1 DEF Known
  <2>2. /\ cache[v.of] # None => cache[v.of].changes <= v.changes
        /\ \A u \in ItemValues(reply.items) : u.of = v.of => u.changes <= v.changes
    BY DEF Ordered, LinkInOrder, NotOlder
  <2> QED
    BY <1>3, <2>1, <2>2
<1>9. Forward
  <2> SUFFICES ASSUME NEW f \in Fields \ overtaken, cache[f] # None, cache'[f] # None
               PROVE  cache[f].changes <= cache'[f].changes
    BY DEF Forward
  <2>1. CASE cache'[f] = cache[f]
    <3>1. cache[f].changes \in Nat
      BY <1>1
    <3> QED
      BY <2>1, <3>1
  <2>2. CASE \E v \in ItemValues(reply.items) : v.of = f /\ cache'[f] = v
    BY <1>5, <2>2
  <2> QED
    BY <1>3, <2>1, <2>2
<1> QED
  BY <1>6, <1>7, <1>8, <1>9 DEF Ordered

\* OBS changes a setting, with or without an event, or answers.
LEMMA ChangeOrdered ==
    ASSUME CacheInv, Ordered, NEW f \in Fields, Change(f) \/ Rename(f)
    PROVE  Ordered' /\ Forward
<1>1. /\ settings \in [Fields -> Nat] /\ settings' = [settings EXCEPT ![f] = settings[f] + 1]
      /\ cache' = cache /\ reply' = reply /\ overtaken' = overtaken
  BY DEF Change, Rename, CacheInv, Typed
<1>2. \A g \in Fields : settings'[g] \in Nat /\ settings[g] <= settings'[g]
  BY <1>1
<1>3. CASE link' = link
  BY <1>1, <1>2, <1>3, QuietOrdered, StaysForward
<1>4. CASE link' # link
  <2> DEFINE m == [kind |-> "event", of |-> f,
                   value |-> [of |-> f, changes |-> settings[f] + 1]]
  <2>1. link' = Append(link, m)
    BY <1>4 DEF Change, Rename
  <2>2. m \in EventFrame /\ Values(m) = {[of |-> f, changes |-> settings[f] + 1]}
    BY <1>1 DEF EventFrame, Known, Values
  <2>3. \A v \in Values(m) : v.of \in Fields /\ v.changes = settings'[v.of]
    BY <1>1, <2>2
  <2> HIDE DEF m
  <2> QED
    BY <1>1, <1>2, <2>1, <2>2, <2>3, SentOrdered, StaysForward
<1> QED
  BY <1>3, <1>4

\* OBS answers with what it has.
LEMMA AnswerOrdered ==
    ASSUME CacheInv, Ordered, NEW bad \in Nat, NEW result \in {"failed", "bare"},
           Answer(bad, result)
    PROVE  Ordered' /\ Forward
<1> DEFINE items == [i \in DOMAIN Asked |-> Item(Asked[i], IF i = bad THEN result ELSE "ok")]
           m == [kind |-> "answer", step |-> step, items |-> items]
<1>1. /\ open /\ link' = Append(link, m)
      /\ UNCHANGED <<settings, reply, cache, overtaken>>
  BY DEF Answer, histories
<1>2. step \in 1 .. Len(Steps) /\ settings \in [Fields -> Nat]
  BY <1>1 DEF CacheInv, Typed
<1>3. Asked \in Seq(Fields)
  BY <1>2, AskedFields
<1>4. Len(Asked) \in Nat /\ DOMAIN Asked = 1 .. Len(Asked)
        /\ \A i \in DOMAIN Asked : Asked[i] \in Fields
  BY <1>3
<1>5. \A i \in DOMAIN Asked : Item(Asked[i], IF i = bad THEN result ELSE "ok") \in AnswerItem
  BY <1>2, <1>4 DEF Item, AnswerItem
<1>6. items \in Seq(AnswerItem) /\ DOMAIN items = DOMAIN Asked
  BY <1>4, <1>5
<1>7. \A i \in DOMAIN items : items[i].of = Asked[i] /\ items[i].changes = settings[Asked[i]]
  BY DEF Item
<1> HIDE DEF items
<1>8. m \in AnswerFrame /\ Values(m) = ItemValues(items)
  BY <1>2, <1>6 DEF AnswerFrame, Values
<1>9. \A v \in Values(m) : v.of \in Fields /\ v.changes = settings'[v.of]
  <2>1. \A k \in Good(items) : items[k].of \in Fields /\ items[k].changes = settings[items[k].of]
    BY <1>4, <1>6, <1>7 DEF Good
  <2> QED
    BY <1>1, <1>8, <2>1 DEF ItemValues
<1>10. \A f \in Fields : settings'[f] \in Nat /\ settings[f] <= settings'[f]
  BY <1>1, <1>2
<1> HIDE DEF m
<1> QED
  BY <1>1, <1>8, <1>9, <1>10, SentOrdered, StaysForward

\* The order is kept by every step, and no step takes the cache back.
LEMMA OrderedStep == CacheInv /\ Ordered /\ [Next]_vars => Ordered' /\ [Forward]_vars
<1> SUFFICES ASSUME CacheInv, Ordered, [Next]_vars
             PROVE  Ordered' /\ [Forward]_vars
  OBVIOUS
<1>0. \A f \in Fields : settings[f] \in Nat
  BY DEF CacheInv, Typed
<1>1. CASE UNCHANGED vars
  BY <1>0, <1>1, QuietOrdered DEF vars, histories
<1>2. CASE Connect \/ Disconnect \/ Tolerate
  <2>1. /\ cache' = cache /\ settings' = settings
        /\ link' = link \/ link' = <<>>
        /\ (reply' = reply /\ overtaken' = overtaken) \/ reply'.items = <<>>
    BY <1>2 DEF Connect, Disconnect, Tolerate, NextStep, NoReply, histories
  <2>2. \A f \in Fields : settings'[f] \in Nat /\ settings[f] <= settings'[f]
    BY <1>0, <2>1
  <2> QED
    BY <2>1, <2>2, QuietOrdered, StaysForward
<1>3. CASE \E filter \in Filters : Reidentify(filter)
  <2>1. /\ cache' = cache /\ settings' = settings /\ link' = link
        /\ reply' = reply /\ overtaken' = overtaken
    BY <1>3 DEF Reidentify, histories
  <2>2. \A f \in Fields : settings'[f] \in Nat /\ settings[f] <= settings'[f]
    BY <1>0, <2>1
  <2> QED
    BY <2>1, <2>2, QuietOrdered, StaysForward
<1>4. CASE Frame \/ OwnReply
  BY <1>4, FrameOrdered, OwnReplyOrdered
<1>5. CASE \E f \in Fields : Change(f) \/ Rename(f)
  BY <1>5, ChangeOrdered
<1>6. CASE \E bad \in Nat, result \in {"failed", "bare"} : Answer(bad, result)
  BY <1>6, AnswerOrdered
<1> QED
  <2>1. \A bad \in 0 .. 2 * Len(Inputs) : bad \in Nat
    OBVIOUS
  <2> QED
    BY <1>1, <1>2, <1>3, <1>4, <1>5, <1>6, <2>1, NamedAssumption DEF Next

\* At the start there is nothing to be in order.
LEMMA InitOrdered == Init => Ordered
<1> SUFFICES ASSUME Init PROVE Ordered
  OBVIOUS
<1>1. DOMAIN link = {} /\ ItemValues(reply.items) = {}
  BY DEF Init, NoReply, ItemValues, Good
<1>2. \A f \in Fields : cache[f] = None
  BY DEF Init
<1> QED
  BY <1>1, <1>2 DEF Ordered, CacheInOrder, ReplyInOrder, LinkInOrder

----------------------------------------------------------------------------

\* However the answers of snapshot() and the events of OBS interleave, on any
\* number of connections and whatever events are asked for: while the client is
\* connected, a field that the cache has heard of on this connection, and of which
\* no event is under way, is what OBS has, unless an event overtook its answer or
\* OBS has changed it since without an event that apply() reads. Fields it has not
\* heard of on this connection may be stale (snapshot, apply, emit_event).
THEOREM StaleOnlyIfOvertaken == Spec => []AgreesUnlessOvertaken
<1> QED
  BY AlwaysCurrent, PTL DEF CacheInv

\* For any list of inputs, and whichever item of the batch fails or comes without
\* its value, the cache takes no setting for another (snapshot).
THEOREM ItemsGoToTheirInputs == Spec => []NothingMixedUp
<1> QED
  BY AlwaysCurrent, PTL DEF CacheInv

\* No field of the cache goes back to an older value of OBS, but by an answer that
\* an event overtook in its oneshot: not by answers that come late, nor over any
\* number of connections (wait_reply, snapshot, apply).
THEOREM CacheNeverGoesBack == Spec => NeverGoesBack
<1>1. CacheInv /\ Ordered /\ [Next]_vars =>
        [\A f \in Fields \ overtaken :
            cache[f] # None /\ cache'[f] # None => cache[f].changes <= cache'[f].changes]_vars
  BY OrderedStep DEF Forward
<1>2. Ordered /\ CacheInv /\ [Next]_vars => Ordered'
  BY OrderedStep
<1> QED
  BY <1>1, <1>2, InitOrdered, AlwaysCurrent, PTL DEF Spec, NeverGoesBack

=============================================================================
