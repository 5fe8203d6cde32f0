--------------------------- MODULE EmbassyProofs ---------------------------
(***************************************************************************)
(* Theorems about EmbassyTransport, for a receive buffer and frames of any *)
(* size and any number of frames.                                          *)
(***************************************************************************)
EXTENDS EmbassyTransport, TLAPS, SequenceTheorems

USE EmbassyAssumption

----------------------------------------------------------------------------
(* Streams of units.                                                       *)

\* Appending adds one element, at the end.
LEMMA AppendElements ==
    ASSUME NEW S, NEW s \in Seq(S), NEW e \in S
    PROVE  LET t == Append(s, e)
           IN  /\ t \in Seq(S) /\ t # <<>> /\ Len(t) = Len(s) + 1
               /\ ToSet(t) = ToSet(s) \cup {e}
               /\ DOMAIN t = DOMAIN s \cup {Len(s) + 1} /\ Len(s) + 1 \notin DOMAIN s
               /\ t[Len(s) + 1] = e /\ \A i \in DOMAIN s : t[i] = s[i]
<1> DEFINE t == Append(s, e)
           n == Len(s)
<1>1. /\ n \in Nat /\ DOMAIN s = 1 .. n
      /\ t \in Seq(S) /\ Len(t) = n + 1 /\ DOMAIN t = 1 .. n + 1
      /\ t[n + 1] = e /\ \A i \in 1 .. n : t[i] = s[i]
  BY AppendProperties, LenProperties
<1> HIDE DEF t, n
<1>2. 1 .. n + 1 = 1 .. n \cup {n + 1} /\ n + 1 \notin 1 .. n
  BY <1>1
<1>3. ToSet(t) = ToSet(s) \cup {e}
  BY <1>1, <1>2 DEF ToSet
<1>4. t # <<>>
  BY <1>1
<1> QED
  BY <1>1, <1>2, <1>3, <1>4 DEF t, n

\* "http" is the response to the upgrade.
Kinds == {"http", "text", "binary", "ping", "pong", "close", "bad"}

FrameSet == [kind : Kinds, no : Nat, size : Nat \ {0}, fin : BOOLEAN]

Unit == [frame : FrameSet, part : Nat \ {0}]

\* What a frame is put together from.
LEMMA FrameType ==
    ASSUME NEW kind \in Kinds, NEW no \in Nat, NEW size \in Nat \ {0}, NEW fin \in BOOLEAN
    PROVE  [kind |-> kind, no |-> no, size |-> size, fin |-> fin] \in FrameSet
BY DEF FrameSet

\* The units of a frame.
LEMMA UnitsAre ==
    ASSUME NEW f \in FrameSet
    PROVE  /\ f.size \in Nat \ {0} /\ Units(f) \in Seq(Unit) /\ Len(Units(f)) = f.size
           /\ \A i \in 1 .. f.size : Units(f)[i] = [frame |-> f, part |-> i]
<1>1. f.size \in Nat \ {0}
  BY DEF FrameSet
<1>2. \A i \in 1 .. f.size : [frame |-> f, part |-> i] \in Unit
  BY <1>1 DEF Unit
<1> PICK size : size = f.size
  OBVIOUS
<1>3. Units(f) = [i \in 1 .. size |-> [frame |-> f, part |-> i]]
  BY DEF Units
<1>4. Units(f) \in Seq(Unit)
  BY <1>1, <1>2, <1>3, IsASeq
<1>5. DOMAIN Units(f) = 1 .. size /\ size \in Nat
  BY <1>1, <1>3
<1>6. Len(Units(f)) = size
  BY <1>4, <1>5, LenProperties
<1> QED
  BY <1>1, <1>3, <1>4, <1>6

\* Every unit stands among the others of its frame.  BufferAligned compares
\* neighbours only, which says nothing about a unit that is further away.
Placed(s) ==
    \A i \in DOMAIN s :
        /\ s[i].part <= s[i].frame.size /\ s[i].part <= i
        /\ \A p \in 1 .. s[i].frame.size :
            i - s[i].part + p \in DOMAIN s =>
                s[i - s[i].part + p] = [frame |-> s[i].frame, part |-> p]

\* The stream does not end inside a frame.
Whole(s) == s # <<>> => s[Len(s)].part = s[Len(s)].frame.size

\* What the units of a stream are.
LEMMA UnitType ==
    ASSUME NEW s \in Seq(Unit), NEW i \in DOMAIN s
    PROVE  /\ s[i] \in Unit
           /\ s[i].part \in Nat \ {0} /\ s[i].frame.size \in Nat \ {0}
<1>1. s[i] \in Unit
  OBVIOUS
<1> QED
  BY <1>1 DEF Unit, FrameSet

\* Neighbours belong together, or one frame ends where the next begins.
LEMMA Neighbours ==
    ASSUME NEW s \in Seq(Unit), Placed(s), NEW i \in 1 .. Len(s) - 1
    PROVE  IF s[i].part = s[i].frame.size
           THEN s[i + 1].part = 1
           ELSE s[i + 1].part = s[i].part + 1 /\ s[i + 1].frame = s[i].frame
<1>0. Len(s) \in Nat /\ DOMAIN s = 1 .. Len(s) /\ i \in DOMAIN s /\ i + 1 \in DOMAIN s
  OBVIOUS
<1>1. PICK k \in DOMAIN s : k = i + 1
  BY <1>0
<1> DEFINE u == s[i]
           v == s[k]
<1>2. /\ u.part \in Nat \ {0} /\ u.frame.size \in Nat \ {0}
      /\ v.part \in Nat \ {0} /\ v.frame.size \in Nat \ {0}
  BY <1>0, UnitType
<1>3. /\ u.part <= u.frame.size
      /\ \A p \in 1 .. u.frame.size :
            i - u.part + p \in DOMAIN s => s[i - u.part + p] = [frame |-> u.frame, part |-> p]
  BY <1>0 DEF Placed
<1>4. /\ v.part <= v.frame.size /\ v.part <= k
      /\ \A p \in 1 .. v.frame.size :
            k - v.part + p \in DOMAIN s => s[k - v.part + p] = [frame |-> v.frame, part |-> p]
  BY <1>0 DEF Placed
<1>5. CASE u.part = u.frame.size
  <2> SUFFICES ASSUME v.part # 1 PROVE FALSE
    BY <1>1, <1>5
  <2>1. v.part - 1 \in 1 .. v.frame.size /\ k - v.part + (v.part - 1) = i
    BY <1>1, <1>2, <1>4
  <2>2. u = [frame |-> v.frame, part |-> v.part - 1]
    BY <1>0, <1>4, <2>1
  <2>3. v.part - 1 = v.frame.size
    BY <1>5, <2>2
  <2> QED
    BY <1>2, <1>4, <2>3
<1>6. CASE u.part # u.frame.size
  <2>1. u.part + 1 \in 1 .. u.frame.size /\ i - u.part + (u.part + 1) = k
    BY <1>1, <1>2, <1>3, <1>6
  <2>2. v = [frame |-> u.frame, part |-> u.part + 1]
    BY <1>0, <1>3, <2>1
  <2> QED
    BY <1>1, <1>6, <2>2
<1> QED
  BY <1>5, <1>6

\* A prefix of a stream is one.
LEMMA PrefixPlaced ==
    ASSUME NEW s \in Seq(Unit), Placed(s), NEW n \in 0 .. Len(s)
    PROVE  /\ SubSeq(s, 1, n) \in Seq(Unit)
           /\ Placed(SubSeq(s, 1, n))
<1> DEFINE t == SubSeq(s, 1, n)
<1>1. /\ t \in Seq(Unit) /\ DOMAIN t = 1 .. n /\ DOMAIN s = 1 .. Len(s)
      /\ n \in Nat /\ Len(s) \in Nat
      /\ \A i \in DOMAIN t : t[i] = s[i] /\ i \in DOMAIN s
  BY SubSeqProperties
<1> HIDE DEF t
<1>2. Placed(t)
  BY <1>1 DEF Placed
<1> QED
  BY <1>1, <1>2 DEF t

\* What is left of a stream behind its first n units.
LEMMA RestUnits ==
    ASSUME NEW s \in Seq(Unit), NEW n \in 0 .. Len(s)
    PROVE  LET t == SubSeq(s, n + 1, Len(s))
           IN  /\ t \in Seq(Unit) /\ Len(t) = Len(s) - n
               /\ \A i \in 1 .. Len(s) - n : t[i] = s[i + n]
<1> DEFINE t == SubSeq(s, n + 1, Len(s))
<1>0. Len(s) \in Nat /\ n \in Nat /\ DOMAIN s = 1 .. Len(s) /\ n <= Len(s)
  OBVIOUS
<1>1. \A i \in n + 1 .. Len(s) : s[i] \in Unit
  BY <1>0
<1>2. n + 1 \in Int /\ Len(s) \in Int
  BY <1>0
<1>3. /\ t \in Seq(Unit)
      /\ Len(t) = IF n + 1 <= Len(s) THEN Len(s) - (n + 1) + 1 ELSE 0
      /\ \A i \in 1 .. Len(s) - (n + 1) + 1 : t[i] = s[n + 1 + i - 1]
  BY <1>1, <1>2, SubSeqProperties
<1> HIDE DEF t
<1>4. Len(t) = Len(s) - n /\ Len(s) - (n + 1) + 1 = Len(s) - n
  <2>1. \A l \in Nat : n <= l =>
            /\ (IF n + 1 <= l THEN l - (n + 1) + 1 ELSE 0) = l - n
            /\ l - (n + 1) + 1 = l - n
    BY <1>0
  <2>2. /\ (IF n + 1 <= Len(s) THEN Len(s) - (n + 1) + 1 ELSE 0) = Len(s) - n
        /\ Len(s) - (n + 1) + 1 = Len(s) - n
    BY <1>0, <2>1, Zenon
  <2> QED
    BY <1>3, <2>2, Zenon
<1>5. \A i \in 1 .. Len(s) - n : n + 1 + i - 1 = i + n
  BY <1>0
<1>6. \A i \in 1 .. Len(s) - n : t[i] = s[i + n]
  BY <1>3, <1>4, <1>5
<1> QED
  BY <1>3, <1>4, <1>6 DEF t

\* What is left of a stream behind a whole frame, too.
LEMMA RestPlaced ==
    ASSUME NEW s \in Seq(Unit), Placed(s), NEW n \in 0 .. Len(s),
           n = 0 \/ s[n].part = s[n].frame.size
    PROVE  /\ SubSeq(s, n + 1, Len(s)) \in Seq(Unit)
           /\ Placed(SubSeq(s, n + 1, Len(s)))
           /\ Whole(s) => Whole(SubSeq(s, n + 1, Len(s)))
<1> DEFINE t == SubSeq(s, n + 1, Len(s))
<1>0. Len(s) \in Nat /\ n \in Nat /\ DOMAIN s = 1 .. Len(s) /\ n <= Len(s)
  OBVIOUS
<1>1. /\ t \in Seq(Unit) /\ Len(t) = Len(s) - n /\ DOMAIN t = 1 .. Len(s) - n
      /\ \A i \in DOMAIN t : t[i] = s[i + n] /\ i + n \in DOMAIN s /\ i \in Nat \ {0}
  <2>1. /\ t \in Seq(Unit) /\ Len(t) = Len(s) - n
        /\ \A i \in 1 .. Len(s) - n : t[i] = s[i + n]
    BY RestUnits
  <2>2. Len(s) - n \in Nat
    BY <1>0
  <2>3. DOMAIN t = 1 .. Len(s) - n
    BY <2>1, <2>2, LenProperties
  <2>4. \A i \in 1 .. Len(s) - n : i + n \in DOMAIN s /\ i \in Nat \ {0}
    BY <1>0
  <2> HIDE DEF t
  <2> QED
    BY <2>1, <2>3, <2>4
<1> HIDE DEF t
<1>2. \A i \in DOMAIN s : i > n => s[i].part <= i - n
  <2> SUFFICES ASSUME NEW i \in DOMAIN s, i > n, s[i].part > i - n PROVE FALSE
    <3>1. \A i \in DOMAIN s : s[i].part \in Nat
      BY UnitType
    <3> QED
      BY <1>0, <3>1
  <2> DEFINE u == s[i]
             p == u.part - (i - n)
  <2>1. u.part \in Nat \ {0} /\ u.frame.size \in Nat \ {0}
    BY UnitType
  <2>2. /\ u.part <= u.frame.size /\ u.part <= i
        /\ \A q \in 1 .. u.frame.size :
              i - u.part + q \in DOMAIN s => s[i - u.part + q] = [frame |-> u.frame, part |-> q]
    BY DEF Placed
  <2> HIDE DEF u
  <2>3. p \in 1 .. u.frame.size /\ i - u.part + p = n /\ p < u.frame.size /\ n \in DOMAIN s
    BY <1>0, <2>1, <2>2 DEF u
  <2>4. s[n] = [frame |-> u.frame, part |-> p]
    BY <2>2, <2>3
  <2>5. n # 0
    BY <1>0, <2>3
  <2> QED
    BY <2>3, <2>4, <2>5
<1>3. Placed(t)
  <2> SUFFICES ASSUME NEW i \in DOMAIN t
               PROVE  /\ t[i].part <= t[i].frame.size /\ t[i].part <= i
                      /\ \A p \in 1 .. t[i].frame.size :
                            i - t[i].part + p \in DOMAIN t =>
                                t[i - t[i].part + p] = [frame |-> t[i].frame, part |-> p]
    BY DEF Placed
  <2>0. PICK k \in DOMAIN s : k = i + n
    BY <1>1
  <2> DEFINE u == s[k]
  <2>1. t[i] = u /\ i \in Nat \ {0} /\ k > n /\ k - n = i
    BY <1>0, <1>1, <2>0
  <2>2. u.part \in Nat \ {0} /\ u.frame.size \in Nat \ {0}
    BY UnitType
  <2>3. u.part <= u.frame.size /\ u.part <= k - n
    BY <1>2, <2>1 DEF Placed
  <2>4. \A p \in 1 .. u.frame.size :
            k - u.part + p \in DOMAIN s => s[k - u.part + p] = [frame |-> u.frame, part |-> p]
    BY DEF Placed
  <2> HIDE DEF u
  <2>5. ASSUME NEW p \in 1 .. u.frame.size, i - u.part + p \in DOMAIN t
        PROVE  t[i - u.part + p] = [frame |-> u.frame, part |-> p]
    <3>1. i - u.part + p + n = k - u.part + p
      BY <1>0, <2>0, <2>1, <2>2
    <3>2. t[i - u.part + p] = s[i - u.part + p + n] /\ i - u.part + p + n \in DOMAIN s
      BY <1>1, <2>5
    <3> QED
      BY <2>4, <3>1, <3>2
  <2>6. u.part <= i
    BY <1>0, <2>1, <2>2, <2>3
  <2> QED
    BY <2>1, <2>3, <2>5, <2>6
<1>4. Whole(s) => Whole(t)
  BY <1>0, <1>1 DEF Whole
<1> QED
  BY <1>1, <1>3, <1>4 DEF t

\* A frame that follows a whole stream makes a longer one.
LEMMA JoinPlaced ==
    ASSUME NEW s \in Seq(Unit), Placed(s), Whole(s), NEW f \in FrameSet
    PROVE  /\ s \o Units(f) \in Seq(Unit)
           /\ Placed(s \o Units(f)) /\ Whole(s \o Units(f))
           /\ s \o Units(f) # <<>>
           /\ s # <<>> => (s \o Units(f))[1] = s[1]
<1> DEFINE t == s \o Units(f)
           n == Len(s)
<1>1. f.size \in Nat \ {0} /\ n \in Nat /\ DOMAIN s = 1 .. n
  BY DEF FrameSet
<1>2. /\ Units(f) \in Seq(Unit) /\ Len(Units(f)) = f.size
      /\ \A i \in 1 .. f.size : Units(f)[i] = [frame |-> f, part |-> i]
  BY UnitsAre
<1>3. /\ t \in Seq(Unit) /\ Len(t) = n + f.size /\ DOMAIN t = 1 .. n + f.size
      /\ \A i \in 1 .. n : t[i] = s[i]
      /\ \A i \in n + 1 .. n + f.size : t[i] = [frame |-> f, part |-> i - n]
  <2>1. /\ t \in Seq(Unit) /\ Len(t) = n + f.size
        /\ \A i \in 1 .. n + f.size : t[i] = IF i <= n THEN s[i] ELSE Units(f)[i - n]
    BY <1>1, <1>2, ConcatProperties
  <2>2. \A i \in n + 1 .. n + f.size : i - n \in 1 .. f.size /\ ~(i <= n)
    BY <1>1
  <2> QED
    BY <1>1, <1>2, <2>1, <2>2
<1> HIDE DEF t
<1>4. Placed(t)
  <2> SUFFICES ASSUME NEW i \in DOMAIN t
               PROVE  /\ t[i].part <= t[i].frame.size /\ t[i].part <= i
                      /\ \A p \in 1 .. t[i].frame.size :
                            i - t[i].part + p \in DOMAIN t =>
                                t[i - t[i].part + p] = [frame |-> t[i].frame, part |-> p]
    BY DEF Placed
  <2>1. CASE i \in 1 .. n
    <3> DEFINE u == s[i]
    <3>1. t[i] = u /\ u.part \in Nat \ {0} /\ u.frame.size \in Nat \ {0}
      BY <1>1, <1>3, <2>1, UnitType
    <3>2. /\ u.part <= u.frame.size /\ u.part <= i
          /\ \A p \in 1 .. u.frame.size :
                i - u.part + p \in 1 .. n => s[i - u.part + p] = [frame |-> u.frame, part |-> p]
      BY <1>1, <2>1 DEF Placed
    <3>3. \A p \in 1 .. u.frame.size : i - u.part + p <= n
      <4> SUFFICES ASSUME NEW p \in 1 .. u.frame.size, i - u.part + p > n PROVE FALSE
        BY <1>1, <2>1, <3>1
      <4> DEFINE q == n - i + u.part
      <4>1. q \in 1 .. u.frame.size /\ i - u.part + q = n /\ q < u.frame.size /\ n \in 1 .. n
        BY <1>1, <2>1, <3>1, <3>2
      <4>2. s[n] = [frame |-> u.frame, part |-> q]
        BY <3>2, <4>1
      <4>3. s[n].part = s[n].frame.size
        BY <1>1, <2>1 DEF Whole
      <4> QED
        BY <4>1, <4>2, <4>3
    <3> HIDE DEF u
    <3>4. \A p \in 1 .. u.frame.size :
                i - u.part + p \in DOMAIN t =>
                    i - u.part + p \in 1 .. n /\ t[i - u.part + p] = s[i - u.part + p]
      BY <1>1, <1>3, <2>1, <3>1, <3>2, <3>3
    <3> QED
      BY <3>1, <3>2, <3>4
  <2>2. CASE i \in n + 1 .. n + f.size
    <3>1. t[i] = [frame |-> f, part |-> i - n]
      BY <1>3, <2>2
    <3>2. i - n <= f.size /\ i - n <= i
      BY <1>1, <2>2
    <3>3. \A p \in 1 .. f.size : i - (i - n) + p = n + p /\ n + p \in n + 1 .. n + f.size
                /\ n + p - n = p
      BY <1>1, <2>2
    <3> QED
      BY <1>3, <3>1, <3>2, <3>3
  <2> QED
    BY <1>1, <1>3, <2>1, <2>2
<1>5. Whole(t) /\ t # <<>>
  <2>1. n + f.size \in n + 1 .. n + f.size /\ n + f.size - n = f.size
    BY <1>1
  <2>2. t[Len(t)] = [frame |-> f, part |-> f.size]
    <3> HIDE DEF n
    <3>1. \A k \in n + 1 .. n + f.size : k = n + f.size => t[k] = [frame |-> f, part |-> f.size]
      BY <1>1, <1>3
    <3>2. t[n + f.size] = [frame |-> f, part |-> f.size]
      BY <2>1, <3>1
    <3> QED
      BY <1>3, <3>2
  <2>3. Len(t) # 0
    BY <1>1, <1>3
  <2> QED
    BY <1>3, <2>2, <2>3 DEF Whole
<1>6. s # <<>> => t[1] = s[1]
  BY <1>1, <1>3
<1> QED
  BY <1>3, <1>4, <1>5, <1>6 DEF t

\* Streams may be joined in any order.
LEMMA Regroup ==
    ASSUME NEW x \in Seq(Unit), NEW y \in Seq(Unit), NEW z \in Seq(Unit)
    PROVE  (x \o y) \o z = x \o (y \o z)
BY ConcatAssociative

\* A frame that is there in full ends inside the stream.
LEMMA FrontFrame ==
    ASSUME NEW s \in Seq(Unit), Placed(s), s # <<>>
    PROVE  /\ s[1].part = 1
           /\ s[1].frame.size <= Len(s) =>
                s[s[1].frame.size].part = s[s[1].frame.size].frame.size
<1>1. 1 \in DOMAIN s /\ DOMAIN s = 1 .. Len(s) /\ Len(s) \in Nat
  OBVIOUS
<1>2. s[1].part \in Nat \ {0} /\ s[1].frame.size \in Nat \ {0}
  BY <1>1, UnitType
<1>3. s[1].part = 1
  BY <1>1, <1>2 DEF Placed
<1> DEFINE n == s[1].frame.size
<1>4. \A i \in DOMAIN s : \A p \in 1 .. s[i].frame.size :
          i - s[i].part + p \in DOMAIN s =>
              s[i - s[i].part + p] = [frame |-> s[i].frame, part |-> p]
  BY DEF Placed
<1>5. n <= Len(s) => n \in 1 .. n /\ 1 - s[1].part + n = n /\ n \in DOMAIN s
  BY <1>1, <1>2, <1>3
<1>6. n <= Len(s) => s[n] = [frame |-> s[1].frame, part |-> n]
  <2> SUFFICES ASSUME n <= Len(s) PROVE s[n] = [frame |-> s[1].frame, part |-> n]
    OBVIOUS
  <2>1. 1 - s[1].part + n \in DOMAIN s =>
            s[1 - s[1].part + n] = [frame |-> s[1].frame, part |-> n]
    BY <1>1, <1>4, <1>5
  <2> QED
    BY <1>5, <2>1
<1> QED
  BY <1>3, <1>6

----------------------------------------------------------------------------
(* The buffer and the stream.                                              *)

\* What is in the buffer r and behind it on the stream w is a stream of whole
\* frames, up to where the peer has cut it off; before the upgrade is over it
\* begins with the response.
Sound(r, w, eof, connecting) ==
    /\ r \in Seq(Unit) /\ w \in Seq(Unit)
    /\ Len(r) <= RX
    /\ Placed(r \o w)
    /\ ~eof => Whole(r \o w)
    /\ connecting /\ r \o w # <<>> => (r \o w)[1].frame.size = ResponseSize
    /\ connecting /\ ~eof => r \o w # <<>>

\* Some units arrive.
LEMMA ArriveSound ==
    ASSUME NEW r, NEW w, NEW eof, NEW connecting, Sound(r, w, eof, connecting),
           NEW n \in 1 .. Len(w), Len(r) + n <= RX
    PROVE  /\ Sound(r \o SubSeq(w, 1, n), SubSeq(w, n + 1, Len(w)), eof, connecting)
           /\ (r \o SubSeq(w, 1, n)) \o SubSeq(w, n + 1, Len(w)) = r \o w
<1> DEFINE a == SubSeq(w, 1, n)
           b == SubSeq(w, n + 1, Len(w))
<1>1. r \in Seq(Unit) /\ w \in Seq(Unit) /\ Len(r) \in Nat /\ Len(w) \in Nat
  BY DEF Sound
<1>2. a \in Seq(Unit) /\ Len(a) = n /\ b \in Seq(Unit)
  <2>1. \A i \in 1 .. Len(w) : w[i] \in Unit
    BY <1>1
  <2> QED
    BY <1>1, <2>1, SubSeqProperties
<1>3. a \o b = w
  <2>1. SubSeq(w, 1, Len(w)) = w
    BY <1>1, SubSeqFull
  <2>2. 1 \in 1 .. Len(w) + 1 /\ n \in 1 - 1 .. Len(w) /\ Len(w) \in n .. Len(w)
    BY <1>1
  <2> QED
    BY <1>1, <2>1, <2>2, ConcatAdjacentSubSeq
<1> HIDE DEF a, b
<1>4. (r \o a) \o b = r \o w
  <2>1. r \in Seq(Unit) /\ a \in Seq(Unit) /\ b \in Seq(Unit)
    BY <1>1, <1>2
  <2>2. (r \o a) \o b = r \o (a \o b)
    BY <2>1, Regroup, Zenon
  <2> QED
    BY <1>3, <2>2
<1>5. r \o a \in Seq(Unit) /\ Len(r \o a) = Len(r) + n
  BY <1>1, <1>2, ConcatProperties
<1>6. Sound(r \o a, b, eof, connecting)
  BY <1>2, <1>4, <1>5 DEF Sound
<1> QED
  BY <1>4, <1>6 DEF a, b

\* The first frame leaves the buffer.
LEMMA ConsumeSound ==
    ASSUME NEW r, NEW w, NEW eof, NEW connecting, Sound(r, w, eof, connecting),
           r # <<>>, NEW n, n = r[1].frame.size, n <= Len(r)
    PROVE  /\ Sound(SubSeq(r, n + 1, Len(r)), w, eof, FALSE)
           /\ SubSeq(r, n + 1, Len(r)) \o w = SubSeq(r \o w, n + 1, Len(r \o w))
           /\ r \o w # <<>> /\ (r \o w)[1] = r[1] /\ n <= Len(r \o w)
<1> DEFINE s == r \o w
           a == SubSeq(r, n + 1, Len(r))
<1>1. r \in Seq(Unit) /\ w \in Seq(Unit) /\ Len(r) \in Nat \ {0} /\ Len(w) \in Nat
  BY DEF Sound
<1>2. n \in Nat \ {0}
  BY <1>1, UnitType
<1>3. /\ s \in Seq(Unit) /\ Len(s) = Len(r) + Len(w) /\ s # <<>>
      /\ \A i \in 1 .. Len(s) : s[i] = IF i <= Len(r) THEN r[i] ELSE w[i - Len(r)]
  <2>1. /\ s \in Seq(Unit) /\ Len(s) = Len(r) + Len(w)
        /\ \A i \in 1 .. Len(r) + Len(w) : s[i] = IF i <= Len(r) THEN r[i] ELSE w[i - Len(r)]
    BY <1>1, ConcatProperties
  <2>2. Len(s) # 0
    BY <1>1, <2>1
  <2> QED
    BY <2>1, <2>2
<1>4. s[1] = r[1] /\ n \in 0 .. Len(s) /\ n <= Len(s)
  BY <1>1, <1>2, <1>3
<1>5. s[n].part = s[n].frame.size
  BY <1>3, <1>4, FrontFrame DEF Sound
<1>6. /\ a \in Seq(Unit) /\ Len(a) = Len(r) - n
      /\ \A i \in 1 .. Len(r) - n : a[i] = r[i + n]
  <2>1. n \in 0 .. Len(r)
    BY <1>1, <1>2
  <2> QED
    BY <1>1, <2>1, RestUnits
<1>7. a \o w = SubSeq(s, n + 1, Len(s))
  <2> DEFINE t == SubSeq(s, n + 1, Len(s))
  <2>1. /\ t \in Seq(Unit) /\ Len(t) = Len(s) - n
        /\ \A i \in 1 .. Len(s) - n : t[i] = s[i + n]
    <3> HIDE DEF s
    <3> QED
      BY <1>3, <1>4, RestUnits
  <2>2. /\ a \o w \in Seq(Unit) /\ Len(a \o w) = Len(a) + Len(w)
        /\ \A i \in 1 .. Len(a) + Len(w) : (a \o w)[i] = IF i <= Len(a) THEN a[i] ELSE w[i - Len(a)]
    BY <1>1, <1>6, ConcatProperties
  <2> HIDE DEF t, a
  <2>3. Len(a \o w) = Len(t) /\ Len(t) = Len(r) - n + Len(w)
    BY <1>1, <1>2, <1>3, <1>6, <2>1, <2>2
  <2>4. ASSUME NEW i \in 1 .. Len(t) PROVE (a \o w)[i] = t[i]
    <3> HIDE DEF s
    <3>1. t[i] = s[i + n] /\ i + n \in 1 .. Len(s)
      BY <1>1, <1>2, <1>3, <2>1, <2>3
    <3>2. CASE i <= Len(r) - n
      <4>0. i \in Nat \ {0} /\ n \in Nat /\ Len(r) \in Nat
        BY <1>1, <1>2
      <4>1. i + n <= Len(r) /\ i \in 1 .. Len(r) - n
        <5>1. \A x \in Nat \ {0}, y, z \in Nat : x <= z - y => x + y <= z /\ x \in 1 .. z - y
          OBVIOUS
        <5> QED
          BY <3>2, <4>0, <5>1
      <4> QED
        BY <1>3, <1>6, <2>2, <2>3, <3>1, <3>2, <4>1
    <3>3. CASE ~(i <= Len(r) - n)
      <4>0. i \in Nat /\ n \in Nat /\ Len(r) \in Nat
        BY <1>1, <1>2
      <4>1. ~(i + n <= Len(r)) /\ i + n - Len(r) = i - (Len(r) - n)
        <5>1. \A x, y, z \in Nat : ~(x <= z - y) => ~(x + y <= z) /\ x + y - z = x - (z - y)
          OBVIOUS
        <5> QED
          BY <3>3, <4>0, <5>1
      <4>2. t[i] = w[i - (Len(r) - n)]
        <5>1. PICK k \in 1 .. Len(s) : k = i + n /\ t[i] = s[k]
          BY <3>1
        <5>2. s[k] = w[k - Len(r)]
          <6>1. ~(k <= Len(r))
            BY <4>1, <5>1
          <6>2. s[k] = IF k <= Len(r) THEN r[k] ELSE w[k - Len(r)]
            BY <1>3
          <6> QED
            BY <6>1, <6>2
        <5>3. k - Len(r) = i - (Len(r) - n)
          <6>1. \A x, y, z \in Nat : (x + y) - z = x - (z - y)
            OBVIOUS
          <6>2. (i + n) - Len(r) = i - (Len(r) - n)
            BY <4>0, <6>1
          <6> QED
            BY <5>1, <6>2
        <5> QED
          BY <5>1, <5>2, <5>3
      <4>3. i \in 1 .. Len(a) + Len(w) /\ ~(i <= Len(a))
        BY <1>1, <1>2, <1>6, <2>2, <2>3, <3>3
      <4>4. (a \o w)[i] = w[i - Len(a)]
        BY <2>2, <4>3
      <4> QED
        BY <1>6, <3>1, <4>1, <4>2, <4>4
    <3> QED
      BY <3>2, <3>3
  <2> QED
    BY <2>1, <2>2, <2>3, <2>4, SeqEqual DEF t
<1> HIDE DEF a
<1>8. Placed(a \o w) /\ (~eof => Whole(a \o w))
  BY <1>3, <1>4, <1>5, <1>7, RestPlaced DEF Sound
<1>9. Len(a) <= RX
  BY <1>1, <1>2, <1>6 DEF Sound
<1>10. Sound(a, w, eof, FALSE)
  BY <1>1, <1>6, <1>8, <1>9 DEF Sound
<1> QED
  BY <1>3, <1>4, <1>7, <1>10 DEF a, s

\* The stream is cut off.
LEMMA EofSound ==
    ASSUME NEW r, NEW w, NEW eof, NEW connecting, Sound(r, w, eof, connecting),
           NEW n \in 0 .. Len(w)
    PROVE  /\ Sound(r, SubSeq(w, 1, n), TRUE, connecting)
           /\ Len(r) + n \in 0 .. Len(r \o w)
           /\ r \o SubSeq(w, 1, n) = SubSeq(r \o w, 1, Len(r) + n)
<1> DEFINE s == r \o w
           a == SubSeq(w, 1, n)
           t == SubSeq(s, 1, Len(r) + n)
<1>1. r \in Seq(Unit) /\ w \in Seq(Unit) /\ Len(r) \in Nat /\ Len(w) \in Nat /\ n \in Nat
  BY DEF Sound
<1>2. /\ s \in Seq(Unit) /\ Len(s) = Len(r) + Len(w)
      /\ \A i \in 1 .. Len(r) + Len(w) : s[i] = IF i <= Len(r) THEN r[i] ELSE w[i - Len(r)]
  BY <1>1, ConcatProperties
<1>3. a \in Seq(Unit) /\ Len(a) = n /\ \A i \in 1 .. n : a[i] = w[i]
  <2>1. \A i \in 1 .. n : w[i] \in Unit
    BY <1>1
  <2> QED
    BY <1>1, <2>1, SubSeqProperties
<1>4. Len(r) + n \in 0 .. Len(s)
  BY <1>1, <1>2
<1>5. t \in Seq(Unit) /\ Placed(t)
  BY <1>2, <1>4, PrefixPlaced DEF Sound
<1>6. Len(t) = Len(r) + n /\ \A i \in 1 .. Len(r) + n : t[i] = s[i]
  <2>1. \A i \in 1 .. Len(r) + n : s[i] \in Unit
    BY <1>1, <1>2
  <2> QED
    BY <1>1, <2>1, SubSeqProperties
<1>7. /\ r \o a \in Seq(Unit) /\ Len(r \o a) = Len(r) + n
      /\ \A i \in 1 .. Len(r) + n : (r \o a)[i] = IF i <= Len(r) THEN r[i] ELSE a[i - Len(r)]
  BY <1>1, <1>3, ConcatProperties
<1> HIDE DEF a, s, t
<1>8. r \o a = t
  <2>1. \A i \in 1 .. Len(r) + n : ~(i <= Len(r)) => i - Len(r) \in 1 .. n
    BY <1>1
  <2>2. \A i \in 1 .. Len(r) + n : i \in 1 .. Len(r) + Len(w)
    BY <1>1
  <2>3. \A i \in 1 .. Len(r) + n : (r \o a)[i] = t[i]
    BY <1>2, <1>3, <1>6, <1>7, <2>1, <2>2
  <2> QED
    BY <1>5, <1>6, <1>7, <2>3, SeqEqual
<1>9. connecting /\ r \o a # <<>> => (r \o a)[1].frame.size = ResponseSize
  <2> SUFFICES ASSUME connecting, r \o a # <<>> PROVE (r \o a)[1].frame.size = ResponseSize
    OBVIOUS
  <2>1. Len(t) \in Nat \ {0}
    BY <1>5, <1>8
  <2>2. 1 \in 1 .. Len(r) + n /\ s # <<>>
    BY <1>1, <1>2, <1>4, <1>6, <2>1
  <2> QED
    BY <1>6, <1>8, <2>2 DEF Sound, s
<1>10. Sound(r, a, TRUE, connecting)
  BY <1>1, <1>3, <1>5, <1>8, <1>9 DEF Sound
<1> QED
  BY <1>4, <1>8, <1>10 DEF a, s, t

\* The peer sends another frame.
LEMMA SendSound ==
    ASSUME NEW r, NEW w, NEW eof, NEW connecting, Sound(r, w, eof, connecting), ~eof,
           NEW f \in FrameSet
    PROVE  /\ Sound(r, w \o Units(f), eof, connecting)
           /\ r \o (w \o Units(f)) = (r \o w) \o Units(f)
<1>1. r \in Seq(Unit) /\ w \in Seq(Unit)
  BY DEF Sound
<1>2. Units(f) \in Seq(Unit)
  BY UnitsAre
<1>3. w \o Units(f) \in Seq(Unit) /\ r \o w \in Seq(Unit)
  BY <1>1, <1>2, ConcatProperties
<1>4. (r \o w) \o Units(f) = r \o (w \o Units(f))
  BY <1>1, <1>2, ConcatAssociative
<1>5. Placed(r \o w) /\ Whole(r \o w)
  BY DEF Sound
<1>6. /\ Placed((r \o w) \o Units(f)) /\ Whole((r \o w) \o Units(f))
      /\ (r \o w) \o Units(f) # <<>>
      /\ r \o w # <<>> => ((r \o w) \o Units(f))[1] = (r \o w)[1]
  BY <1>3, <1>5, JoinPlaced
<1> QED
  BY <1>1, <1>3, <1>4, <1>6 DEF Sound

----------------------------------------------------------------------------
(* The transport.                                                          *)

\* A frame that does not fit stays at the front of a full buffer, and every
\* later recv() ends the same way.
Stuck ==
    last = "too_small" /\ at # "gone" =>
        at \in {"idle", "read", "send"} /\ Len(rx) = RX /\ rx[1].frame.size > RX

\* What every step preserves: the two invariants say nothing of the units that
\* are cut off, nor of a buffer a failed recv() leaves behind.
StreamInv ==
    /\ Sound(rx, wire, peer.eof, at = "connect")
    /\ DOMAIN peer = {"frames", "parts", "text", "sent", "closed", "eof"}
    /\ peer.frames \in Nat
    /\ Stuck

\* At the start only the response is under way.
LEMMA StreamInit == Init => StreamInv
<1> SUFFICES ASSUME Init PROVE StreamInv
  OBVIOUS
<1> DEFINE f == [kind |-> "http", no |-> 0, size |-> ResponseSize, fin |-> TRUE]
<1>1. f \in FrameSet /\ f.size = ResponseSize
  <2>1. "http" \in Kinds /\ 0 \in Nat /\ ResponseSize \in Nat \ {0} /\ TRUE \in BOOLEAN
    BY DEF Kinds
  <2>2. f \in FrameSet
    BY <2>1, FrameType, Zenon
  <2> QED
    BY <2>2
<1>2. /\ Placed(<<>>) /\ Whole(<<>>) /\ <<>> \in Seq(Unit)
  BY DEF Placed, Whole
<1>3. /\ <<>> \o Units(f) \in Seq(Unit)
      /\ Placed(<<>> \o Units(f)) /\ Whole(<<>> \o Units(f)) /\ <<>> \o Units(f) # <<>>
  BY <1>1, <1>2, JoinPlaced
<1>4. Units(f) \in Seq(Unit) /\ Units(f)[1].frame = f
  <2> HIDE DEF f
  <2>1. 1 \in 1 .. f.size
    BY <1>1
  <2>2. Units(f) \in Seq(Unit) /\ Units(f)[1] = [frame |-> f, part |-> 1]
    BY <1>1, <2>1, UnitsAre
  <2> QED
    BY <2>2
<1>5. <<>> \o Units(f) = Units(f)
  BY <1>4, ConcatEmptySeq
<1>6. Sound(<<>>, Units(f), FALSE, TRUE)
  <2> HIDE DEF f
  <2> QED
    BY <1>1, <1>2, <1>3, <1>4, <1>5 DEF Sound
<1>7. rx = <<>> /\ wire = Units(f) /\ peer.eof = FALSE /\ at = "connect"
  BY DEF Init
<1>8. Sound(rx, wire, peer.eof, at = "connect")
  BY <1>6, <1>7
<1> QED
  BY <1>8 DEF Init, StreamInv, Stuck

\* A step that leaves the stream alone and does not go back to connect().
LEMMA StreamUntouched ==
    ASSUME Sound(rx, wire, peer.eof, at = "connect"),
           UNCHANGED <<rx, wire, peer>>, at' = "connect" => at = "connect"
    PROVE  Sound(rx, wire, peer.eof, at = "connect")'
BY DEF Sound

\* A step of the client that reads.
LEMMA ReadSteps ==
    ASSUME StreamInv, ConnectReads \/ Fill
    PROVE  StreamInv'
<1>1. ASSUME Arrive, at' = "connect" => at = "connect", peer' = peer
      PROVE  Sound(rx, wire, peer.eof, at = "connect")'
  <2>1. PICK n \in 1 .. Len(wire) :
            /\ Len(rx) + n <= RX
            /\ rx' = rx \o SubSeq(wire, 1, n)
            /\ wire' = SubSeq(wire, n + 1, Len(wire))
    BY <1>1 DEF Arrive
  <2>2. Sound(rx \o SubSeq(wire, 1, n), SubSeq(wire, n + 1, Len(wire)), peer.eof, at = "connect")
    BY <2>1, ArriveSound DEF StreamInv
  <2>3. Sound(rx', wire', peer'.eof, at = "connect")
    BY <1>1, <2>1, <2>2
  <2> QED
    BY <1>1, <2>3 DEF Sound
<1>2. CASE ConnectReads
  <2>1. Arrive /\ at = "connect" /\ at' = at /\ peer' = peer /\ last' = last
    BY <1>2 DEF ConnectReads
  <2>2. Sound(rx, wire, peer.eof, at = "connect")'
    BY <1>1, <2>1
  <2> QED
    BY <2>1, <2>2 DEF StreamInv, Stuck
<1>3. CASE Fill
  <2>1. CASE Arrive /\ at' = "read" /\ last' = last
    <3>1. Sound(rx, wire, peer.eof, at = "connect")'
      BY <1>1, <1>3, <2>1 DEF Fill
    <3> QED
      BY <1>3, <2>1, <3>1 DEF StreamInv, Stuck, Fill
  <2>2. CASE Return("failed") /\ UNCHANGED <<wire, rx>>
    <3>1. Sound(rx, wire, peer.eof, at = "connect")'
      BY <1>3, <2>2, StreamUntouched DEF Fill, StreamInv, Return
    <3> QED
      BY <1>3, <2>2, <3>1 DEF StreamInv, Stuck, Fill, Return
  <2> QED
    BY <1>3, <2>1, <2>2 DEF Fill
<1> QED
  BY <1>2, <1>3

\* A step of the client that takes the response or a frame out of the buffer.
LEMMA TakeSteps ==
    ASSUME StreamInv, ConnectDone \/ TakeData \/ TakePong \/ TakePing \/ TakeClose
    PROVE  StreamInv'
<1>1. /\ rx \in Seq(Unit) /\ wire \in Seq(Unit) /\ Len(rx) \in Nat
      /\ Sound(rx, wire, peer.eof, at = "connect") /\ Stuck
  BY DEF StreamInv, Sound
<1>2. rx # <<>> => 1 \in DOMAIN rx /\ rx[1].frame.size \in Nat \ {0}
  BY <1>1, UnitType
<1>3. CASE ConnectDone
  <2>1. rx # <<>> /\ Len(rx) >= ResponseSize
    BY <1>1, <1>3 DEF ConnectDone
  <2>2. (rx \o wire)[1] = rx[1] /\ rx \o wire # <<>>
    <3>1. /\ rx \o wire \in Seq(Unit) /\ Len(rx \o wire) = Len(rx) + Len(wire)
          /\ \A i \in 1 .. Len(rx) + Len(wire) :
                (rx \o wire)[i] = IF i <= Len(rx) THEN rx[i] ELSE wire[i - Len(rx)]
      BY <1>1, ConcatProperties
    <3>2. 1 \in 1 .. Len(rx) + Len(wire) /\ 1 <= Len(rx) /\ Len(rx) + Len(wire) # 0
      BY <1>1, <2>1
    <3> QED
      BY <3>1, <3>2
  <2>3. rx[1].frame.size = ResponseSize
    BY <1>1, <1>3, <2>2 DEF Sound, ConnectDone
  <2>4. Sound(SubSeq(rx, ResponseSize + 1, Len(rx)), wire, peer.eof, FALSE)
    BY <1>1, <2>1, <2>3, ConsumeSound
  <2>5. Sound(rx, wire, peer.eof, at = "connect")'
    BY <1>3, <2>4 DEF ConnectDone, Accepted, Sound
  <2>6. last' # "too_small"
    BY <1>1, <1>3 DEF ConnectDone, Stuck
  <2> QED
    BY <1>3, <2>5, <2>6 DEF StreamInv, Stuck, ConnectDone
<1>4. CASE TakeData \/ TakePong \/ TakePing \/ TakeClose
  <2>1. /\ at = "read" /\ Complete(rx) /\ rx' = Consume(rx) /\ at' # "connect"
        /\ wire' = wire /\ peer' = peer /\ (last' = last \/ last' \in {"ok", "failed", "close"})
    BY <1>4 DEF TakeData, TakePong, TakePing, TakeClose, Readable, Write, Return
  <2>2. rx # <<>> /\ rx[1].frame.size <= Len(rx)
    BY <1>1, <1>2, <2>1 DEF Complete
  <2>3. Sound(rx', wire, peer.eof, FALSE)
    BY <1>1, <2>1, <2>2, ConsumeSound DEF Consume
  <2>4. Sound(rx, wire, peer.eof, at = "connect")'
    BY <2>1, <2>3 DEF Sound
  <2>5. last' # "too_small"
    BY <1>1, <1>2, <2>1, <2>2 DEF Stuck
  <2> QED
    BY <2>1, <2>4, <2>5 DEF StreamInv, Stuck
<1> QED
  BY <1>3, <1>4

\* A step of the client that leaves the stream alone.
LEMMA QuietSteps ==
    ASSUME StreamInv,
           ConnectFails \/ CallRecv \/ CallSend \/ CallClose \/ NeedsMore \/ ReadFails
               \/ WritePart \/ WriteDone \/ WriteFails \/ Cancel
    PROVE  StreamInv'
<1>1. /\ rx \in Seq(Unit) /\ Len(rx) \in Nat /\ RX \in Nat \ {0}
      /\ Sound(rx, wire, peer.eof, at = "connect") /\ Stuck
  BY DEF StreamInv, Sound
<1>2. UNCHANGED <<rx, wire, peer>> /\ (at' = "connect" => at = "connect")
  BY DEF ConnectFails, CallRecv, CallSend, CallClose, Write, NeedsMore, ReadFails, WritePart,
         WriteDone, WriteFails, Cancel, Return
<1>3. Sound(rx, wire, peer.eof, at = "connect")'
  BY <1>1, <1>2, StreamUntouched
<1>4. CASE NeedsMore
  <2>1. ASSUME Full, Return("too_small") PROVE Stuck'
    <3>1. Len(rx) = RX /\ rx # <<>> /\ 1 \in DOMAIN rx
      BY <1>1, <2>1 DEF Full
    <3>2. rx[1].frame.size \in Nat
      BY <1>1, <3>1, UnitType
    <3>3. rx[1].frame.size > RX
      BY <1>1, <1>4, <3>1, <3>2 DEF NeedsMore, Complete
    <3> QED
      BY <1>2, <2>1, <3>1, <3>3 DEF Stuck, Return
  <2>2. ASSUME ~Full, at' = "fill", last' = last PROVE Stuck'
    <3>1. last # "too_small"
      BY <1>1, <1>4, <2>2 DEF Stuck, Full, NeedsMore
    <3> QED
      BY <2>2, <3>1 DEF Stuck
  <2>3. Stuck'
    BY <1>4, <2>1, <2>2 DEF NeedsMore
  <2> QED
    BY <1>2, <1>3, <2>3 DEF StreamInv
<1>5. CASE \/ ConnectFails \/ CallRecv \/ CallSend \/ CallClose \/ ReadFails
           \/ WritePart \/ WriteDone \/ WriteFails \/ Cancel
  <2>1. Stuck'
    BY <1>1, <1>2, <1>5
    DEF Stuck, ConnectFails, CallRecv, CallSend, CallClose, Write, ReadFails, WritePart,
        WriteDone, WriteFails, Cancel, Return
  <2> QED
    BY <1>2, <1>3, <2>1 DEF StreamInv
<1> QED
  BY <1>4, <1>5

\* A step of the peer.
LEMMA PeerSteps ==
    ASSUME StreamInv, PeerStep
    PROVE  StreamInv'
<1>1. /\ Sound(rx, wire, peer.eof, at = "connect") /\ Stuck
      /\ rx' = rx /\ at' = at /\ last' = last
  BY DEF StreamInv, PeerStep, PeerData, PeerControl, PeerEof
<1>2. Stuck'
  BY <1>1 DEF Stuck
<1>3. ASSUME NEW f \in FrameSet, ~peer.eof, wire' = wire \o Units(f), peer'.eof = peer.eof
      PROVE  Sound(rx, wire, peer.eof, at = "connect")'
  <2>1. Sound(rx, wire \o Units(f), peer.eof, at = "connect")
    BY <1>1, <1>3, SendSound
  <2> QED
    BY <1>1, <1>3, <2>1 DEF Sound
<1>4. ASSUME NEW kind \in DataKinds, NEW size \in 1 .. MaxSize, NEW fin \in BOOLEAN,
             PeerData(kind, size, fin)
      PROVE  StreamInv'
  <2> DEFINE f == [kind |-> kind, no |-> peer.frames + 1, size |-> size, fin |-> fin]
  <2>1. f \in FrameSet
    <3>1. kind \in Kinds /\ peer.frames + 1 \in Nat /\ size \in Nat \ {0}
      BY DEF Kinds, DataKinds, StreamInv
    <3> QED
      BY <3>1, FrameType
  <2>2. /\ ~peer.eof /\ wire' = wire \o Units(f) /\ peer'.eof = peer.eof
        /\ DOMAIN peer' = DOMAIN peer /\ peer'.frames \in Nat
    BY <1>4 DEF PeerData, PeerMaySend, StreamInv
  <2> HIDE DEF f
  <2>3. Sound(rx, wire, peer.eof, at = "connect")'
    BY <1>3, <2>1, <2>2
  <2> QED
    BY <1>2, <2>2, <2>3 DEF StreamInv
<1>5. ASSUME NEW kind \in {"ping", "pong", "close", "bad"}, NEW size \in Nat \ {0},
             PeerControl(kind, size)
      PROVE  StreamInv'
  <2> DEFINE f == [kind |-> kind, no |-> 0, size |-> size, fin |-> TRUE]
  <2>1. f \in FrameSet
    <3>1. kind \in Kinds /\ 0 \in Nat /\ size \in Nat \ {0}
      BY DEF Kinds
    <3> QED
      BY <3>1, FrameType
  <2>2. /\ ~peer.eof /\ wire' = wire \o Units(f) /\ peer'.eof = peer.eof
        /\ DOMAIN peer' = DOMAIN peer /\ peer'.frames \in Nat
    BY <1>5 DEF PeerControl, PeerMaySend, StreamInv
  <2> HIDE DEF f
  <2>3. Sound(rx, wire, peer.eof, at = "connect")'
    BY <1>3, <2>1, <2>2
  <2> QED
    BY <1>2, <2>2, <2>3 DEF StreamInv
<1>6. CASE PeerEof
  <2>1. PICK n \in 0 .. Len(wire) : wire' = SubSeq(wire, 1, n)
    BY <1>6 DEF PeerEof
  <2>2. /\ peer'.eof = TRUE /\ DOMAIN peer' = DOMAIN peer /\ peer'.frames = peer.frames
    BY <1>6 DEF PeerEof, StreamInv
  <2>3. Sound(rx, SubSeq(wire, 1, n), TRUE, at = "connect")
    BY <1>1, EofSound
  <2>4. Sound(rx, wire, peer.eof, at = "connect")'
    BY <1>1, <2>1, <2>2, <2>3 DEF Sound
  <2> QED
    BY <1>2, <2>2, <2>4 DEF StreamInv
<1>7. ASSUME NEW size \in 1 .. MaxControl PROVE size \in Nat \ {0}
  OBVIOUS
<1> QED
  BY <1>4, <1>5, <1>6, <1>7 DEF PeerStep

\* Every action keeps the invariant, and so it always holds.
LEMMA StreamStep == StreamInv /\ [Next]_vars => StreamInv'
<1> SUFFICES ASSUME StreamInv, [Next]_vars PROVE StreamInv'
  OBVIOUS
<1>1. CASE PeerStep
  BY <1>1, PeerSteps
<1>2. CASE CallRecv \/ CallSend \/ CallClose \/ Cancel
  BY <1>2, QuietSteps
<1>3. CASE TransportStep
  BY <1>3, QuietSteps, ReadSteps, TakeSteps DEF TransportStep
<1>4. CASE UNCHANGED vars
  BY <1>4 DEF vars, StreamInv, Stuck, Sound
<1> QED
  BY <1>1, <1>2, <1>3, <1>4 DEF Next

\* The invariant of the stream holds in every behaviour.
LEMMA StreamHolds == Spec => []StreamInv
BY StreamInit, StreamStep, PTL DEF Spec

\* The receive buffer starts with the first unit of a frame and the stream
\* goes on behind it unit by unit, however reads are cut, dropped or ended by
\* the peer (connect, fill, consume).
THEOREM FramesStayWhole == Spec => []BufferAligned
<1>1. StreamInv => BufferAligned
  <2> SUFFICES ASSUME StreamInv PROVE BufferAligned
    OBVIOUS
  <2> DEFINE s == rx \o wire
  <2>1. rx \in Seq(Unit) /\ wire \in Seq(Unit) /\ Len(rx) <= RX /\ Placed(s)
    BY DEF StreamInv, Sound
  <2>2. s \in Seq(Unit)
    BY <2>1, ConcatProperties
  <2>3. rx # <<>> => rx[1].part = 1
    <3>1. SUFFICES ASSUME rx # <<>> PROVE rx[1].part = 1
      OBVIOUS
    <3>2. /\ Len(s) = Len(rx) + Len(wire)
          /\ \A i \in 1 .. Len(rx) + Len(wire) : s[i] = IF i <= Len(rx) THEN rx[i] ELSE wire[i - Len(rx)]
      BY <2>1, ConcatProperties
    <3>3. 1 \in 1 .. Len(rx) + Len(wire) /\ 1 <= Len(rx) /\ Len(rx) + Len(wire) # 0
      BY <2>1, <3>1
    <3>4. s[1] = rx[1] /\ s # <<>>
      BY <2>2, <3>2, <3>3
    <3> HIDE DEF s
    <3> QED
      BY <2>1, <2>2, <3>4, FrontFrame
  <2> HIDE DEF s
  <2>4. \A i \in 1 .. Len(s) - 1 :
            IF s[i].part = s[i].frame.size
            THEN s[i + 1].part = 1
            ELSE s[i + 1].part = s[i].part + 1 /\ s[i + 1].frame = s[i].frame
    BY <2>1, <2>2, Neighbours
  <2> QED
    BY <2>1, <2>3, <2>4 DEF BufferAligned, s
<1> QED
  BY <1>1, StreamHolds, PTL

\* recv() reports a frame too large only while one larger than the buffer
\* stands at its front (fill, BufferTooSmall).
THEOREM OnlyLargeFramesRefused == Spec => []FittingFramesAreRead
<1>1. StreamInv => FittingFramesAreRead
  <2> SUFFICES ASSUME StreamInv, last = "too_small", at # "gone"
               PROVE  rx # <<>> /\ rx[1].frame.size > RX
    BY DEF FittingFramesAreRead
  <2>1. Len(rx) = RX /\ rx[1].frame.size > RX /\ rx \in Seq(Unit)
    BY DEF StreamInv, Stuck, Sound
  <2> QED
    BY <2>1
<1> QED
  BY <1>1, StreamHolds, PTL

----------------------------------------------------------------------------
(* The data frames of a stream.                                            *)

\* The units that complete a fragment or a message.
Ends(s) == {i \in DOMAIN s : s[i].part = s[i].frame.size /\ s[i].frame.kind \in DataKinds}

\* The data frames that are there in full.
DataFrames(s) == {s[i].frame : i \in Ends(s)}

\* They are numbered in their order.
Numbered(s) == \A i, h \in Ends(s) : i < h => s[i].frame.no < s[h].frame.no

\* The first frame of a stream, when it is there in full.
LEMMA FirstEnd ==
    ASSUME NEW s \in Seq(Unit), Placed(s), s # <<>>, NEW n, n = s[1].frame.size, n <= Len(s)
    PROVE  /\ n \in Nat \ {0} /\ n \in DOMAIN s /\ s[n].frame = s[1].frame
           /\ n \in Ends(s) <=> s[1].frame.kind \in DataKinds
           /\ \A i \in Ends(s) : i = n \/ i > n
<1>1. DOMAIN s = 1 .. Len(s) /\ Len(s) \in Nat \ {0} /\ 1 \in DOMAIN s
  OBVIOUS
<1>2. n \in Nat \ {0} /\ s[1].part = 1
  BY <1>1, UnitType, FrontFrame
<1>3. \A p \in 1 .. n : p \in DOMAIN s /\ 1 - s[1].part + p = p
  BY <1>1, <1>2
<1>4. \A p \in 1 .. n : s[p] = [frame |-> s[1].frame, part |-> p]
  <2> SUFFICES ASSUME NEW p \in 1 .. n PROVE s[p] = [frame |-> s[1].frame, part |-> p]
    OBVIOUS
  <2>1. 1 - s[1].part + p \in DOMAIN s =>
            s[1 - s[1].part + p] = [frame |-> s[1].frame, part |-> p]
    BY <1>1 DEF Placed
  <2> QED
    BY <1>3, <2>1
<1>5. n \in 1 .. n
  BY <1>2
<1>6. s[n].frame = s[1].frame /\ s[n].part = n
  <2>1. s[n] = [frame |-> s[1].frame, part |-> n]
    BY <1>4, <1>5, Zenon
  <2> QED
    BY <2>1
<1>7. ASSUME NEW i \in Ends(s), ~(i = n \/ i > n) PROVE FALSE
  <2>1. i \in 1 .. n
    BY <1>1, <1>2, <1>7 DEF Ends
  <2>2. s[i] = [frame |-> s[1].frame, part |-> i]
    BY <1>4, <2>1, Zenon
  <2>3. s[i].part = i /\ s[i].frame.size = n
    BY <2>2
  <2> QED
    BY <1>7, <2>3 DEF Ends
<1> QED
  BY <1>1, <1>2, <1>3, <1>5, <1>6, <1>7 DEF Ends

\* Positions behind the first k.
LEMMA Shifted ==
    ASSUME NEW k \in Nat, NEW l \in Nat, NEW i \in 1 .. l, i > k
    PROVE  i - k \in 1 .. l - k /\ i - k + k = i
OBVIOUS

\* Behind the first frame the stream has the same data frames but that one, which
\* has the smallest number.
LEMMA RestFrames ==
    ASSUME NEW s \in Seq(Unit), Placed(s), s # <<>>, s[1].frame.size <= Len(s), Numbered(s)
    PROVE  /\ Numbered(Consume(s))
           /\ s[1].frame.kind \notin DataKinds => DataFrames(Consume(s)) = DataFrames(s)
           /\ s[1].frame.kind \in DataKinds =>
                /\ DataFrames(s) = DataFrames(Consume(s)) \cup {s[1].frame}
                /\ \A f \in DataFrames(Consume(s)) : s[1].frame.no < f.no
<1> PICK n : n = s[1].frame.size
  OBVIOUS
<1> PICK t : t = SubSeq(s, n + 1, Len(s))
  OBVIOUS
<1>0. t = Consume(s)
  BY DEF Consume
<1>1. /\ n \in Nat \ {0} /\ n \in DOMAIN s /\ s[n].frame = s[1].frame
      /\ n \in Ends(s) <=> s[1].frame.kind \in DataKinds
      /\ \A i \in Ends(s) : i = n \/ i > n
  BY FirstEnd
<1>2. DOMAIN s = 1 .. Len(s) /\ Len(s) \in Nat /\ n \in 0 .. Len(s)
  BY <1>1
<1>3. /\ t \in Seq(Unit) /\ Len(t) = Len(s) - n
      /\ \A i \in 1 .. Len(s) - n : t[i] = s[i + n]
  BY <1>2, RestUnits
<1>4. DOMAIN t = 1 .. Len(s) - n
  BY <1>3, LenProperties
<1>5. \A i \in DOMAIN t : i \in Nat /\ i + n \in DOMAIN s /\ i + n # n /\ t[i] = s[i + n]
  <2>1. n \in Nat \ {0} /\ n <= Len(s)
    BY <1>1
  <2>2. \A i \in 1 .. Len(s) - n : i \in Nat /\ i + n \in 1 .. Len(s) /\ i + n # n
    <3>1. \A k, l \in Nat : \A i \in 1 .. l - k : i \in Nat /\ i + k \in 1 .. l /\ i + k # k
      OBVIOUS
    <3> QED
      BY <1>2, <2>1, <3>1
  <2> QED
    BY <1>2, <1>3, <1>4, <2>2
<1>6. ASSUME NEW i \in Ends(t) PROVE i \in DOMAIN t /\ i + n \in Ends(s) \ {n} /\ t[i] = s[i + n]
  BY <1>5 DEF Ends
<1>7. ASSUME NEW i \in Ends(s) \ {n} PROVE i - n \in Ends(t) /\ t[i - n] = s[i]
  <2>1. i > n /\ i \in DOMAIN s
    BY <1>1 DEF Ends
  <2>2. i - n \in DOMAIN t /\ i - n + n = i
    <3> PICK k, l : k = n /\ l = Len(s)
      OBVIOUS
    <3>1. k \in Nat /\ l \in Nat /\ i \in 1 .. l /\ i > k
      BY <1>1, <1>2, <2>1
    <3>2. i - k \in 1 .. l - k /\ i - k + k = i
      BY <3>1, Shifted
    <3> QED
      BY <1>4, <3>2
  <2>3. t[i - n] = s[i]
    BY <1>5, <2>2
  <2> QED
    BY <2>2, <2>3 DEF Ends
<1>8. Numbered(t)
  <2> SUFFICES ASSUME NEW i \in Ends(t), NEW h \in Ends(t), i < h
               PROVE  t[i].frame.no < t[h].frame.no
    BY DEF Numbered
  <2>1. i + n < h + n
    <3>1. i \in Nat /\ h \in Nat /\ n \in Nat
      BY <1>1, <1>5, <1>6
    <3> QED
      BY <3>1
  <2> QED
    BY <1>6, <2>1 DEF Numbered
<1>9. DataFrames(t) = {s[i].frame : i \in Ends(s) \ {n}}
  <2> DEFINE rest == {s[i].frame : i \in Ends(s) \ {n}}
  <2>1. ASSUME NEW g \in DataFrames(t) PROVE g \in rest
    <3>1. PICK i \in Ends(t) : g = t[i].frame
      BY Zenon DEF DataFrames
    <3>2. g = s[i + n].frame /\ i + n \in Ends(s) \ {n}
      BY <1>6, <3>1
    <3> QED
      BY <3>2, Zenon
  <2>2. ASSUME NEW g \in rest PROVE g \in DataFrames(t)
    <3>1. PICK k \in Ends(s) \ {n} : g = s[k].frame
      BY Zenon
    <3>2. g = t[k - n].frame /\ k - n \in Ends(t)
      BY <1>7, <3>1
    <3> QED
      BY <3>2, Zenon DEF DataFrames
  <2> QED
    BY <2>1, <2>2
<1>10. s[1].frame.kind \notin DataKinds => DataFrames(t) = DataFrames(s)
  BY <1>1, <1>9 DEF DataFrames
<1>11. ASSUME s[1].frame.kind \in DataKinds
       PROVE  /\ DataFrames(s) = DataFrames(t) \cup {s[1].frame}
              /\ \A f \in DataFrames(t) : s[1].frame.no < f.no
  <2>0. n \in Ends(s)
    BY <1>1, <1>11
  <2>1. DataFrames(s) = DataFrames(t) \cup {s[1].frame}
    BY <1>1, <1>9, <2>0 DEF DataFrames
  <2>2. ASSUME NEW i \in Ends(s) \ {n} PROVE s[1].frame.no < s[i].frame.no
    <3>1. n < i
      BY <1>1, <1>2 DEF Ends
    <3> QED
      BY <1>1, <2>0, <3>1 DEF Numbered
  <2>3. ASSUME NEW f \in DataFrames(t) PROVE s[1].frame.no < f.no
    <3>1. PICK i \in Ends(s) \ {n} : f = s[i].frame
      BY <1>9, Zenon
    <3> QED
      BY <2>2, <3>1
  <2> QED
    BY <2>1, <2>3
<1> QED
  BY <1>0, <1>8, <1>10, <1>11, Zenon

\* A prefix has no others, and what it lacks has greater numbers.
LEMMA PrefixFrames ==
    ASSUME NEW s \in Seq(Unit), NEW n \in 0 .. Len(s), Numbered(s), NEW t, t = SubSeq(s, 1, n)
    PROVE  /\ Numbered(t)
           /\ DataFrames(t) \subseteq DataFrames(s)
           /\ \A f \in DataFrames(t), g \in DataFrames(s) \ DataFrames(t) : f.no < g.no
<1>1. DOMAIN s = 1 .. Len(s) /\ Len(s) \in Nat /\ n \in Nat
  OBVIOUS
<1>2. /\ t \in Seq(Unit) /\ DOMAIN t = 1 .. n
      /\ \A i \in DOMAIN t : t[i] = s[i] /\ i \in DOMAIN s
  BY <1>1, SubSeqProperties
<1>3. \A i \in Ends(t) : i \in Ends(s) /\ t[i] = s[i] /\ i <= n
  BY <1>1, <1>2 DEF Ends
<1>4. \A i \in Ends(s) : i <= n => i \in Ends(t)
  BY <1>1, <1>2 DEF Ends
<1>5. ASSUME NEW f \in DataFrames(t), NEW g \in DataFrames(s) \ DataFrames(t) PROVE f.no < g.no
  <2>1. PICK i \in Ends(t) : f = t[i].frame
    BY DEF DataFrames
  <2>2. PICK h \in Ends(s) : g = s[h].frame
    BY DEF DataFrames
  <2>3. h \notin Ends(t)
    BY <1>3, <2>2 DEF DataFrames
  <2>4. i < h
    BY <1>1, <1>3, <1>4, <2>3 DEF Ends
  <2> QED
    BY <1>3, <2>1, <2>2, <2>4 DEF Numbered
<1> QED
  BY <1>3, <1>5 DEF Numbered, DataFrames

\* A frame that is sent comes last.
LEMMA JoinFrames ==
    ASSUME NEW s \in Seq(Unit), NEW f \in FrameSet, Numbered(s), NEW t, t = s \o Units(f),
           f.kind \in DataKinds => \A g \in DataFrames(s) : g.no < f.no
    PROVE  /\ Numbered(t)
           /\ DataFrames(t) = IF f.kind \in DataKinds THEN DataFrames(s) \cup {f} ELSE DataFrames(s)
<1> PICK n : n = Len(s)
  OBVIOUS
<1> PICK end : end = n + f.size
  OBVIOUS
<1>1. f.size \in Nat \ {0} /\ n \in Nat /\ DOMAIN s = 1 .. n
  BY DEF FrameSet
<1>2. /\ Units(f) \in Seq(Unit) /\ Len(Units(f)) = f.size
      /\ \A i \in 1 .. f.size : Units(f)[i] = [frame |-> f, part |-> i]
  BY UnitsAre
<1>3. /\ t \in Seq(Unit) /\ DOMAIN t = 1 .. end
      /\ \A i \in 1 .. n : t[i] = s[i]
      /\ \A i \in n + 1 .. end : t[i] = [frame |-> f, part |-> i - n]
  <2>1. /\ t \in Seq(Unit) /\ Len(t) = n + f.size
        /\ \A i \in 1 .. n + f.size : t[i] = IF i <= n THEN s[i] ELSE Units(f)[i - n]
    BY <1>1, <1>2, ConcatProperties
  <2>2. \A i \in n + 1 .. n + f.size : i - n \in 1 .. f.size /\ ~(i <= n)
    BY <1>1
  <2> QED
    BY <1>1, <1>2, <2>1, <2>2
<1>4. /\ end \in n + 1 .. end /\ end - n = f.size /\ n < end
      /\ \A i \in n + 1 .. end : i - n = f.size => i = end
  <2> PICK size : size = f.size
    OBVIOUS
  <2>1. size \in Nat \ {0} /\ end = n + size
    BY <1>1
  <2> QED
    BY <1>1, <2>1
<1>5. t[end] = [frame |-> f, part |-> f.size] /\ t[end].frame = f
  <2>1. t[end] = [frame |-> f, part |-> f.size]
    BY <1>3, <1>4
  <2>2. [frame |-> f, part |-> f.size].frame = f
    OBVIOUS
  <2> QED
    BY <2>1, <2>2, Zenon
<1>6. ASSUME NEW i \in Ends(s) PROVE i \in Ends(t) /\ t[i] = s[i] /\ i <= n
  BY <1>1, <1>3, <1>4 DEF Ends
<1>7. ASSUME NEW i \in Ends(t) PROVE i \in Ends(s) \/ (i = end /\ f.kind \in DataKinds)
  <2>1. CASE i \in 1 .. n
    BY <1>1, <1>3, <2>1 DEF Ends
  <2>2. CASE i \notin 1 .. n
    <3>1. i \in n + 1 .. end
      BY <1>1, <1>3, <2>2 DEF Ends
    <3>2. t[i] = [frame |-> f, part |-> i - n]
      BY <1>3, <3>1
    <3>3. i - n = f.size /\ f.kind \in DataKinds
      BY <3>2 DEF Ends
    <3> QED
      BY <1>4, <3>1, <3>3
  <2> QED
    BY <2>1, <2>2
<1>8. f.kind \in DataKinds => end \in Ends(t)
  <2>1. end \in DOMAIN t
    BY <1>1, <1>3, <1>4
  <2> QED
    BY <1>5, <2>1 DEF Ends
<1>9. Numbered(t)
  <2> SUFFICES ASSUME NEW i \in Ends(t), NEW h \in Ends(t), i < h
               PROVE  t[i].frame.no < t[h].frame.no
    BY DEF Numbered
  <2>1. i \in Ends(s)
    <3>1. h \in 1 .. end
      BY <1>3 DEF Ends
    <3>2. i # end
      BY <1>1, <1>4, <3>1
    <3> QED
      BY <1>7, <3>2
  <2>2. CASE h \in Ends(s)
    BY <1>6, <2>1, <2>2 DEF Numbered
  <2>3. CASE h = end /\ f.kind \in DataKinds
    <3>1. t[i].frame \in DataFrames(s)
      BY <1>6, <2>1, Zenon DEF DataFrames
    <3>2. t[h].frame = f
      BY <1>5, <2>3, Zenon
    <3> QED
      BY <2>3, <3>1, <3>2
  <2> QED
    BY <1>7, <2>2, <2>3
<1>10. CASE f.kind \in DataKinds
  <2>1. Ends(t) = Ends(s) \cup {end}
    BY <1>6, <1>7, <1>8, <1>10
  <2>2. t[end].frame = f
    BY <1>5
  <2>3. DataFrames(t) = DataFrames(s) \cup {f}
    <3>1. DataFrames(t) = {t[i].frame : i \in Ends(s)} \cup {t[end].frame}
      BY <2>1, Zenon DEF DataFrames
    <3>2. {t[i].frame : i \in Ends(s)} = DataFrames(s)
      BY <1>6 DEF DataFrames
    <3> QED
      BY <2>2, <3>1, <3>2
  <2> QED
    BY <1>9, <1>10, <2>3
<1>11. CASE f.kind \notin DataKinds
  <2>1. Ends(t) = Ends(s)
    BY <1>6, <1>7, <1>11
  <2> QED
    BY <1>6, <1>9, <1>11, <2>1 DEF DataFrames
<1> QED
  BY <1>10, <1>11

----------------------------------------------------------------------------
(* The messages of the peer.                                               *)

\* Those the peer p has finished, and the one it is at.
MessagesOf(p) == Append(p.sent, [parts |-> p.parts, text |-> p.text])

Messages == MessagesOf(peer)

\* The place of a fragment among others: the message, and the fragment in it.
Before(m, j, n, l) == m < n \/ (m = n /\ j < l)

\* Fragments are numbered in their order, up to top, and every message but the
\* last has one.
InOrder(M, top) ==
    /\ \A m \in DOMAIN M : m < Len(M) => M[m].parts # <<>>
    /\ \A m, n \in DOMAIN M : \A j \in DOMAIN M[m].parts, l \in DOMAIN M[n].parts :
            Before(m, j, n, l) => M[m].parts[j] < M[n].parts[l]
    /\ \A m \in DOMAIN M : \A j \in DOMAIN M[m].parts : M[m].parts[j] <= top

\* The data frame f carries the fragment j of message m.
Carries(f, M, m, j) ==
    /\ m \in DOMAIN M /\ j \in DOMAIN M[m].parts
    /\ f.no = M[m].parts[j]
    /\ f.fin <=> m < Len(M) /\ j = Len(M[m].parts)
    /\ f.kind = "text" <=> M[m].text

\* recv() has returned the first r messages and taken k fragments of the next.
Ahead(m, j, r, k) == m > r + 1 \/ (m = r + 1 /\ j > k)

\* The frames F carry fragments that recv() has yet to take: all of them as long
\* as the peer has not cut the stream off, and then those up to some place.
UnderWay(F, M, r, k, eof) ==
    /\ \A f \in F : \E m, j \in Nat : Carries(f, M, m, j) /\ Ahead(m, j, r, k)
    /\ \A m \in DOMAIN M : \A j \in DOMAIN M[m].parts :
            Ahead(m, j, r, k) /\ (eof => \E f \in F : M[m].parts[j] <= f.no)
            => \E f \in F : f.no = M[m].parts[j]

\* What has been returned and collected are messages, and the beginning of the next.
Collected(M, got, collected) ==
    /\ Len(got) + 1 \in DOMAIN M
    /\ Len(collected.parts) <= Len(M[Len(got) + 1].parts)
    /\ Len(got) + 1 < Len(M) => Len(collected.parts) < Len(M[Len(got) + 1].parts)
    /\ \A i \in DOMAIN got : got[i] = M[i]
    /\ \A j \in DOMAIN collected.parts : collected.parts[j] = M[Len(got) + 1].parts[j]
    /\ collected.parts # <<>> => collected.text = M[Len(got) + 1].text

\* What messages hold.
LEMMA MessageType ==
    ASSUME NEW M \in Seq(Message), NEW m \in DOMAIN M
    PROVE  /\ M[m] \in Message /\ m \in Nat /\ m >= 1 /\ m <= Len(M) /\ Len(M) \in Nat
           /\ M[m].parts \in Seq(Nat) /\ M[m].text \in BOOLEAN /\ Len(M[m].parts) \in Nat
           /\ DOMAIN M[m].parts = 1 .. Len(M[m].parts)
           /\ \A j \in DOMAIN M[m].parts : M[m].parts[j] \in Nat /\ j \in Nat
<1>1. M[m] \in Message /\ m \in Nat /\ m >= 1 /\ m <= Len(M) /\ Len(M) \in Nat
  BY ElementOfSeq, LenProperties
<1>2. M[m].parts \in Seq(Nat) /\ M[m].text \in BOOLEAN
  BY <1>1 DEF Message
<1> PICK parts : parts = M[m].parts
  OBVIOUS
<1>3. /\ Len(parts) \in Nat /\ DOMAIN parts = 1 .. Len(parts)
      /\ \A j \in DOMAIN parts : parts[j] \in Nat /\ j \in Nat
  BY <1>2, ElementOfSeq, LenProperties
<1> QED
  BY <1>1, <1>2, <1>3

\* The first frame under way carries the next fragment.
LEMMA FirstIsNext ==
    ASSUME NEW M \in Seq(Message), NEW top, InOrder(M, top), NEW got \in Seq(Message),
           NEW collected \in Message, Collected(M, got, collected), NEW eof,
           NEW F, UnderWay(F, M, Len(got), Len(collected.parts), eof),
           NEW f \in F, \A g \in F : g = f \/ f.no < g.no
    PROVE  Carries(f, M, Len(got) + 1, Len(collected.parts) + 1)
<1> PICK r, k : r = Len(got) /\ k = Len(collected.parts)
  OBVIOUS
<1>1. r \in Nat /\ k \in Nat
  BY LenProperties DEF Message
<1>2. PICK m, j \in Nat : Carries(f, M, m, j) /\ Ahead(m, j, r, k)
  BY DEF UnderWay
<1>3. m \in DOMAIN M /\ j \in DOMAIN M[m].parts /\ f.no = M[m].parts[j]
  BY <1>2 DEF Carries
<1>4. /\ r + 1 \in DOMAIN M /\ k <= Len(M[r + 1].parts)
      /\ r + 1 < Len(M) => k < Len(M[r + 1].parts)
  BY DEF Collected
<1>5. CASE m = r + 1 /\ j = k + 1
  BY <1>2, <1>5
<1>6. CASE ~(m = r + 1 /\ j = k + 1)
  <2> PICK next : next = M[r + 1].parts
    OBVIOUS
  <2>1. Before(r + 1, k + 1, m, j)
    BY <1>1, <1>2, <1>6 DEF Ahead, Before
  <2>2. /\ Len(next) \in Nat /\ DOMAIN next = 1 .. Len(next) /\ m <= Len(M) /\ Len(M) \in Nat
        /\ m = r + 1 => j <= Len(next)
    BY <1>3, <1>4, MessageType
  <2>3. k + 1 <= Len(next)
    <3>1. CASE m > r + 1
      <4>1. r + 1 < Len(M)
        BY <1>1, <2>2, <3>1
      <4> QED
        BY <1>1, <1>4, <2>2, <4>1
    <3>2. CASE m = r + 1
      BY <1>1, <1>2, <1>6, <2>2, <3>2 DEF Ahead
    <3> QED
      BY <1>1, <1>2, <3>1, <3>2 DEF Ahead
  <2>4. k + 1 \in DOMAIN next
    BY <1>1, <2>2, <2>3
  <2>5. next[k + 1] < f.no
    BY <1>3, <1>4, <2>1, <2>4 DEF InOrder
  <2>6. next[k + 1] \in Nat /\ f.no \in Nat
    <3>1. f.no \in Nat
      BY <1>3, MessageType
    <3>2. next \in Seq(Nat)
      BY <1>4, MessageType
    <3> QED
      BY <2>4, <3>1, <3>2, ElementOfSeq
  <2>7. Ahead(r + 1, k + 1, r, k)
    BY <1>1 DEF Ahead
  <2>8. PICK g \in F : g.no = next[k + 1]
    BY <1>4, <2>4, <2>5, <2>6, <2>7 DEF UnderWay
  <2> QED
    BY <2>5, <2>6, <2>8
<1> QED
  BY <1>5, <1>6

\* What recv() makes of a fragment: r and k behind it, and what it has then.
Taken(f, r, k, n, l) == IF f.fin THEN n = r + 1 /\ l = 0 ELSE n = r /\ l = k + 1

\* Taking the next fragment leaves those behind it under way.
LEMMA TakenUnderWay ==
    ASSUME NEW M \in Seq(Message), NEW top, InOrder(M, top), NEW r \in Nat, NEW k \in Nat,
           NEW eof, NEW F, NEW f, UnderWay(F \cup {f}, M, r, k, eof),
           \A g \in F : f.no < g.no, Carries(f, M, r + 1, k + 1),
           NEW n \in Nat, NEW l \in Nat, Taken(f, r, k, n, l)
    PROVE  UnderWay(F, M, n, l, eof)
<1>1. /\ r + 1 \in DOMAIN M /\ k + 1 \in DOMAIN M[r + 1].parts /\ f.no = M[r + 1].parts[k + 1]
      /\ f.fin => k + 1 = Len(M[r + 1].parts)
  BY DEF Carries
<1>2. f.no \in Nat
  BY <1>1, MessageType
<1>3. ASSUME NEW m \in DOMAIN M, NEW j \in DOMAIN M[m].parts
      PROVE  Ahead(m, j, n, l) <=> Ahead(m, j, r, k) /\ ~(m = r + 1 /\ j = k + 1)
  <2>1. m \in Nat /\ j \in Nat /\ j >= 1 /\ (m = r + 1 => j <= Len(M[r + 1].parts))
    BY MessageType
  <2>2. CASE f.fin
    <3>1. n = r + 1 /\ l = 0
      BY <2>2 DEF Taken
    <3>2. m = r + 1 => j <= k + 1
      BY <1>1, <2>1, <2>2
    <3> QED
      BY <2>1, <3>1, <3>2 DEF Ahead
  <2>3. CASE ~f.fin
    <3>1. n = r /\ l = k + 1
      BY <2>3 DEF Taken
    <3> QED
      BY <2>1, <3>1 DEF Ahead
  <2> QED
    BY <2>2, <2>3
<1>4. ASSUME NEW g \in F
      PROVE  \E m, j \in Nat : Carries(g, M, m, j) /\ Ahead(m, j, n, l)
  <2>1. PICK m, j \in Nat : Carries(g, M, m, j) /\ Ahead(m, j, r, k)
    BY DEF UnderWay
  <2>2. m \in DOMAIN M /\ j \in DOMAIN M[m].parts /\ g.no = M[m].parts[j]
    BY <2>1 DEF Carries
  <2>3. ~(m = r + 1 /\ j = k + 1)
    BY <1>1, <1>2, <2>2
  <2> QED
    BY <1>3, <2>1, <2>2, <2>3
<1>5. ASSUME NEW m \in DOMAIN M, NEW j \in DOMAIN M[m].parts, Ahead(m, j, n, l),
             eof => \E g \in F : M[m].parts[j] <= g.no
      PROVE  \E g \in F : g.no = M[m].parts[j]
  <2>1. Ahead(m, j, r, k) /\ ~(m = r + 1 /\ j = k + 1)
    BY <1>3, <1>5
  <2>2. PICK g \in F \cup {f} : g.no = M[m].parts[j]
    BY <1>5, <2>1 DEF UnderWay
  <2>3. Before(r + 1, k + 1, m, j)
    <3>1. m \in Nat /\ j \in Nat
      BY MessageType
    <3> QED
      BY <2>1, <3>1 DEF Ahead, Before
  <2>4. f.no < M[m].parts[j]
    BY <1>1, <2>3 DEF InOrder
  <2>5. g # f
    BY <1>2, <2>2, <2>4
  <2> QED
    BY <2>2, <2>5
<1> QED
  BY <1>4, <1>5 DEF UnderWay

\* The peer adds the frame f to the message it is at, and begins another when f
\* is the last of it.
Adds(M, N, f) ==
    LET l == Len(M)
    IN  /\ l \in DOMAIN M /\ l \in DOMAIN N
        /\ \A m \in DOMAIN M : m < l => N[m] = M[m]
        /\ N[l].parts = Append(M[l].parts, f.no)
        /\ M[l].parts # <<>> => N[l].text = M[l].text
        /\ f.kind = "text" <=> N[l].text
        /\ IF f.fin THEN Len(N) = l + 1 /\ N[l + 1].parts = <<>> ELSE Len(N) = l

\* That leaves the fragments there are in their places, and gives f the next.
LEMMA AddedParts ==
    ASSUME NEW M \in Seq(Message), NEW N \in Seq(Message), NEW f, Adds(M, N, f), f.no \in Nat
    PROVE  LET l == Len(M)
               e == Len(M[l].parts) + 1
           IN  /\ \A m \in DOMAIN M : m \in DOMAIN N
               /\ \A m \in DOMAIN M : \A j \in DOMAIN M[m].parts :
                    /\ j \in DOMAIN N[m].parts /\ N[m].parts[j] = M[m].parts[j]
                    /\ N[m].text = M[m].text /\ ~(m = l /\ j = e) /\ Before(m, j, l, e)
               /\ \A m \in DOMAIN N : \A j \in DOMAIN N[m].parts :
                    (m \in DOMAIN M /\ j \in DOMAIN M[m].parts) \/ (m = l /\ j = e)
               /\ l \in Nat /\ e \in Nat /\ Carries(f, N, l, e)
<1> PICK l, old, new, e : l = Len(M) /\ old = M[l].parts /\ new = N[l].parts /\ e = Len(old) + 1
  OBVIOUS
<1>0. IF f.fin THEN Len(N) = l + 1 /\ N[l + 1].parts = <<>> ELSE Len(N) = l
  BY Zenon DEF Adds
<1>1. /\ l \in DOMAIN M /\ l \in DOMAIN N /\ DOMAIN M = 1 .. l /\ DOMAIN N = 1 .. Len(N)
      /\ l \in Nat /\ Len(N) \in Nat /\ l >= 1
  BY LenProperties DEF Adds
<1>2. old \in Seq(Nat) /\ Len(old) \in Nat /\ DOMAIN old = 1 .. Len(old)
  BY <1>1, MessageType
<1>3. /\ new = Append(old, f.no) /\ DOMAIN new = DOMAIN old \cup {e} /\ e \notin DOMAIN old
      /\ Len(new) = e /\ new[e] = f.no /\ e \in Nat /\ \A j \in DOMAIN old : new[j] = old[j] /\ j < e
  <2> PICK x : x = f.no
    OBVIOUS
  <2>1. new = Append(old, x) /\ x \in Nat
    BY DEF Adds
  <2>2. /\ Len(new) = Len(old) + 1 /\ new[Len(old) + 1] = x
        /\ DOMAIN new = DOMAIN old \cup {Len(old) + 1} /\ Len(old) + 1 \notin DOMAIN old
        /\ \A j \in DOMAIN old : new[j] = old[j]
    <3>1. PICK z : z = old
      OBVIOUS
    <3>2. z \in Seq(Nat)
      BY <1>2, <3>1
    <3>3. /\ Len(Append(z, x)) = Len(z) + 1 /\ Append(z, x)[Len(z) + 1] = x
          /\ DOMAIN Append(z, x) = DOMAIN z \cup {Len(z) + 1} /\ Len(z) + 1 \notin DOMAIN z
          /\ \A j \in DOMAIN z : Append(z, x)[j] = z[j]
      BY <2>1, <3>2, AppendElements
    <3> QED
      BY <2>1, <3>1, <3>3
  <2> QED
    BY <1>2, <2>1, <2>2
<1>4. l <= Len(N) /\ \A m \in DOMAIN M : m \in DOMAIN N
  BY <1>1
<1>5. ASSUME NEW m \in DOMAIN M, NEW j \in DOMAIN M[m].parts
      PROVE  /\ j \in DOMAIN N[m].parts /\ N[m].parts[j] = M[m].parts[j]
             /\ N[m].text = M[m].text /\ ~(m = l /\ j = e) /\ Before(m, j, l, e)
  <2>1. CASE m < l
    <3>1. N[m] = M[m]
      BY <2>1 DEF Adds
    <3> QED
      BY <1>1, <2>1, <3>1 DEF Before
  <2>2. CASE m = l
    <3>1. j \in DOMAIN old /\ old # <<>>
      BY <1>2, <2>2, EmptySeq
    <3>2. N[l].text = M[l].text
      BY <3>1 DEF Adds
    <3> QED
      BY <1>3, <2>2, <3>1, <3>2 DEF Before
  <2> QED
    BY <1>1, <2>1, <2>2
<1>6. ASSUME NEW m \in DOMAIN N, NEW j \in DOMAIN N[m].parts
      PROVE  (m \in DOMAIN M /\ j \in DOMAIN M[m].parts) \/ (m = l /\ j = e)
  <2>1. CASE m < l
    <3>1. m \in DOMAIN M
      BY <1>1, <2>1
    <3>2. N[m] = M[m]
      BY <2>1, <3>1 DEF Adds
    <3> QED
      BY <3>1, <3>2
  <2>2. CASE m = l
    <3>1. j \in DOMAIN new
      BY <2>2
    <3>2. CASE j \in DOMAIN old
      BY <1>1, <2>2, <3>2
    <3> QED
      BY <1>3, <2>2, <3>1, <3>2
  <2>3. CASE m > l
    <3>0. Len(N) # l
      BY <1>1, <2>3
    <3>1. f.fin /\ Len(N) = l + 1 /\ N[l + 1].parts = <<>>
      BY <1>0, <3>0, Zenon
    <3>2. m = l + 1
      BY <1>1, <2>3, <3>1
    <3> QED
      BY <3>1, <3>2, EmptySeq
  <2> QED
    BY <1>1, <2>1, <2>2, <2>3
<1>7. Carries(f, N, l, e)
  <2>1. e \in DOMAIN N[l].parts /\ f.no = N[l].parts[e] /\ e = Len(N[l].parts)
    BY <1>3
  <2>2. f.fin <=> l < Len(N)
    <3>1. CASE f.fin
      BY <1>0, <1>1, <3>1
    <3>2. CASE ~f.fin
      <4>1. Len(N) = l
        BY <1>0, <3>2, Zenon
      <4> QED
        BY <1>1, <3>2, <4>1
    <3> QED
      BY <3>1, <3>2
  <2>3. f.kind = "text" <=> N[l].text
    BY DEF Adds
  <2> QED
    BY <1>1, <2>1, <2>2, <2>3 DEF Carries
<1> QED
  BY <1>1, <1>3, <1>4, <1>5, <1>6, <1>7

\* What was carried still is.
LEMMA StillCarries ==
    ASSUME NEW M \in Seq(Message), NEW N \in Seq(Message), NEW f, Adds(M, N, f), f.no \in Nat,
           NEW g, NEW m, NEW j, Carries(g, M, m, j)
    PROVE  Carries(g, N, m, j)
<1>1. m \in DOMAIN M /\ j \in DOMAIN M[m].parts
  BY DEF Carries
<1>2. /\ m \in DOMAIN N /\ j \in DOMAIN N[m].parts /\ N[m].parts[j] = M[m].parts[j]
      /\ N[m].text = M[m].text
  BY <1>1, AddedParts
<1>3. (m < Len(M) /\ j = Len(M[m].parts)) <=> (m < Len(N) /\ j = Len(N[m].parts))
  <2>0. /\ Len(M) \in Nat /\ Len(N) \in Nat /\ Len(M) <= Len(N) /\ m \in Nat /\ m <= Len(M)
        /\ j \in Nat /\ j <= Len(M[m].parts) /\ Len(M[m].parts) \in Nat
    <3>1. Len(N) = Len(M) \/ Len(N) = Len(M) + 1
      BY DEF Adds
    <3> QED
      BY <1>1, <3>1, MessageType
  <2>1. CASE m < Len(M)
    <3>1. N[m] = M[m]
      BY <1>1, <2>1 DEF Adds
    <3> QED
      BY <2>0, <2>1, <3>1
  <2>2. CASE m = Len(M)
    <3>1. M[m].parts \in Seq(Nat) /\ N[m].parts = Append(M[m].parts, f.no)
      BY <1>1, <2>2, MessageType DEF Adds
    <3>2. Len(N[m].parts) = Len(M[m].parts) + 1
      BY <3>1, AppendElements
    <3> QED
      BY <2>0, <2>2, <3>2
  <2> QED
    BY <2>0, <2>1, <2>2
<1> QED
  BY <1>1, <1>2, <1>3 DEF Carries

\* Fragments stay in order when the new one has the greatest number.
LEMMA AddedInOrder ==
    ASSUME NEW M \in Seq(Message), NEW N \in Seq(Message), NEW f, Adds(M, N, f),
           NEW top \in Nat, InOrder(M, top), f.no = top + 1
    PROVE  InOrder(N, top + 1)
<1> PICK l, e : l = Len(M) /\ e = Len(M[l].parts) + 1
  OBVIOUS
<1>1. /\ \A m \in DOMAIN M : m \in DOMAIN N
      /\ \A m \in DOMAIN M : \A j \in DOMAIN M[m].parts :
            j \in DOMAIN N[m].parts /\ N[m].parts[j] = M[m].parts[j] /\ Before(m, j, l, e)
      /\ \A m \in DOMAIN N : \A j \in DOMAIN N[m].parts :
            (m \in DOMAIN M /\ j \in DOMAIN M[m].parts) \/ (m = l /\ j = e)
      /\ l \in Nat /\ e \in Nat
  BY AddedParts
<1>2. N[l].parts[e] = top + 1
  <2>1. Carries(f, N, l, e)
    BY AddedParts
  <2> QED
    BY <2>1 DEF Carries
<1>3. ASSUME NEW m \in DOMAIN M, NEW j \in DOMAIN M[m].parts
      PROVE  /\ M[m].parts[j] \in Nat /\ M[m].parts[j] <= top /\ m \in Nat /\ j \in Nat
             /\ ~Before(l, e, m, j)
  <2>1. M[m].parts[j] \in Nat /\ M[m].parts[j] <= top /\ m \in Nat /\ j \in Nat
    BY MessageType DEF InOrder
  <2> QED
    BY <1>1, <2>1 DEF Before
<1>4. ASSUME NEW m \in DOMAIN N, m < Len(N) PROVE N[m].parts # <<>>
  <2>0. Len(N) = l \/ Len(N) = l + 1
    BY DEF Adds
  <2>1. CASE m < l
    <3>1. m \in DOMAIN M
      BY <1>1, <2>1, LenProperties
    <3> QED
      BY <2>1, <3>1 DEF Adds, InOrder
  <2>2. CASE m = l
    <3>1. M[l].parts \in Seq(Nat) /\ N[l].parts = Append(M[l].parts, f.no)
      BY MessageType DEF Adds
    <3> QED
      BY <2>2, <3>1, AppendElements
  <2>3. m \in Nat
    BY MessageType
  <2> QED
    BY <1>1, <1>4, <2>0, <2>1, <2>2, <2>3
<1>5. ASSUME NEW m \in DOMAIN N, NEW n \in DOMAIN N, NEW j \in DOMAIN N[m].parts,
             NEW h \in DOMAIN N[n].parts, Before(m, j, n, h)
      PROVE  N[m].parts[j] < N[n].parts[h]
  <2>1. CASE m \in DOMAIN M /\ j \in DOMAIN M[m].parts
    <3>1. CASE n \in DOMAIN M /\ h \in DOMAIN M[n].parts
      <4>1. M[m].parts[j] < M[n].parts[h]
        BY <1>5, <2>1, <3>1 DEF InOrder
      <4> QED
        BY <1>1, <2>1, <3>1, <4>1
    <3>2. CASE n = l /\ h = e
      <4>1. N[m].parts[j] <= top /\ N[m].parts[j] \in Nat
        BY <1>1, <1>3, <2>1
      <4> QED
        BY <1>2, <3>2, <4>1
    <3> QED
      BY <1>1, <3>1, <3>2
  <2>2. CASE m = l /\ j = e
    <3>1. ~(n \in DOMAIN M /\ h \in DOMAIN M[n].parts)
      BY <1>3, <1>5, <2>2
    <3>2. n = l /\ h = e
      BY <1>1, <3>1
    <3> QED
      BY <1>1, <1>5, <2>2, <3>2 DEF Before
  <2> QED
    BY <1>1, <2>1, <2>2
<1>6. ASSUME NEW m \in DOMAIN N, NEW j \in DOMAIN N[m].parts PROVE N[m].parts[j] <= top + 1
  <2>1. CASE m \in DOMAIN M /\ j \in DOMAIN M[m].parts
    <3>1. N[m].parts[j] = M[m].parts[j]
      BY <1>1, <2>1
    <3> QED
      BY <1>3, <2>1, <3>1
  <2>2. CASE m = l /\ j = e
    BY <1>2, <2>2
  <2> QED
    BY <1>1, <2>1, <2>2
<1> QED
  BY <1>4, <1>5, <1>6 DEF InOrder

\* The new frame is under way with the others.
LEMMA AddedUnderWay ==
    ASSUME NEW M \in Seq(Message), NEW N \in Seq(Message), NEW f, Adds(M, N, f), f.no \in Nat,
           NEW r \in Nat, NEW k \in Nat, NEW eof, ~eof, NEW F, UnderWay(F, M, r, k, eof),
           r + 1 \in DOMAIN M, k <= Len(M[r + 1].parts)
    PROVE  UnderWay(F \cup {f}, N, r, k, eof)
<1> PICK l, e : l = Len(M) /\ e = Len(M[l].parts) + 1
  OBVIOUS
<1>1. /\ \A m \in DOMAIN M : \A j \in DOMAIN M[m].parts : N[m].parts[j] = M[m].parts[j]
      /\ \A m \in DOMAIN N : \A j \in DOMAIN N[m].parts :
            (m \in DOMAIN M /\ j \in DOMAIN M[m].parts) \/ (m = l /\ j = e)
      /\ l \in Nat /\ e \in Nat /\ Carries(f, N, l, e)
  BY AddedParts
<1>2. Ahead(l, e, r, k)
  <2>1. r + 1 <= l
    BY <1>1, LenProperties
  <2>2. r + 1 = l => k <= Len(M[l].parts) /\ Len(M[l].parts) \in Nat
    BY MessageType
  <2> QED
    BY <1>1, <2>1, <2>2 DEF Ahead
<1>3. ASSUME NEW g \in F \cup {f}
      PROVE  \E m, j \in Nat : Carries(g, N, m, j) /\ Ahead(m, j, r, k)
  <2>1. CASE g = f
    BY <1>1, <1>2, <2>1
  <2>2. CASE g \in F
    <3>1. PICK m, j \in Nat : Carries(g, M, m, j) /\ Ahead(m, j, r, k)
      BY <2>2 DEF UnderWay
    <3>2. Carries(g, N, m, j)
      BY <3>1, StillCarries
    <3> QED
      BY <3>1, <3>2
  <2> QED
    BY <2>1, <2>2
<1>4. ASSUME NEW m \in DOMAIN N, NEW j \in DOMAIN N[m].parts, Ahead(m, j, r, k)
      PROVE  \E g \in F \cup {f} : g.no = N[m].parts[j]
  <2>1. CASE m \in DOMAIN M /\ j \in DOMAIN M[m].parts
    <3>1. PICK g \in F : g.no = M[m].parts[j]
      BY <1>4, <2>1 DEF UnderWay
    <3> QED
      BY <1>1, <2>1, <3>1
  <2>2. CASE m = l /\ j = e
    BY <1>1, <2>2 DEF Carries
  <2> QED
    BY <1>1, <2>1, <2>2
<1> QED
  BY <1>3, <1>4 DEF UnderWay

\* What has been collected is what it was.
LEMMA AddedCollected ==
    ASSUME NEW M \in Seq(Message), NEW N \in Seq(Message), NEW f, Adds(M, N, f), f.no \in Nat,
           NEW got \in Seq(Message), NEW collected \in Message, Collected(M, got, collected)
    PROVE  Collected(N, got, collected)
<1> PICK r, k, parts : r = Len(got) /\ k = Len(collected.parts) /\ parts = collected.parts
  OBVIOUS
<1> PICK l, q : l = Len(M) /\ q = r + 1
  OBVIOUS
<1>1. /\ r \in Nat /\ parts \in Seq(Nat) /\ k \in Nat /\ DOMAIN parts = 1 .. k /\ l \in Nat
      /\ DOMAIN got = 1 .. r /\ Len(N) \in Nat
  BY LenProperties DEF Message
<1>2. /\ q \in DOMAIN M /\ k <= Len(M[q].parts) /\ (q < l => k < Len(M[q].parts))
      /\ \A i \in DOMAIN got : got[i] = M[i]
      /\ \A j \in DOMAIN parts : parts[j] = M[q].parts[j]
      /\ parts # <<>> => collected.text = M[q].text
  BY DEF Collected
<1>3. /\ q \in DOMAIN N /\ q <= l /\ Len(M[q].parts) \in Nat
      /\ DOMAIN M[q].parts = 1 .. Len(M[q].parts)
  BY <1>2, AddedParts, MessageType
<1>4. \A j \in DOMAIN M[q].parts : N[q].parts[j] = M[q].parts[j] /\ N[q].text = M[q].text
  BY <1>2, AddedParts
<1>5. \A j \in DOMAIN parts : j \in DOMAIN M[q].parts
  BY <1>1, <1>2, <1>3
<1>6. \A i \in DOMAIN got : got[i] = N[i]
  <2> SUFFICES ASSUME NEW i \in DOMAIN got PROVE got[i] = N[i]
    OBVIOUS
  <2>1. i \in DOMAIN M /\ i < l
    BY <1>1, <1>3, LenProperties
  <2> QED
    BY <1>2, <2>1 DEF Adds
<1>7. k <= Len(N[q].parts) /\ (q < Len(N) => k < Len(N[q].parts))
  <2>1. CASE q < l
    <3>1. N[q] = M[q]
      BY <1>2, <2>1 DEF Adds
    <3> QED
      BY <1>1, <1>2, <1>3, <2>1, <3>1
  <2>2. CASE q = l
    <3>1. M[l].parts \in Seq(Nat) /\ N[l].parts = Append(M[l].parts, f.no)
      BY <1>2, <2>2, MessageType DEF Adds
    <3>2. Len(N[l].parts) = Len(M[l].parts) + 1
      BY <3>1, AppendElements
    <3>3. PICK u, v : u = Len(M[q].parts) /\ v = Len(N[q].parts)
      OBVIOUS
    <3>4. k <= u /\ v = u + 1
      BY <1>2, <2>2, <3>2, <3>3
    <3>5. k <= v /\ k < v
      BY <1>1, <1>3, <3>3, <3>4
    <3> QED
      BY <3>3, <3>5
  <2>3. q < l \/ q = l
    <3>1. q \in Nat /\ l \in Nat /\ q <= l
      BY <1>1, <1>3
    <3> QED
      BY <3>1
  <2> QED
    BY <2>1, <2>2, <2>3, Zenon
<1>8. \A j \in DOMAIN parts : parts[j] = N[q].parts[j]
  BY <1>2, <1>4, <1>5
<1>9. parts # <<>> => collected.text = N[q].text
  <2> SUFFICES ASSUME parts # <<>> PROVE collected.text = N[q].text
    OBVIOUS
  <2>1. 1 \in DOMAIN parts
    BY <1>1, EmptySeq
  <2> QED
    BY <1>2, <1>4, <1>5, <2>1
<1> QED
  BY <1>3, <1>6, <1>7, <1>8, <1>9 DEF Collected

----------------------------------------------------------------------------
(* Delivery.                                                               *)

Peers == [frames : Nat, parts : Seq(Nat), text : BOOLEAN, sent : Seq(Message),
          closed : BOOLEAN, eof : BOOLEAN]

\* What is between the peer and recv(): frames in the buffer and on the stream,
\* which carry what the messages of the peer have beyond those received.
Delivery ==
    /\ peer \in Peers /\ message \in Message /\ received \in Seq(Message)
    /\ InOrder(Messages, peer.frames)
    /\ Numbered(rx \o wire)
    /\ UnderWay(DataFrames(rx \o wire), Messages, Len(received), Len(message.parts), peer.eof)
    /\ Collected(Messages, received, message)
    /\ at = "connect" /\ rx \o wire # <<>> => (rx \o wire)[1].frame.kind = "http"

\* Messages are those sent, and one more.
LEMMA MessagesAre ==
    ASSUME NEW p \in Peers
    PROVE  LET M == MessagesOf(p)
           IN  /\ M \in Seq(Message) /\ Len(M) = Len(p.sent) + 1 /\ Len(p.sent) \in Nat
               /\ DOMAIN M = 1 .. Len(M) /\ Len(M) \in DOMAIN M
               /\ M[Len(M)].parts = p.parts /\ M[Len(M)].text = p.text
               /\ \A m \in DOMAIN M : m < Len(M) => m \in DOMAIN p.sent /\ M[m] = p.sent[m]
<1>0. PICK s, x, M : s = p.sent /\ x = [parts |-> p.parts, text |-> p.text] /\ M = MessagesOf(p)
  OBVIOUS
<1>1. s \in Seq(Message) /\ x \in Message /\ x.parts = p.parts /\ x.text = p.text
  BY <1>0 DEF Peers, Message
<1>2. /\ Append(s, x) \in Seq(Message) /\ Len(Append(s, x)) = Len(s) + 1
      /\ Append(s, x)[Len(s) + 1] = x /\ DOMAIN Append(s, x) = DOMAIN s \cup {Len(s) + 1}
      /\ \A m \in DOMAIN s : Append(s, x)[m] = s[m]
  BY <1>1, AppendElements
<1>3. Len(s) \in Nat /\ DOMAIN s = 1 .. Len(s)
  BY <1>1, LenProperties
<1>4. M = Append(s, x)
  BY <1>0 DEF MessagesOf
<1>5. /\ M \in Seq(Message) /\ Len(M) = Len(s) + 1 /\ M[Len(s) + 1] = x
      /\ DOMAIN M = DOMAIN s \cup {Len(s) + 1} /\ \A m \in DOMAIN s : M[m] = s[m]
  BY <1>2, <1>4
<1>6. DOMAIN M = 1 .. Len(M)
  BY <1>5, LenProperties
<1>7. \A m \in DOMAIN M : m < Len(M) => m \in DOMAIN s
  BY <1>3, <1>5, <1>6
<1>8. /\ M \in Seq(Message) /\ Len(M) = Len(s) + 1 /\ Len(s) \in Nat
      /\ DOMAIN M = 1 .. Len(M) /\ Len(M) \in DOMAIN M
      /\ M[Len(M)].parts = p.parts /\ M[Len(M)].text = p.text
      /\ \A m \in DOMAIN M : m < Len(M) => m \in DOMAIN s /\ M[m] = s[m]
  BY <1>1, <1>3, <1>5, <1>6, <1>7
<1> QED
  BY <1>0, <1>8, Zenon

\* The client's steps on the stream leave messages alone, and what is under way.
LEMMA DeliverySame ==
    ASSUME Delivery, UNCHANGED <<message, received, peer>>, rx' \o wire' = rx \o wire,
           at' = "connect" => at = "connect"
    PROVE  Delivery'
BY DEF Delivery, Messages, MessagesOf

\* The response, and frames that are no data, leave the stream without a message.
LEMMA DeliveryConsumed ==
    ASSUME Delivery, StreamInv, UNCHANGED <<message, received, peer, wire>>, at' # "connect",
           rx # <<>>, rx[1].frame.size <= Len(rx), rx' = Consume(rx),
           rx[1].frame.kind \notin DataKinds
    PROVE  Delivery'
<1> PICK s : s = rx \o wire
  OBVIOUS
<1> PICK n : n = rx[1].frame.size
  OBVIOUS
<1> PICK t : t = rx' \o wire'
  OBVIOUS
<1>1. t = Consume(s) /\ s # <<>> /\ s[1] = rx[1] /\ n <= Len(s)
  BY ConsumeSound DEF Consume, StreamInv
<1>2. s \in Seq(Unit) /\ Placed(s) /\ Numbered(s)
  BY ConcatProperties DEF StreamInv, Sound, Delivery
<1>3. Numbered(t) /\ DataFrames(t) = DataFrames(s)
  <2>1. s[1].frame.size <= Len(s) /\ s[1].frame.kind \notin DataKinds
    BY <1>1
  <2> QED
    BY <1>1, <1>2, <2>1, RestFrames
<1>4. /\ Numbered(rx' \o wire')
      /\ UnderWay(DataFrames(rx' \o wire'), Messages, Len(received), Len(message.parts), peer.eof)
  BY <1>3 DEF Delivery
<1> QED
  BY <1>4 DEF Delivery, Messages, MessagesOf


\* What recv() has when it has taken the next fragment.
LEMMA TakenCollected ==
    ASSUME NEW M \in Seq(Message), NEW top, InOrder(M, top), NEW got \in Seq(Message),
           NEW collected \in Message, Collected(M, got, collected),
           NEW f, Carries(f, M, Len(got) + 1, Len(collected.parts) + 1),
           NEW c \in Message, c.parts = Append(collected.parts, f.no),
           collected.parts = <<>> => (c.text <=> f.kind = "text"),
           collected.parts # <<>> => c.text = collected.text,
           NEW left \in Message, left.parts = <<>>
    PROVE  /\ f.fin => /\ Len(got) + 1 < Len(M) /\ c = M[Len(got) + 1]
                       /\ Collected(M, Append(got, c), left)
           /\ ~f.fin => Collected(M, got, c)
<1> PICK r, k, parts, q : r = Len(got) /\ k = Len(collected.parts) /\ parts = collected.parts /\ q = r + 1
  OBVIOUS
<1> PICK next : next = M[q].parts
  OBVIOUS
<1>1. /\ r \in Nat /\ parts \in Seq(Nat) /\ k \in Nat /\ DOMAIN parts = 1 .. k /\ k = Len(parts)
      /\ DOMAIN got = 1 .. r
  BY LenProperties DEF Message
<1>2. /\ q \in DOMAIN M /\ k + 1 \in DOMAIN next /\ f.no = next[k + 1]
      /\ f.fin <=> q < Len(M) /\ k + 1 = Len(next)
      /\ f.kind = "text" <=> M[q].text
  BY DEF Carries
<1>3. /\ M[q] \in Message /\ next \in Seq(Nat) /\ Len(next) \in Nat /\ DOMAIN next = 1 .. Len(next)
      /\ Len(M) \in Nat /\ DOMAIN M = 1 .. Len(M) /\ M[q].text \in BOOLEAN /\ f.no \in Nat
  <2>1. DOMAIN M = 1 .. Len(M)
    BY LenProperties
  <2> QED
    BY <1>2, <2>1, MessageType
<1>4. /\ \A i \in DOMAIN got : got[i] = M[i]
      /\ \A j \in DOMAIN parts : parts[j] = next[j]
      /\ parts # <<>> => collected.text = M[q].text
  BY DEF Collected
<1>5. /\ c.parts \in Seq(Nat) /\ Len(c.parts) = k + 1 /\ DOMAIN c.parts = DOMAIN parts \cup {k + 1}
      /\ c.parts[k + 1] = f.no /\ c.parts # <<>> /\ \A j \in DOMAIN parts : c.parts[j] = parts[j]
  <2> PICK x : x = f.no
    OBVIOUS
  <2>1. /\ Append(parts, x) \in Seq(Nat) /\ Len(Append(parts, x)) = Len(parts) + 1
        /\ Append(parts, x)[Len(parts) + 1] = x
        /\ DOMAIN Append(parts, x) = DOMAIN parts \cup {Len(parts) + 1}
        /\ \A j \in DOMAIN parts : Append(parts, x)[j] = parts[j]
    BY <1>1, <1>3, AppendElements
  <2>2. c.parts = Append(parts, x)
    OBVIOUS
  <2>3. c.parts # <<>>
    BY <1>1, <2>1, <2>2, EmptySeq
  <2> QED
    BY <1>1, <2>1, <2>2, <2>3
<1>6. \A j \in DOMAIN c.parts : c.parts[j] = next[j]
  BY <1>2, <1>4, <1>5
<1>7. c.text = M[q].text
  <2>1. CASE parts = <<>>
    <3>1. c.text <=> f.kind = "text"
      BY <2>1, Zenon
    <3>2. c.text \in BOOLEAN
      BY DEF Message
    <3> QED
      BY <1>2, <1>3, <3>1, <3>2
  <2>2. CASE parts # <<>>
    BY <1>4, <2>2, Zenon
  <2> QED
    BY <2>1, <2>2
<1>8. ASSUME ~f.fin PROVE Collected(M, got, c)
  <2>1. k + 1 <= Len(next) /\ (q < Len(M) => k + 1 < Len(next))
    BY <1>1, <1>2, <1>3, <1>8
  <2> QED
    BY <1>2, <1>4, <1>5, <1>6, <1>7, <2>1 DEF Collected
<1>9. ASSUME f.fin
      PROVE  q < Len(M) /\ c = M[q] /\ Collected(M, Append(got, c), left)
  <2>1. q < Len(M) /\ Len(next) = k + 1
    BY <1>2, <1>9
  <2>2. c.parts = next
    <3>1. PICK x : x = c.parts
      OBVIOUS
    <3>2. x \in Seq(Nat) /\ Len(x) = Len(next)
      BY <1>5, <2>1, <3>1
    <3>3. \A j \in 1 .. Len(x) : x[j] = next[j]
      <4>1. DOMAIN x = 1 .. Len(x)
        BY <3>2, LenProperties
      <4> QED
        BY <1>6, <3>1, <4>1
    <3>4. x = next
      BY <1>3, <3>2, <3>3, SeqEqual
    <3> QED
      BY <3>1, <3>4
  <2>3. c = M[q]
    <3>1. PICK x : x = M[q]
      OBVIOUS
    <3>2. x \in Message /\ x.parts = c.parts /\ x.text = c.text
      BY <1>3, <1>7, <2>2, <3>1
    <3>3. \A A, B : \A d \in [parts : A, text : B] : d = [parts |-> d.parts, text |-> d.text]
      OBVIOUS
    <3>4. \A d \in Message : d = [parts |-> d.parts, text |-> d.text]
      BY <3>3 DEF Message
    <3>5. x = [parts |-> x.parts, text |-> x.text] /\ c = [parts |-> c.parts, text |-> c.text]
      BY <3>2, <3>4
    <3> QED
      BY <3>1, <3>2, <3>5
  <2>4. /\ Len(Append(got, c)) = r + 1 /\ Append(got, c)[r + 1] = c
        /\ DOMAIN Append(got, c) = DOMAIN got \cup {r + 1}
        /\ \A i \in DOMAIN got : Append(got, c)[i] = got[i]
    BY <1>1, AppendElements
  <2>5. q + 1 \in DOMAIN M /\ Len(left.parts) = 0
    <3>1. q \in Nat /\ q + 1 \in 1 .. Len(M)
      BY <1>1, <1>3, <2>1
    <3> QED
      BY <1>3, <3>1, EmptySeq
  <2>6. /\ Len(M[q + 1].parts) \in Nat /\ M[q + 1].parts \in Seq(Nat)
        /\ (q + 1 < Len(M) => 0 < Len(M[q + 1].parts))
    <3>1. q + 1 < Len(M) => M[q + 1].parts # <<>>
      BY <2>5 DEF InOrder
    <3>2. M[q + 1].parts \in Seq(Nat) /\ Len(M[q + 1].parts) \in Nat
      BY <2>5, MessageType
    <3> QED
      BY <3>1, <3>2, EmptySeq
  <2>7. \A i \in DOMAIN Append(got, c) : Append(got, c)[i] = M[i]
    BY <1>4, <2>3, <2>4
  <2>8. \A j \in DOMAIN left.parts : left.parts[j] = M[q + 1].parts[j]
    OBVIOUS
  <2>9. Len(Append(got, c)) = q /\ 0 <= Len(M[q + 1].parts)
    BY <2>4, <2>6
  <2> QED
    BY <2>1, <2>3, <2>5, <2>6, <2>7, <2>8, <2>9 DEF Collected
<1> QED
  BY <1>8, <1>9

\* What is under way has a number.
LEMMA NumbersUnderWay ==
    ASSUME NEW M \in Seq(Message), NEW r, NEW k, NEW eof, NEW F, UnderWay(F, M, r, k, eof),
           NEW f \in F
    PROVE  f.no \in Nat
<1>1. PICK m, j \in Nat : Carries(f, M, m, j)
  BY DEF UnderWay
<1> QED
  BY <1>1, MessageType DEF Carries

\* What is cut off are fragments behind all that is under way.
LEMMA CutUnderWay ==
    ASSUME NEW M \in Seq(Message), NEW r, NEW k, NEW F, UnderWay(F, M, r, k, FALSE),
           NEW G, G \subseteq F, \A f \in G, g \in F \ G : f.no < g.no
    PROVE  UnderWay(G, M, r, k, TRUE)
<1>1. \A f \in G : \E m, j \in Nat : Carries(f, M, m, j) /\ Ahead(m, j, r, k)
  BY DEF UnderWay
<1>2. ASSUME NEW m \in DOMAIN M, NEW j \in DOMAIN M[m].parts, Ahead(m, j, r, k),
             NEW f \in G, M[m].parts[j] <= f.no
      PROVE  \E g \in G : g.no = M[m].parts[j]
  <2>1. PICK g \in F : g.no = M[m].parts[j]
    BY <1>2 DEF UnderWay
  <2>2. g.no \in Nat /\ f.no \in Nat
    BY NumbersUnderWay
  <2>3. g \in G
    BY <1>2, <2>1, <2>2
  <2> QED
    BY <2>1, <2>3
<1> QED
  BY <1>1, <1>2 DEF UnderWay

\* Nothing has been sent yet.
LEMMA DeliveryInit == Init => Delivery
<1> SUFFICES ASSUME Init PROVE Delivery
  OBVIOUS
<1> PICK f : f = [kind |-> "http", no |-> 0, size |-> ResponseSize, fin |-> TRUE]
  OBVIOUS
<1>1. f \in FrameSet /\ f.kind = "http" /\ f.size \in Nat \ {0}
  <2>1. "http" \in Kinds /\ 0 \in Nat /\ ResponseSize \in Nat \ {0} /\ TRUE \in BOOLEAN
    BY DEF Kinds
  <2>2. f \in FrameSet
    BY <2>1, FrameType, Zenon
  <2>3. f.kind = "http"
    OBVIOUS
  <2> QED
    BY <2>2, <2>3 DEF FrameSet
<1>2. rx = <<>> /\ wire = Units(f) /\ Units(f) \in Seq(Unit)
  BY <1>1, UnitsAre DEF Init
<1>3. rx \o wire = Units(f) /\ rx \o wire = <<>> \o Units(f)
  BY <1>2, ConcatEmptySeq
<1>4. (rx \o wire)[1].frame = f
  <2>1. 1 \in 1 .. f.size
    BY <1>1
  <2>2. \A i \in 1 .. f.size : Units(f)[i] = [frame |-> f, part |-> i]
    BY <1>1, UnitsAre
  <2>3. Units(f)[1] = [frame |-> f, part |-> 1]
    BY <2>1, <2>2
  <2>4. [frame |-> f, part |-> 1].frame = f
    OBVIOUS
  <2> QED
    BY <1>3, <2>3, <2>4, Zenon
<1>5. Numbered(rx \o wire) /\ DataFrames(rx \o wire) = {}
  <2>1. <<>> \in Seq(Unit) /\ Ends(<<>>) = {}
    BY DEF Ends
  <2>2. Numbered(<<>>) /\ DataFrames(<<>>) = {}
    BY <2>1 DEF Numbered, DataFrames
  <2>3. f.kind \notin DataKinds
    BY <1>1 DEF DataKinds
  <2>4. PICK e : e = <<>>
    OBVIOUS
  <2>5. e \in Seq(Unit) /\ Numbered(e) /\ DataFrames(e) = {}
    BY <2>1, <2>2, <2>4
  <2>6. /\ Numbered(e \o Units(f))
        /\ DataFrames(e \o Units(f)) = IF f.kind \in DataKinds THEN DataFrames(e) \cup {f} ELSE DataFrames(e)
    BY <1>1, <2>3, <2>5, JoinFrames
  <2>7. DataFrames(e \o Units(f)) = {}
    BY <2>3, <2>5, <2>6, Zenon
  <2> QED
    BY <1>3, <2>4, <2>6, <2>7, Zenon
<1>6. peer \in Peers /\ peer.sent = <<>> /\ peer.parts = <<>> /\ peer.frames = 0 /\ peer.eof = FALSE
  BY EmptySeq DEF Init, Peers
<1>7. /\ Messages \in Seq(Message) /\ Len(Messages) = 1 /\ DOMAIN Messages = 1 .. 1
      /\ Messages[1].parts = <<>>
  <2>1. /\ Messages \in Seq(Message) /\ Len(Messages) = Len(peer.sent) + 1
        /\ DOMAIN Messages = 1 .. Len(Messages) /\ Messages[Len(Messages)].parts = peer.parts
    BY <1>6, MessagesAre DEF Messages
  <2>2. Len(Messages) = 1
    BY <1>6, <2>1, EmptySeq
  <2> QED
    BY <1>6, <2>1, <2>2
<1>8. \A m \in DOMAIN Messages : m = 1 /\ DOMAIN Messages[m].parts = {}
  BY <1>7, EmptySeq
<1>9. InOrder(Messages, peer.frames)
  BY <1>7, <1>8 DEF InOrder
<1>10. message = NoMessage /\ message.parts = <<>> /\ received = <<>> /\ message \in Message
  BY EmptySeq DEF Init, NoMessage, Message
<1>11. UnderWay(DataFrames(rx \o wire), Messages, Len(received), Len(message.parts), peer.eof)
  BY <1>5, <1>8 DEF UnderWay
<1>12. Collected(Messages, received, message)
  BY <1>7, <1>10, EmptySeq DEF Collected
<1> QED
  BY <1>1, <1>4, <1>5, <1>6, <1>9, <1>10, <1>11, <1>12, EmptySeq DEF Delivery


\* The client's steps keep it: those that read,
LEMMA ReadDelivery ==
    ASSUME StreamInv, Delivery, ConnectReads \/ Fill
    PROVE  Delivery'
<1>1. UNCHANGED <<message, received, peer>> /\ (at' = "connect" => at = "connect")
  BY DEF ConnectReads, Fill, Return
<1>2. CASE Arrive
  <2>1. PICK n \in 1 .. Len(wire) :
            /\ Len(rx) + n <= RX
            /\ rx' = rx \o SubSeq(wire, 1, n)
            /\ wire' = SubSeq(wire, n + 1, Len(wire))
    BY <1>2 DEF Arrive
  <2>2. (rx \o SubSeq(wire, 1, n)) \o SubSeq(wire, n + 1, Len(wire)) = rx \o wire
    BY <2>1, ArriveSound DEF StreamInv
  <2> QED
    BY <1>1, <2>1, <2>2, DeliverySame
<1>3. CASE UNCHANGED <<rx, wire>>
  BY <1>1, <1>3, DeliverySame
<1> QED
  BY <1>2, <1>3 DEF ConnectReads, Fill

\* those that leave the stream alone,
LEMMA QuietDelivery ==
    ASSUME Delivery,
           ConnectFails \/ CallRecv \/ CallSend \/ CallClose \/ NeedsMore \/ ReadFails
               \/ WritePart \/ WriteDone \/ WriteFails \/ Cancel
    PROVE  Delivery'
<1>1. UNCHANGED <<rx, wire, message, received, peer>> /\ (at' = "connect" => at = "connect")
  BY DEF ConnectFails, CallRecv, CallSend, CallClose, Write, NeedsMore, ReadFails, WritePart,
         WriteDone, WriteFails, Cancel, Return
<1> QED
  BY <1>1, DeliverySame

\* those that take the response or a frame without data,
LEMMA ControlDelivery ==
    ASSUME StreamInv, Delivery, ConnectDone \/ TakePong \/ TakePing \/ TakeClose
    PROVE  Delivery'
<1>1. /\ rx \in Seq(Unit) /\ Len(rx) \in Nat
      /\ Sound(rx, wire, peer.eof, at = "connect")
  BY DEF StreamInv, Sound
<1>2. CASE ConnectDone
  <2>1. rx # <<>> /\ Len(rx) >= ResponseSize /\ at = "connect"
    BY <1>1, <1>2 DEF ConnectDone
  <2>2. (rx \o wire)[1] = rx[1] /\ rx \o wire # <<>>
    <3>1. wire \in Seq(Unit) /\ Len(wire) \in Nat
      BY <1>1 DEF Sound
    <3>2. /\ rx \o wire \in Seq(Unit) /\ Len(rx \o wire) = Len(rx) + Len(wire)
          /\ \A i \in 1 .. Len(rx) + Len(wire) :
                (rx \o wire)[i] = IF i <= Len(rx) THEN rx[i] ELSE wire[i - Len(rx)]
      BY <1>1, <3>1, ConcatProperties
    <3>3. 1 \in 1 .. Len(rx) + Len(wire) /\ 1 <= Len(rx) /\ Len(rx) + Len(wire) # 0
      BY <1>1, <2>1, <3>1
    <3> QED
      BY <3>2, <3>3
  <2>3. rx[1].frame.size = ResponseSize /\ rx[1].frame.kind = "http"
    BY <1>1, <2>1, <2>2 DEF Sound, Delivery
  <2>4. rx' = Consume(rx)
    BY <1>2, <2>3 DEF ConnectDone, Accepted, Consume
  <2>5. rx[1].frame.size <= Len(rx) /\ rx[1].frame.kind \notin DataKinds
    BY <1>1, <2>1, <2>3 DEF DataKinds
  <2>6. UNCHANGED <<message, received, peer, wire>> /\ at' # "connect"
    BY <1>2 DEF ConnectDone
  <2> QED
    BY <2>1, <2>4, <2>5, <2>6, DeliveryConsumed
<1>3. CASE TakePong \/ TakePing \/ TakeClose
  <2>1. /\ Complete(rx) /\ rx' = Consume(rx) /\ at' # "connect"
        /\ UNCHANGED <<message, received, peer, wire>>
        /\ rx[1].frame.kind \notin DataKinds
    BY <1>3 DEF TakePong, TakePing, TakeClose, Readable, Write, Return, DataKinds
  <2>2. rx # <<>> /\ rx[1].frame.size <= Len(rx)
    <3>1. rx # <<>> /\ Len(rx) >= rx[1].frame.size
      BY <2>1 DEF Complete
    <3>2. rx[1].frame.size \in Nat
      BY <1>1, <3>1, UnitType
    <3> QED
      BY <1>1, <3>1, <3>2
  <2> QED
    BY <2>1, <2>2, DeliveryConsumed
<1> QED
  BY <1>2, <1>3

\* The messages of a peer, as long as it is one.
LEMMA PeerMessages ==
    ASSUME peer \in Peers
    PROVE  /\ Messages \in Seq(Message) /\ Len(Messages) = Len(peer.sent) + 1
           /\ Len(peer.sent) \in Nat
           /\ \A m \in DOMAIN Messages : m < Len(Messages) => Messages[m] = peer.sent[m]
BY MessagesAre DEF Messages

\* The first frame in the buffer is the first of the stream, and has left it then.
LEMMA DataConsumed ==
    ASSUME StreamInv, Delivery, TakeData
    PROVE  LET f == rx[1].frame
               F == DataFrames(rx' \o wire')
           IN  /\ Numbered(rx' \o wire')
               /\ DataFrames(rx \o wire) = F \cup {f}
               /\ \A g \in F : f.no < g.no
<1> PICK f : f = rx[1].frame
  OBVIOUS
<1> PICK s : s = rx \o wire
  OBVIOUS
<1>1. Complete(rx) /\ f.kind \in DataKinds /\ rx' = Consume(rx) /\ wire' = wire
  BY DEF TakeData, Readable
<1>2. rx \in Seq(Unit) /\ Len(rx) \in Nat /\ Sound(rx, wire, peer.eof, at = "connect")
  BY DEF StreamInv, Sound
<1>3. rx # <<>> /\ f.size <= Len(rx)
  <2>1. rx # <<>> /\ Len(rx) >= f.size
    BY <1>1 DEF Complete
  <2>2. f.size \in Nat
    BY <1>2, <2>1, UnitType
  <2> QED
    BY <1>2, <2>1, <2>2
<1>4. rx' \o wire' = Consume(s) /\ s # <<>> /\ s[1].frame = f /\ f.size <= Len(s)
  <2>1. /\ SubSeq(rx, f.size + 1, Len(rx)) \o wire = SubSeq(s, f.size + 1, Len(s))
        /\ s # <<>> /\ s[1] = rx[1] /\ f.size <= Len(s)
    BY <1>2, <1>3, ConsumeSound
  <2> QED
    BY <1>1, <2>1 DEF Consume
<1>5. s \in Seq(Unit) /\ Placed(s) /\ Numbered(s)
  BY <1>2, ConcatProperties DEF Sound, Delivery
<1>6. /\ Numbered(Consume(s)) /\ DataFrames(s) = DataFrames(Consume(s)) \cup {f}
      /\ \A g \in DataFrames(Consume(s)) : f.no < g.no
  <2>1. s[1].frame.size <= Len(s) /\ s[1].frame.kind \in DataKinds
    BY <1>1, <1>4
  <2> QED
    BY <1>4, <1>5, <2>1, RestFrames
<1> QED
  BY <1>4, <1>6

\* and the one that takes a fragment, with which recv() may return a message.
LEMMA DataDelivery ==
    ASSUME StreamInv, Delivery, TakeData
    PROVE  Delivery' /\ (Stream!Receive \/ UNCHANGED <<received, peer>>)
<1> DEFINE f == rx[1].frame
           c == Collect(f)
           F == DataFrames(rx' \o wire')
           left == [message EXCEPT !.parts = <<>>]
<1>1. /\ at = "read" /\ peer' = peer
      /\ f.fin => received' = Append(received, c) /\ message' = left /\ at' = "idle"
      /\ ~f.fin => message' = c /\ received' = received /\ at' = at
  <2>1. IF f.fin
        THEN /\ received' = Append(received, c)
             /\ message' = left
             /\ Return("ok")
        ELSE /\ message' = c
             /\ UNCHANGED <<received, at, last>>
    BY DEF TakeData
  <2>2. at = "read" /\ peer' = peer
    BY DEF TakeData
  <2> QED
    BY <2>1, <2>2, Zenon DEF Return
<1>2. /\ Numbered(rx' \o wire') /\ DataFrames(rx \o wire) = F \cup {f}
      /\ \A g \in F : f.no < g.no
  BY DataConsumed
<1>3. /\ peer \in Peers /\ message \in Message /\ received \in Seq(Message)
      /\ InOrder(Messages, peer.frames) /\ Collected(Messages, received, message)
      /\ UnderWay(F \cup {f}, Messages, Len(received), Len(message.parts), peer.eof)
  BY <1>2 DEF Delivery
<1>4. /\ Messages \in Seq(Message) /\ Len(Messages) = Len(peer.sent) + 1 /\ Len(peer.sent) \in Nat
      /\ \A m \in DOMAIN Messages : m < Len(Messages) => Messages[m] = peer.sent[m]
  BY <1>3, PeerMessages
<1>5. left \in Message /\ left.parts = <<>>
  BY <1>3, EmptySeq DEF Message
<1>6. /\ c \in Message /\ c.parts = Append(message.parts, f.no)
      /\ (message.parts = <<>> => (c.text <=> f.kind = "text"))
      /\ message.parts # <<>> => c.text = message.text
  <2>1. /\ c = [parts |-> c.parts, text |-> c.text] /\ c.parts = Append(message.parts, f.no)
        /\ c.text = IF message.parts = <<>> THEN f.kind = "text" ELSE message.text
    BY DEF Collect
  <2>2. message.text \in BOOLEAN /\ message.parts \in Seq(Nat)
    BY <1>3 DEF Message
  <2>3. f.no \in Nat
    BY <1>3, <1>4, NumbersUnderWay
  <2>4. c.parts \in Seq(Nat)
    BY <2>1, <2>2, <2>3, AppendElements
  <2>5. /\ c.text \in BOOLEAN /\ (message.parts = <<>> => (c.text <=> f.kind = "text"))
        /\ message.parts # <<>> => c.text = message.text
    BY <2>1, <2>2, Zenon
  <2>6. c \in Message
    BY <2>1, <2>4, <2>5 DEF Message
  <2> QED
    BY <2>1, <2>5, <2>6
<1> HIDE DEF f, c, F, left
<1>7. /\ c \in Message /\ Len(received) + 1 \in DOMAIN Messages
      /\ f.fin => /\ Len(received) + 1 < Len(Messages) /\ c = Messages[Len(received) + 1]
                  /\ Collected(Messages, Append(received, c), left)
                  /\ UnderWay(F, Messages, Len(Append(received, c)), Len(left.parts), peer.eof)
      /\ ~f.fin => /\ Collected(Messages, received, c)
                   /\ UnderWay(F, Messages, Len(received), Len(c.parts), peer.eof)
  <2>0. PICK M, top, got, collected, eof, G, g, b, l :
          /\ M = Messages /\ top = peer.frames /\ got = received /\ collected = message
          /\ eof = peer.eof /\ G = F /\ g = f /\ b = c /\ l = left
    OBVIOUS
  <2>1. /\ M \in Seq(Message) /\ InOrder(M, top) /\ got \in Seq(Message) /\ collected \in Message
        /\ Collected(M, got, collected)
        /\ UnderWay(G \cup {g}, M, Len(got), Len(collected.parts), eof)
        /\ \A h \in G : g.no < h.no
        /\ b \in Message /\ b.parts = Append(collected.parts, g.no)
        /\ (collected.parts = <<>> => (b.text <=> g.kind = "text"))
        /\ collected.parts # <<>> => b.text = collected.text
        /\ l \in Message /\ l.parts = <<>>
    BY <1>2, <1>3, <1>4, <1>5, <1>6, <2>0, Zenon
  <2> USE <2>1
  <2>2. /\ Len(got) + 1 \in DOMAIN M
        /\ g.fin => /\ Len(got) + 1 < Len(M) /\ b = M[Len(got) + 1]
                    /\ Collected(M, Append(got, b), l)
                    /\ UnderWay(G, M, Len(Append(got, b)), Len(l.parts), eof)
        /\ ~g.fin => /\ Collected(M, got, b)
                     /\ UnderWay(G, M, Len(got), Len(b.parts), eof)
  <3>1. Carries(g, M, Len(got) + 1, Len(collected.parts) + 1)
    <4>1. \A h \in G \cup {g} : h = g \/ g.no < h.no
      OBVIOUS
    <4> QED
      BY <4>1, FirstIsNext
  <3>2. /\ Len(got) + 1 \in DOMAIN M /\ Len(collected.parts) + 1 \in DOMAIN M[Len(got) + 1].parts
        /\ g.no = M[Len(got) + 1].parts[Len(collected.parts) + 1]
    BY <3>1 DEF Carries
  <3>3. g.no \in Nat
    BY <3>2, MessageType
  <3>4. /\ Len(got) \in Nat /\ collected.parts \in Seq(Nat) /\ collected.text \in BOOLEAN
        /\ Len(collected.parts) \in Nat
    BY LenProperties DEF Message
  <3>5. b.parts = Append(collected.parts, g.no)
    OBVIOUS
  <3>6. b.parts \in Seq(Nat) /\ Len(b.parts) = Len(collected.parts) + 1
    BY <3>3, <3>4, <3>5, AppendElements
  <3>7. /\ g.fin => /\ Len(got) + 1 < Len(M) /\ b = M[Len(got) + 1]
                    /\ Collected(M, Append(got, b), l)
        /\ ~g.fin => Collected(M, got, b)
    BY <3>1, <3>5, TakenCollected
  <3>8. ASSUME NEW n \in Nat, NEW j \in Nat, Taken(g, Len(got), Len(collected.parts), n, j)
        PROVE  UnderWay(G, M, n, j, eof)
    BY <3>1, <3>4, <3>8, TakenUnderWay
  <3>9. g.fin => UnderWay(G, M, Len(Append(got, b)), Len(l.parts), eof)
    <4> SUFFICES ASSUME g.fin PROVE UnderWay(G, M, Len(Append(got, b)), Len(l.parts), eof)
      OBVIOUS
    <4>1. Len(Append(got, b)) = Len(got) + 1 /\ Len(l.parts) = 0
      BY AppendElements, EmptySeq
    <4>2. Taken(g, Len(got), Len(collected.parts), Len(Append(got, b)), Len(l.parts))
      BY <4>1 DEF Taken
    <4>3. Len(Append(got, b)) \in Nat /\ Len(l.parts) \in Nat
      BY <3>4, <4>1
    <4> QED
      BY <3>8, <4>2, <4>3
  <3>10. ~g.fin => UnderWay(G, M, Len(got), Len(b.parts), eof)
    <4> SUFFICES ASSUME ~g.fin PROVE UnderWay(G, M, Len(got), Len(b.parts), eof)
      OBVIOUS
    <4>1. Taken(g, Len(got), Len(collected.parts), Len(got), Len(b.parts))
      BY <3>6 DEF Taken
    <4> QED
      BY <3>4, <3>6, <3>8, <4>1
  <3> QED
    BY <3>2, <3>7, <3>9, <3>10
  <2> QED
    BY <1>6, <2>0, <2>2
<1>8. Messages' = Messages
  BY <1>1 DEF Messages
<1>9. /\ message' \in Message /\ received' \in Seq(Message)
      /\ Collected(Messages, received', message')
      /\ UnderWay(F, Messages, Len(received'), Len(message'.parts), peer.eof)
  <2>1. Append(received, c) \in Seq(Message)
    BY <1>3, <1>7, AppendElements
  <2>2. CASE f.fin
    BY <1>1, <1>5, <1>7, <2>1, <2>2
  <2>3. CASE ~f.fin
    BY <1>1, <1>3, <1>7, <2>3
  <2> QED
    BY <2>2, <2>3
<1>10. at' # "connect"
  BY <1>1
<1>11. Delivery'
  BY <1>1, <1>2, <1>3, <1>8, <1>9, <1>10 DEF Delivery, F
<1>12. CASE f.fin
  <2>1. Len(received) < Len(peer.sent) /\ c = peer.sent[Len(received) + 1]
    BY <1>3, <1>4, <1>7, <1>12, LenProperties
  <2> QED
    BY <1>1, <1>11, <1>12, <2>1 DEF Stream!Receive
<1>13. CASE ~f.fin
  BY <1>1, <1>11, <1>13
<1> QED
  BY <1>12, <1>13


\* The peer's steps keep it, too: a frame joins the stream,
LEMMA StreamGrows ==
    ASSUME StreamInv, Delivery, ~peer.eof, NEW f \in FrameSet,
           rx' = rx, wire' = wire \o Units(f), at' = at,
           f.kind \in DataKinds => f.no = peer.frames + 1
    PROVE  /\ Numbered(rx' \o wire')
           /\ DataFrames(rx' \o wire') =
                IF f.kind \in DataKinds THEN DataFrames(rx \o wire) \cup {f} ELSE DataFrames(rx \o wire)
           /\ at' = "connect" => (rx' \o wire')[1].frame.kind = "http"
<1>0. PICK s : s = rx \o wire
  OBVIOUS
<1>1. Sound(rx, wire, peer.eof, at = "connect") /\ rx \in Seq(Unit) /\ wire \in Seq(Unit)
  BY DEF StreamInv, Sound
<1>2. s \in Seq(Unit) /\ Placed(s) /\ Whole(s) /\ (at = "connect" => s # <<>>)
  BY <1>0, <1>1, ConcatProperties DEF Sound
<1>3. rx' \o wire' = s \o Units(f)
  <2>1. rx \o (wire \o Units(f)) = (rx \o wire) \o Units(f)
    BY <1>1, SendSound
  <2> QED
    BY <1>0, <2>1
<1>4. Numbered(s)
  BY <1>0 DEF Delivery
<1>5. ASSUME NEW g \in DataFrames(s) PROVE g.no \in Nat /\ g.no <= peer.frames
  <2>1. /\ peer \in Peers /\ InOrder(Messages, peer.frames)
        /\ UnderWay(DataFrames(s), Messages, Len(received), Len(message.parts), peer.eof)
    BY <1>0 DEF Delivery
  <2>2. PICK m, j \in Nat : Carries(g, Messages, m, j)
    BY <2>1 DEF UnderWay
  <2>3. m \in DOMAIN Messages /\ j \in DOMAIN Messages[m].parts /\ g.no = Messages[m].parts[j]
    BY <2>2 DEF Carries
  <2>4. Messages \in Seq(Message)
    BY <2>1, PeerMessages
  <2>5. g.no <= peer.frames
    BY <2>1, <2>3 DEF InOrder
  <2> QED
    BY <2>3, <2>4, <2>5, MessageType
<1>6. f.kind \in DataKinds => \A g \in DataFrames(s) : g.no < f.no
  <2>1. peer.frames \in Nat
    BY DEF StreamInv
  <2> QED
    BY <1>5, <2>1
<1>7. PICK t : t = s \o Units(f)
  OBVIOUS
<1>8. /\ Numbered(t)
      /\ DataFrames(t) = IF f.kind \in DataKinds THEN DataFrames(s) \cup {f} ELSE DataFrames(s)
  BY <1>2, <1>4, <1>6, <1>7, JoinFrames
<1>9. at' = "connect" => t[1].frame.kind = "http"
  <2> SUFFICES ASSUME at = "connect" PROVE t[1].frame.kind = "http"
    OBVIOUS
  <2>1. t[1] = s[1]
    BY <1>2, <1>7, JoinPlaced
  <2>2. s[1].frame.kind = "http"
    BY <1>0, <1>2 DEF Delivery
  <2> QED
    BY <2>1, <2>2
<1> QED
  BY <1>0, <1>3, <1>7, <1>8, <1>9, Zenon

\* and a fragment the messages;
LEMMA MessagesGrow ==
    ASSUME NEW p \in Peers, NEW q \in Peers, NEW f, NEW x \in Message,
           x.parts = Append(p.parts, f.no), p.parts # <<>> => x.text = p.text,
           f.kind = "text" <=> x.text,
           f.fin => q.sent = Append(p.sent, x) /\ q.parts = <<>>,
           ~f.fin => q.sent = p.sent /\ q.parts = x.parts /\ q.text = x.text
    PROVE  Adds(MessagesOf(p), MessagesOf(q), f)
<1>1. PICK M, N, l : M = MessagesOf(p) /\ N = MessagesOf(q) /\ l = Len(M)
  OBVIOUS
<1>2. /\ M \in Seq(Message) /\ l = Len(p.sent) + 1 /\ Len(p.sent) \in Nat
      /\ DOMAIN M = 1 .. l /\ l \in DOMAIN M /\ M[l].parts = p.parts /\ M[l].text = p.text
      /\ \A m \in DOMAIN M : m < l => m \in DOMAIN p.sent /\ M[m] = p.sent[m]
  BY <1>1, MessagesAre
<1>3. /\ N \in Seq(Message) /\ Len(N) = Len(q.sent) + 1 /\ Len(q.sent) \in Nat
      /\ DOMAIN N = 1 .. Len(N) /\ N[Len(N)].parts = q.parts /\ N[Len(N)].text = q.text
      /\ \A m \in DOMAIN N : m < Len(N) => N[m] = q.sent[m]
  BY <1>1, MessagesAre
<1>4. ASSUME l \in DOMAIN N, \A m \in DOMAIN M : m < l => N[m] = M[m],
             N[l].parts = x.parts, N[l].text = x.text,
             IF f.fin THEN Len(N) = l + 1 /\ N[l + 1].parts = <<>> ELSE Len(N) = l
      PROVE  Adds(M, N, f)
  <2>1. N[l].parts = Append(M[l].parts, f.no)
    BY <1>2, <1>4
  <2>2. M[l].parts # <<>> => N[l].text = M[l].text
    BY <1>2, <1>4
  <2>3. f.kind = "text" <=> N[l].text
    BY <1>4
  <2> QED
    BY <1>1, <1>2, <1>4, <2>1, <2>2, <2>3, Zenon DEF Adds
<1>5. CASE f.fin
  <2>1. p.sent \in Seq(Message) /\ q.sent = Append(p.sent, x) /\ q.parts = <<>>
    BY <1>5 DEF Peers
  <2>2. PICK sent, more : sent = p.sent /\ more = Append(sent, x)
    OBVIOUS
  <2>3. /\ Len(more) = Len(sent) + 1 /\ more[Len(sent) + 1] = x
        /\ \A m \in DOMAIN sent : more[m] = sent[m]
    BY <2>1, <2>2, AppendElements
  <2>4. Len(N) = l + 1 /\ l \in DOMAIN N /\ l < Len(N) /\ N[l + 1].parts = <<>>
    BY <1>2, <1>3, <2>1, <2>2, <2>3
  <2>5. N[l] = x
    <3>1. N[l] = q.sent[l] /\ q.sent = more
      BY <1>3, <2>1, <2>2, <2>4
    <3> QED
      BY <1>2, <2>2, <2>3, <3>1
  <2>6. ASSUME NEW m \in DOMAIN M, m < l PROVE N[m] = M[m]
    <3>1. m \in DOMAIN N /\ m < Len(N)
      BY <1>2, <1>3, <2>4, <2>6
    <3> QED
      BY <1>2, <1>3, <2>1, <2>2, <2>3, <2>6, <3>1
  <2>7. /\ N[l].parts = x.parts /\ N[l].text = x.text
        /\ IF f.fin THEN Len(N) = l + 1 /\ N[l + 1].parts = <<>> ELSE Len(N) = l
    BY <1>5, <2>4, <2>5, Zenon
  <2> QED
    BY <1>1, <1>4, <2>4, <2>6, <2>7, Zenon
<1>6. CASE ~f.fin
  <2>1. q.sent = p.sent /\ q.parts = x.parts /\ q.text = x.text
    BY <1>6
  <2>2. Len(N) = l /\ l \in DOMAIN N /\ N[l].parts = x.parts /\ N[l].text = x.text
    BY <1>2, <1>3, <2>1
  <2>3. ASSUME NEW m \in DOMAIN M, m < l PROVE N[m] = M[m]
    <3>1. m \in DOMAIN N /\ m < Len(N)
      BY <1>2, <1>3, <2>2, <2>3
    <3> QED
      BY <1>2, <1>3, <2>1, <2>3, <3>1
  <2>4. IF f.fin THEN Len(N) = l + 1 /\ N[l + 1].parts = <<>> ELSE Len(N) = l
    BY <1>6, <2>2, Zenon
  <2> QED
    BY <1>1, <1>4, <2>2, <2>3, <2>4, Zenon
<1> QED
  BY <1>5, <1>6

\* a fragment is added to the stream and to the messages at once,
LEMMA SentDelivery ==
    ASSUME StreamInv, Delivery,
           NEW kind \in DataKinds, NEW size \in 1 .. MaxSize, NEW fin \in BOOLEAN,
           PeerData(kind, size, fin)
    PROVE  Delivery' /\ (Stream!Finish \/ UNCHANGED <<received, peer.sent>>)
<1>0. PICK f : f = [kind |-> kind, no |-> peer.frames + 1, size |-> size, fin |-> fin]
  OBVIOUS
<1>1. /\ peer \in Peers /\ message \in Message /\ received \in Seq(Message)
      /\ InOrder(Messages, peer.frames) /\ Collected(Messages, received, message)
      /\ UnderWay(DataFrames(rx \o wire), Messages, Len(received), Len(message.parts), peer.eof)
  BY DEF Delivery
<1>2. peer.frames \in Nat /\ peer.parts \in Seq(Nat) /\ peer.text \in BOOLEAN
      /\ peer.sent \in Seq(Message)
  BY <1>1 DEF Peers
<1>3. /\ f \in FrameSet /\ f.kind = kind /\ f.no = peer.frames + 1 /\ f.fin = fin
      /\ f.kind \in DataKinds /\ f.no \in Nat
  <2>1. kind \in Kinds /\ peer.frames + 1 \in Nat /\ size \in Nat \ {0}
    BY <1>2 DEF Kinds, DataKinds
  <2> QED
    BY <1>0, <1>2, <2>1, FrameType
<1>4. PICK x : x = [parts |-> Append(peer.parts, f.no),
                    text |-> IF peer.parts = <<>> THEN kind = "text" ELSE peer.text]
  OBVIOUS
<1>5. /\ x.parts = Append(peer.parts, f.no) /\ x.parts \in Seq(Nat) /\ x.text \in BOOLEAN
      /\ x = [parts |-> x.parts, text |-> x.text]
      /\ peer.parts = <<>> => (x.text <=> kind = "text")
      /\ peer.parts # <<>> => x.text = peer.text
  <2>1. /\ x.parts = Append(peer.parts, f.no) /\ x = [parts |-> x.parts, text |-> x.text]
        /\ x.text = IF peer.parts = <<>> THEN kind = "text" ELSE peer.text
    BY <1>4
  <2>2. x.parts \in Seq(Nat)
    BY <1>2, <1>3, <2>1, AppendElements
  <2> QED
    BY <1>2, <2>1, <2>2, Zenon
<1>6. x \in Message
  BY <1>5 DEF Message
<1>7. /\ ~peer.eof /\ wire' = wire \o Units(f)
      /\ peer.parts # <<>> => (kind = "text") = peer.text
      /\ UNCHANGED <<rx, message, at, received>>
      /\ peer' = IF fin
                 THEN [peer EXCEPT !.frames = f.no, !.parts = <<>>, !.sent = Append(@, x)]
                 ELSE [peer EXCEPT !.frames = f.no, !.parts = x.parts, !.text = x.text]
  BY <1>0, <1>3, <1>4 DEF PeerData, PeerMaySend
<1>8. f.kind = "text" <=> x.text
  BY <1>2, <1>3, <1>5, <1>7, Zenon
<1>9. /\ peer' \in Peers /\ peer'.frames = peer.frames + 1 /\ peer'.eof = peer.eof
      /\ f.fin => peer'.sent = Append(peer.sent, x) /\ peer'.parts = <<>>
      /\ ~f.fin => peer'.sent = peer.sent /\ peer'.parts = x.parts /\ peer'.text = x.text
  <2>1. CASE f.fin
    <3>1. peer' = [peer EXCEPT !.frames = f.no, !.parts = <<>>, !.sent = Append(@, x)]
      BY <1>3, <1>7, <2>1, Zenon
    <3>2. Append(peer.sent, x) \in Seq(Message)
      BY <1>2, <1>6, AppendElements
    <3> QED
      BY <1>1, <1>3, <2>1, <3>1, <3>2, EmptySeq DEF Peers
  <2>2. CASE ~f.fin
    <3>1. peer' = [peer EXCEPT !.frames = f.no, !.parts = x.parts, !.text = x.text]
      BY <1>3, <1>7, <2>2, Zenon
    <3> QED
      BY <1>1, <1>3, <1>5, <2>2, <3>1 DEF Peers
  <2> QED
    BY <2>1, <2>2
<1>10. PICK p, q, M, N : p = peer /\ q = peer' /\ M = MessagesOf(p) /\ N = MessagesOf(q)
  OBVIOUS
<1>11. M = Messages /\ N = Messages' /\ p \in Peers /\ q \in Peers
  BY <1>1, <1>9, <1>10 DEF Messages
<1>12. Adds(M, N, f)
  <2>1. /\ x.parts = Append(p.parts, f.no) /\ (p.parts # <<>> => x.text = p.text)
        /\ f.fin => q.sent = Append(p.sent, x) /\ q.parts = <<>>
        /\ ~f.fin => q.sent = p.sent /\ q.parts = x.parts /\ q.text = x.text
    BY <1>5, <1>9, <1>10
  <2>2. Adds(MessagesOf(p), MessagesOf(q), f)
    BY <1>6, <1>8, <1>11, <2>1, MessagesGrow
  <2> QED
    BY <1>10, <2>2
<1>13. M \in Seq(Message) /\ N \in Seq(Message)
  BY <1>10, <1>11, MessagesAre
<1>14. PICK F, G, got, collected, r, k, top :
          /\ F = DataFrames(rx \o wire) /\ G = DataFrames(rx' \o wire')
          /\ got = received /\ collected = message /\ top = peer.frames
          /\ r = Len(received) /\ k = Len(message.parts)
  OBVIOUS
<1>15. /\ Numbered(rx' \o wire') /\ G = F \cup {f}
       /\ at' = "connect" => (rx' \o wire')[1].frame.kind = "http"
  <2>1. /\ Numbered(rx' \o wire')
        /\ DataFrames(rx' \o wire') =
             IF f.kind \in DataKinds THEN DataFrames(rx \o wire) \cup {f} ELSE DataFrames(rx \o wire)
        /\ at' = "connect" => (rx' \o wire')[1].frame.kind = "http"
    BY <1>3, <1>7, StreamGrows
  <2> QED
    BY <1>3, <1>14, <2>1, Zenon
<1>16. InOrder(N, top + 1)
  BY <1>1, <1>2, <1>3, <1>11, <1>12, <1>13, <1>14, AddedInOrder
<1>17. Collected(N, got, collected)
  BY <1>1, <1>3, <1>11, <1>12, <1>13, <1>14, AddedCollected
<1>18. UnderWay(G, N, r, k, FALSE)
  <2>1. r \in Nat /\ k \in Nat /\ r + 1 \in DOMAIN M /\ k <= Len(M[r + 1].parts)
    BY <1>1, <1>11, <1>14, LenProperties DEF Collected, Message
  <2>2. UnderWay(F, M, r, k, FALSE)
    BY <1>1, <1>7, <1>11, <1>14 DEF UnderWay
  <2> QED
    BY <1>3, <1>12, <1>13, <1>15, <2>1, <2>2, AddedUnderWay
<1>19. Delivery'
  BY <1>1, <1>7, <1>9, <1>11, <1>14, <1>15, <1>16, <1>17, <1>18 DEF Delivery, UnderWay
<1>20. Stream!Finish \/ UNCHANGED <<received, peer.sent>>
  <2>1. CASE f.fin
    <3>1. PICK sent, more : sent = peer.sent /\ more = Append(sent, x)
      OBVIOUS
    <3>2. Len(more) = Len(sent) + 1 /\ more[Len(sent) + 1] = x
      BY <1>2, <1>6, <3>1, AppendElements
    <3>3. peer'.sent = more
      BY <1>9, <2>1, <3>1
    <3> QED
      BY <1>6, <1>7, <3>1, <3>2, <3>3 DEF Stream!Finish
  <2>2. CASE ~f.fin
    BY <1>7, <1>9, <2>2
  <2> QED
    BY <2>1, <2>2
<1> QED
  BY <1>19, <1>20


\* a frame without data to the stream alone,
LEMMA OtherDelivery ==
    ASSUME StreamInv, Delivery,
           NEW kind \in {"ping", "pong", "close", "bad"}, NEW size \in Nat \ {0},
           PeerControl(kind, size)
    PROVE  Delivery' /\ UNCHANGED <<received, peer.sent>>
<1>0. PICK f : f = [kind |-> kind, no |-> 0, size |-> size, fin |-> TRUE]
  OBVIOUS
<1>1. f \in FrameSet /\ f.kind \notin DataKinds
  <2>1. kind \in Kinds /\ 0 \in Nat /\ size \in Nat \ {0} /\ TRUE \in BOOLEAN
    BY DEF Kinds
  <2>2. f \in FrameSet
    BY <1>0, <2>1, FrameType, Zenon
  <2>3. f.kind = kind
    BY <1>0
  <2> QED
    BY <2>2, <2>3 DEF DataKinds
<1>2. /\ ~peer.eof /\ wire' = wire \o Units(f) /\ UNCHANGED <<rx, message, at, received>>
      /\ peer' = [peer EXCEPT !.frames = @ + 1, !.closed = kind = "close"]
  BY <1>0 DEF PeerControl, PeerMaySend
<1>3. /\ peer \in Peers /\ message \in Message /\ received \in Seq(Message)
      /\ InOrder(Messages, peer.frames) /\ Collected(Messages, received, message)
      /\ UnderWay(DataFrames(rx \o wire), Messages, Len(received), Len(message.parts), peer.eof)
  BY DEF Delivery
<1>4. /\ peer' \in Peers /\ peer'.frames = peer.frames + 1 /\ peer.frames \in Nat
      /\ peer'.eof = peer.eof /\ peer'.sent = peer.sent /\ peer'.parts = peer.parts
      /\ peer'.text = peer.text
  <2>1. PICK c \in BOOLEAN, n \in Nat : c = (kind = "close") /\ n = peer.frames + 1
    <3>1. peer.frames + 1 \in Nat
      BY <1>3 DEF Peers
    <3>2. (kind = "close") \in BOOLEAN
      OBVIOUS
    <3> QED
      BY <3>1, <3>2, Zenon
  <2>2. peer' = [peer EXCEPT !.frames = n, !.closed = c]
    BY <1>2, <2>1, Zenon
  <2> QED
    BY <1>3, <2>1, <2>2 DEF Peers
<1>5. Messages' = Messages
  BY <1>4 DEF Messages, MessagesOf
<1>6. /\ Numbered(rx' \o wire') /\ DataFrames(rx' \o wire') = DataFrames(rx \o wire)
      /\ at' = "connect" => (rx' \o wire')[1].frame.kind = "http"
  <2>1. /\ Numbered(rx' \o wire')
        /\ DataFrames(rx' \o wire') =
             IF f.kind \in DataKinds THEN DataFrames(rx \o wire) \cup {f} ELSE DataFrames(rx \o wire)
        /\ at' = "connect" => (rx' \o wire')[1].frame.kind = "http"
    BY <1>1, <1>2, StreamGrows
  <2> QED
    BY <1>1, <2>1, Zenon
<1>7. InOrder(Messages, peer.frames + 1)
  <2>1. \A m \in DOMAIN Messages : \A j \in DOMAIN Messages[m].parts :
            Messages[m].parts[j] <= peer.frames + 1
    <3> SUFFICES ASSUME NEW m \in DOMAIN Messages, NEW j \in DOMAIN Messages[m].parts
                 PROVE  Messages[m].parts[j] <= peer.frames + 1
      OBVIOUS
    <3>1. Messages[m].parts[j] \in Nat
      BY <1>3, PeerMessages, MessageType
    <3>2. Messages[m].parts[j] <= peer.frames
      BY <1>3 DEF InOrder
    <3> QED
      BY <1>4, <3>1, <3>2
  <2> QED
    BY <1>3, <2>1 DEF InOrder
<1>8. Delivery'
  BY <1>2, <1>3, <1>4, <1>5, <1>6, <1>7 DEF Delivery
<1> QED
  BY <1>2, <1>4, <1>8

\* and the end of the stream cuts off what comes last.
LEMMA EofDelivery ==
    ASSUME StreamInv, Delivery, PeerEof
    PROVE  Delivery' /\ UNCHANGED <<received, peer.sent>>
<1>1. PICK n \in 0 .. Len(wire) : wire' = SubSeq(wire, 1, n)
  BY DEF PeerEof
<1>2. /\ ~peer.eof /\ peer' = [peer EXCEPT !.eof = TRUE]
      /\ UNCHANGED <<rx, message, at, received>>
  BY DEF PeerEof
<1>3. /\ peer \in Peers /\ message \in Message /\ received \in Seq(Message)
      /\ InOrder(Messages, peer.frames) /\ Collected(Messages, received, message)
      /\ UnderWay(DataFrames(rx \o wire), Messages, Len(received), Len(message.parts), peer.eof)
  BY DEF Delivery
<1>4. /\ peer' \in Peers /\ peer'.frames = peer.frames /\ peer'.eof = TRUE
      /\ peer'.sent = peer.sent /\ peer'.parts = peer.parts /\ peer'.text = peer.text
  BY <1>2, <1>3 DEF Peers
<1>5. Messages' = Messages
  BY <1>4 DEF Messages, MessagesOf
<1>6. PICK s, t : s = rx \o wire /\ t = rx' \o wire'
  OBVIOUS
<1>7. /\ Sound(rx, wire, peer.eof, at = "connect")
      /\ s \in Seq(Unit) /\ Len(rx) + n \in 0 .. Len(s) /\ t = SubSeq(s, 1, Len(rx) + n)
  <2>1. Sound(rx, wire, peer.eof, at = "connect") /\ rx \in Seq(Unit) /\ wire \in Seq(Unit)
    BY DEF StreamInv, Sound
  <2>2. /\ Len(rx) + n \in 0 .. Len(rx \o wire)
        /\ rx \o SubSeq(wire, 1, n) = SubSeq(rx \o wire, 1, Len(rx) + n)
    BY <2>1, EofSound
  <2> QED
    BY <1>1, <1>2, <1>6, <2>1, <2>2, ConcatProperties
<1>8. /\ Numbered(t) /\ DataFrames(t) \subseteq DataFrames(s)
      /\ \A f \in DataFrames(t), g \in DataFrames(s) \ DataFrames(t) : f.no < g.no
  <2>1. Numbered(s)
    BY <1>6 DEF Delivery
  <2> QED
    BY <1>7, <2>1, PrefixFrames
<1>9. UnderWay(DataFrames(t), Messages, Len(received), Len(message.parts), TRUE)
  <2>1. PICK M, F, G, r, k : /\ M = Messages /\ F = DataFrames(s) /\ G = DataFrames(t)
                             /\ r = Len(received) /\ k = Len(message.parts)
    OBVIOUS
  <2>2. M \in Seq(Message)
    BY <1>3, <2>1, PeerMessages
  <2>3. UnderWay(F, M, r, k, FALSE)
    BY <1>2, <1>3, <1>6, <2>1 DEF UnderWay
  <2>4. G \subseteq F /\ \A f \in G, g \in F \ G : f.no < g.no
    BY <1>8, <2>1
  <2>5. UnderWay(G, M, r, k, TRUE)
    BY <2>2, <2>3, <2>4, CutUnderWay
  <2> QED
    BY <2>1, <2>5
<1>10. at' = "connect" /\ t # <<>> => t[1].frame.kind = "http"
  <2> SUFFICES ASSUME at = "connect", t # <<>> PROVE t[1].frame.kind = "http"
    BY <1>2
  <2>1. s # <<>> /\ t[1] = s[1]
    <3>1. /\ t \in Seq(Unit) /\ Len(t) = Len(rx) + n
          /\ \A i \in 1 .. Len(rx) + n : t[i] = s[i]
      <4>1. PICK l : l = Len(rx) + n
        OBVIOUS
      <4>2. l \in Nat /\ l <= Len(s) /\ Len(s) \in Nat /\ DOMAIN s = 1 .. Len(s)
        BY <1>7, <4>1
      <4>3. \A i \in 1 .. l : s[i] \in Unit
        BY <1>7, <4>2
      <4>4. t \in Seq(Unit) /\ Len(t) = l /\ \A i \in 1 .. l : t[i] = s[i]
        BY <1>7, <4>1, <4>2, <4>3, SubSeqProperties
      <4> QED
        BY <4>1, <4>4
    <3>2. Len(t) \in Nat /\ Len(t) # 0
      BY <3>1, EmptySeq
    <3>3. 1 \in 1 .. Len(rx) + n
      BY <3>1, <3>2
    <3>4. Len(s) # 0
      BY <1>7, <3>1, <3>2
    <3> QED
      BY <3>1, <3>3, <3>4, EmptySeq
  <2> QED
    BY <1>6, <2>1 DEF Delivery
<1>11. Delivery'
  BY <1>2, <1>3, <1>4, <1>5, <1>6, <1>8, <1>9, <1>10 DEF Delivery
<1> QED
  BY <1>2, <1>4, <1>11

\* Every step keeps it, and is a step of the stream of messages, or none.
LEMMA DeliveryStep ==
    ASSUME StreamInv, Delivery, [Next]_vars
    PROVE  Delivery' /\ [Stream!Next]_(Stream!vars)
<1> USE DEF Stream!Next, Stream!vars
<1>1. CASE PeerStep
  <2>1. ASSUME NEW kind \in DataKinds, NEW size \in 1 .. MaxSize, NEW fin \in BOOLEAN,
               PeerData(kind, size, fin)
        PROVE  Delivery' /\ (Stream!Finish \/ UNCHANGED <<received, peer.sent>>)
    BY <2>1, SentDelivery
  <2>2. ASSUME NEW kind \in {"ping", "pong", "close", "bad"}, NEW size \in Nat \ {0},
               PeerControl(kind, size)
        PROVE  Delivery' /\ UNCHANGED <<received, peer.sent>>
    BY <2>2, OtherDelivery
  <2>3. PeerEof => Delivery' /\ UNCHANGED <<received, peer.sent>>
    BY EofDelivery
  <2>4. ASSUME NEW size \in 1 .. MaxControl PROVE size \in Nat \ {0}
    OBVIOUS
  <2> QED
    BY <1>1, <2>1, <2>2, <2>3, <2>4 DEF PeerStep
<1>2. CASE ConnectReads \/ Fill
  BY <1>2, ReadDelivery DEF ConnectReads, Fill
<1>3. CASE \/ ConnectFails \/ CallRecv \/ CallSend \/ CallClose \/ NeedsMore \/ ReadFails
           \/ WritePart \/ WriteDone \/ WriteFails \/ Cancel
  BY <1>3, QuietDelivery
  DEF ConnectFails, CallRecv, CallSend, CallClose, NeedsMore, ReadFails, WritePart, WriteDone,
      WriteFails, Cancel
<1>4. CASE ConnectDone \/ TakePong \/ TakePing \/ TakeClose
  BY <1>4, ControlDelivery DEF ConnectDone, TakePong, TakePing, TakeClose
<1>5. CASE TakeData
  BY <1>5, DataDelivery
<1>6. CASE UNCHANGED vars
  <2>1. UNCHANGED <<rx, wire, message, received, peer, at>>
    BY <1>6 DEF vars
  <2>2. Delivery'
    BY <2>1, DeliverySame
  <2> QED
    BY <2>1, <2>2
<1> QED
  BY <1>1, <1>2, <1>3, <1>4, <1>5, <1>6 DEF Next, TransportStep

\* recv() returns what the peer has sent, message by message, whole, with its kind,
\* once and in order: the transport implements a stream of messages, for any
\* buffer and any frames, whatever is dropped, cut off or refused (take_message,
\* collect).
THEOREM TransportImplementsStream == Spec => ImplementsStream
<1>1. Init => Stream!Init
  BY DEF Init, Stream!Init
<1>2. StreamInv /\ Delivery /\ [Next]_vars => Delivery' /\ [Stream!Next]_(Stream!vars)
  BY DeliveryStep
<1> QED
  BY <1>1, <1>2, DeliveryInit, StreamHolds, PTL DEF Spec, ImplementsStream, Stream!Spec

=============================================================================
