---------------------------- MODULE SharedLemmas ----------------------------
(***************************************************************************)
(* What the proofs of more than one component rest on: first what          *)
(* appending, taking the tail, joining, choosing and removing do to the    *)
(* elements of a sequence, with a principle of induction for sequences;    *)
(* then what the methods of a session (SessionCore.tla) do to it, for      *)
(* every session, argument and frame. What a recursive definition computes *)
(* is proved for the one recursion used here, that of Subsequence.         *)
(***************************************************************************)
EXTENDS SessionCore, Subsequences, TLAPS, SequenceTheorems, WellFoundedInduction,
        FiniteSetTheorems

----------------------------------------------------------------------------
(* Sequences.                                                              *)

\* Appending adds one element, at the end.
LEMMA AppendElements ==
    ASSUME NEW S, NEW s \in Seq(S), NEW e \in S
    PROVE  LET t == Append(s, e)
           IN  /\ t \in Seq(S) /\ t # <<>> /\ Len(t) = Len(s) + 1
               /\ ToSet(t) = ToSet(s) \cup {e}
               /\ DOMAIN t = DOMAIN s \cup {Len(s) + 1} /\ Len(s) + 1 \notin DOMAIN s
               /\ t[Len(s) + 1] = e /\ \A i \in DOMAIN s : t[i] = s[i]
<1> DEFINE t == Append(s, e)
           n == Len(s)
<1>1. /\ n \in Nat /\ DOMAIN s = 1 .. n
      /\ t \in Seq(S) /\ Len(t) = n + 1 /\ DOMAIN t = 1 .. n + 1
      /\ t[n + 1] = e /\ \A i \in 1 .. n : t[i] = s[i]
  BY AppendProperties, LenProperties
<1> HIDE DEF t, n
<1>2. 1 .. n + 1 = 1 .. n \cup {n + 1} /\ n + 1 \notin 1 .. n
  BY <1>1
<1>3. ToSet(t) = ToSet(s) \cup {e}
  BY <1>1, <1>2 DEF ToSet
<1>4. t # <<>>
  BY <1>1
<1> QED
  BY <1>1, <1>2, <1>3, <1>4 DEF t, n

\* Taking the head removes one element, at the front.
LEMMA TailElements ==
    ASSUME NEW S, NEW s \in Seq(S), s # <<>>
    PROVE  LET t == Tail(s)
           IN  /\ Head(s) \in S /\ t \in Seq(S) /\ Len(t) = Len(s) - 1 /\ Len(s) > 0
               /\ ToSet(s) = {Head(s)} \cup ToSet(t)
               /\ 1 \in DOMAIN s /\ s[1] = Head(s)
               /\ \A i \in DOMAIN t : i + 1 \in DOMAIN s /\ i + 1 # 1 /\ t[i] = s[i + 1]
               /\ \A j \in DOMAIN s : j = 1 \/ \E i \in DOMAIN t : j = i + 1
<1> DEFINE t == Tail(s)
           n == Len(t)
<1>1. /\ Head(s) \in S /\ t \in Seq(S) /\ Len(s) \in Nat /\ Len(s) > 0
      /\ n = Len(s) - 1 /\ s[1] = Head(s) /\ DOMAIN s = 1 .. Len(s) /\ DOMAIN t = 1 .. n
      /\ \A i \in 1 .. n : t[i] = s[i + 1]
  BY HeadTailProperties, LenProperties, EmptySeq
<1> HIDE DEF t, n
<1>2. /\ Len(s) = n + 1 /\ n \in Nat /\ 1 \in DOMAIN s
      /\ \A i \in 1 .. n : i + 1 \in DOMAIN s /\ i + 1 # 1
      /\ \A j \in DOMAIN s : j = 1 \/ (j - 1 \in 1 .. n /\ j = (j - 1) + 1)
  BY <1>1
<1>3. \A j \in DOMAIN s : j = 1 \/ \E i \in DOMAIN t : j = i + 1
  BY <1>1, <1>2
<1>4. ToSet(s) = {Head(s)} \cup ToSet(t)
  <2>1. ToSet(s) \subseteq {Head(s)} \cup ToSet(t)
    BY <1>1, <1>3 DEF ToSet
  <2>2. ToSet(t) \subseteq ToSet(s)
    <3> SUFFICES ASSUME NEW i \in DOMAIN t PROVE t[i] \in ToSet(s)
      BY DEF ToSet
    <3>1. PICK k \in DOMAIN s : k = i + 1
      BY <1>1, <1>2
    <3>2. t[i] = s[k]
      BY <1>1, <3>1
    <3> QED
      BY <3>2, Zenon DEF ToSet
  <2>3. Head(s) \in ToSet(s)
    BY <1>1, <1>2, Zenon DEF ToSet
  <2> QED
    BY <2>1, <2>2, <2>3
<1> QED
  BY <1>1, <1>2, <1>3, <1>4 DEF t, n

\* A nonempty set of naturals has a least element.
LEMMA LeastOfNat ==
    ASSUME NEW S, S \subseteq Nat, S # {}
    PROVE  Min(S) \in S /\ \A x \in S : Min(S) =< x
<1>1. PICK x \in S : \A y \in S : ~ (<<y, x>> \in OpToRel(<, Nat))
  BY NatLessThanWellFounded, WFMin, Zenon
<1>2. ASSUME NEW y \in S PROVE x =< y
  <2>1. <<y, x>> \in Nat \X Nat /\ y \in Nat /\ x \in Nat
    OBVIOUS
  <2>2. ~(y < x)
    BY <1>1, <2>1, Zenon DEF OpToRel
  <2> QED
    BY <2>1, <2>2
<1> QED
  BY <1>2 DEF Min

\* Where the elements of a concatenation come from.
LEMMA ConcatIndex ==
    ASSUME NEW S, NEW a \in Seq(S), NEW b \in Seq(S)
    PROVE  /\ \A k \in DOMAIN a : k \in DOMAIN (a \o b) /\ (a \o b)[k] = a[k]
           /\ \A i \in DOMAIN b : /\ Len(a) + i \in DOMAIN (a \o b) \ DOMAIN a
                                 /\ (a \o b)[Len(a) + i] = b[i]
           /\ \A k \in DOMAIN (a \o b) :
                \/ k \in DOMAIN a /\ (a \o b)[k] = a[k]
                \/ k - Len(a) \in DOMAIN b /\ (a \o b)[k] = b[k - Len(a)]
<1> DEFINE c == a \o b
           n == Len(a)
           m == Len(b)
<1>1. /\ n \in Nat /\ DOMAIN a = 1 .. n /\ m \in Nat /\ DOMAIN b = 1 .. m
      /\ DOMAIN c = 1 .. n + m
      /\ \A k \in 1 .. n + m : c[k] = IF k <= n THEN a[k] ELSE b[k - n]
  BY ConcatProperties, LenProperties
<1> HIDE DEF c, n, m
<1>2. \A k \in 1 .. n : k \in 1 .. n + m /\ c[k] = a[k]
  BY <1>1
<1>3. \A i \in 1 .. m : n + i \in 1 .. n + m /\ n + i \notin 1 .. n /\ c[n + i] = b[i]
  <2> TAKE i \in 1 .. m
  <2>1. n + i \in 1 .. n + m /\ ~(n + i <= n) /\ (n + i) - n = i
    BY <1>1
  <2> QED
    BY <1>1, <2>1
<1>4. \A k \in 1 .. n + m : (k \in 1 .. n /\ c[k] = a[k]) \/ (k - n \in 1 .. m /\ c[k] = b[k - n])
  BY <1>1
<1> QED
  BY <1>1, <1>2, <1>3, <1>4 DEF c, n, m

\* The elements of a concatenation.
LEMMA ConcatElements ==
    ASSUME NEW S, NEW a \in Seq(S), NEW b \in Seq(S)
    PROVE  ToSet(a \o b) = ToSet(a) \cup ToSet(b)
<1>1. /\ \A k \in DOMAIN a : k \in DOMAIN (a \o b) /\ (a \o b)[k] = a[k]
      /\ \A i \in DOMAIN b : Len(a) + i \in DOMAIN (a \o b) /\ (a \o b)[Len(a) + i] = b[i]
      /\ \A k \in DOMAIN (a \o b) :
            \/ k \in DOMAIN a /\ (a \o b)[k] = a[k]
            \/ k - Len(a) \in DOMAIN b /\ (a \o b)[k] = b[k - Len(a)]
  BY ConcatIndex
<1> DEFINE c == a \o b
<1> HIDE DEF c
<1>2. ToSet(c) \subseteq ToSet(a) \cup ToSet(b)
  BY <1>1 DEF ToSet, c
<1>3. ToSet(a) \subseteq ToSet(c)
  BY <1>1 DEF ToSet, c
<1>4. ASSUME NEW i \in DOMAIN b PROVE b[i] \in ToSet(c)
  <2>1. PICK k \in DOMAIN c : c[k] = b[i]
    BY <1>1 DEF c
  <2> QED
    BY <2>1, Zenon DEF ToSet
<1>5. ToSet(b) \subseteq ToSet(c)
  BY <1>4 DEF ToSet
<1> QED
  BY <1>2, <1>3, <1>5 DEF c

\* What holds of the empty sequence, and of each sequence that one element
\* makes longer, holds of every sequence.
LEMMA ByAppending ==
    ASSUME NEW S, NEW P, <<>> \in P,
           \A s \in Seq(S) : s \in P => \A e \in S : Append(s, e) \in P
    PROVE  \A s \in Seq(S) : s \in P
<1> DEFINE bad == {n \in Nat : \E s \in Seq(S) : Len(s) = n /\ s \notin P}
<1> SUFFICES ASSUME bad # {} PROVE FALSE
  <2>1. \A s \in Seq(S) : Len(s) \in Nat
    BY LenProperties
  <2> QED
    BY <2>1
<1>1. PICK n \in bad : \A k \in bad : n =< k
  <2>1. bad \subseteq Nat
    OBVIOUS
  <2> HIDE DEF bad
  <2> QED
    BY <2>1, LeastOfNat
<1>2. PICK s \in Seq(S) : Len(s) = n /\ s \notin P
  OBVIOUS
<1>3. s # <<>>
  BY <1>2
<1>4. PICK t \in Seq(S), e \in S : s = Append(t, e)
  <2> DEFINE t == [i \in 1 .. n - 1 |-> s[i]]
  <2>1. n \in Nat /\ n # 0
    BY <1>2, <1>3, EmptySeq
  <2>2. /\ t \in Seq(S) /\ Len(t) = n - 1 /\ s[n] \in S
        /\ \A i \in 1 .. n - 1 : t[i] = s[i]
    BY <1>2, <2>1
  <2>3. PICK last \in S : last = s[n]
    BY <2>2
  <2> HIDE DEF t
  <2>4. /\ Append(t, last) \in Seq(S) /\ Len(Append(t, last)) = n
        /\ Append(t, last)[n] = last
        /\ \A i \in 1 .. n - 1 : Append(t, last)[i] = s[i]
    BY <2>1, <2>2, AppendProperties
  <2>5. \A i \in 1 .. n : Append(t, last)[i] = s[i]
    BY <2>1, <2>3, <2>4
  <2>6. s = Append(t, last)
    BY <1>2, <2>4, <2>5, SeqEqual
  <2> QED
    BY <2>2, <2>6
<1>5. Len(t) \in Nat /\ n = Len(t) + 1
  BY <1>2, <1>4, AppendProperties, LenProperties
<1>6. t \in P
  BY <1>1, <1>5
<1> QED
  BY <1>2, <1>4, <1>6

\* f gives, for each number of elements, what Subsequence keeps of that many.
Keeps(f, s, J) ==
    f = [i \in 0 .. Len(s) |->
            IF i = 0 THEN <<>>
              ELSE IF i \in J THEN Append(f[i - 1], s[i]) ELSE f[i - 1]]

\* The recursion of Subsequence has one solution.
LEMMA KeepsOnce ==
    ASSUME NEW S, NEW J
    PROVE  \A s \in Seq(S) : \E f : Keeps(f, s, J) /\ \A g : Keeps(g, s, J) => g = f
<1> DEFINE P == {s \in Seq(S) : \E f : Keeps(f, s, J) /\ \A g : Keeps(g, s, J) => g = f}
<1>1. <<>> \in P
  <2> DEFINE f == [i \in 0 .. 0 |-> <<>>]
  <2>1. <<>> \in Seq(S) /\ Len(<<>>) = 0
    BY EmptySeq
  <2>2. Keeps(f, <<>>, J)
    BY <2>1 DEF Keeps
  <2>3. \A g : Keeps(g, <<>>, J) => g = f
    BY <2>1 DEF Keeps
  <2> QED
    BY <2>1, <2>2, <2>3
<1>2. ASSUME NEW s \in Seq(S), s \in P, NEW e \in S PROVE Append(s, e) \in P
  <2>1. PICK f : Keeps(f, s, J) /\ \A g : Keeps(g, s, J) => g = f
    BY <1>2
  <2> DEFINE n == Len(s)
             t == Append(s, e)
             last == IF n + 1 \in J THEN Append(f[n], e) ELSE f[n]
             h == [i \in 0 .. n + 1 |-> IF i = n + 1 THEN last ELSE f[i]]
  <2>2. /\ n \in Nat /\ t \in Seq(S) /\ Len(t) = n + 1 /\ t[n + 1] = e
        /\ \A i \in 1 .. n : t[i] = s[i]
    BY AppendProperties, LenProperties
  <2> HIDE DEF t
  <2>0. \A i \in 0 .. n :
            f[i] = IF i = 0 THEN <<>>
                   ELSE IF i \in J THEN Append(f[i - 1], s[i]) ELSE f[i - 1]
    BY <2>1 DEF Keeps
  <2> HIDE DEF n
  <2>3. /\ f[0] = <<>>
        /\ \A i \in 1 .. n : i \in J => f[i] = Append(f[i - 1], s[i])
        /\ \A i \in 1 .. n : i \notin J => f[i] = f[i - 1]
    <3>1. 0 \in 0 .. n /\ \A i \in 1 .. n : i \in 0 .. n /\ i # 0
      BY <2>2
    <3> QED
      BY <2>0, <3>1
  <2>4. ASSUME NEW i \in 0 .. n + 1
        PROVE  h[i] = IF i = 0 THEN <<>>
                        ELSE IF i \in J THEN Append(h[i - 1], t[i]) ELSE h[i - 1]
    <3>1. CASE i = 0
      BY <2>2, <2>3, <3>1
    <3>2. CASE i \in 1 .. n
      <4>1. h[i] = f[i] /\ h[i - 1] = f[i - 1] /\ t[i] = s[i] /\ i # 0
        BY <2>2, <3>2
      <4> QED
        BY <2>3, <3>2, <4>1
    <3>3. CASE i = n + 1
      BY <2>2, <3>3
    <3> QED
      BY <2>2, <3>1, <3>2, <3>3
  <2>5. Keeps(h, t, J)
    BY <2>2, <2>4 DEF Keeps
  <2>6. ASSUME NEW g, Keeps(g, t, J) PROVE g = h
    <3> DEFINE r == [i \in 0 .. n |-> g[i]]
    <3>0. g = [i \in 0 .. n + 1 |-> g[i]]
      BY <2>2, <2>6 DEF Keeps
    <3>1. \A i \in 0 .. n + 1 :
                g[i] = IF i = 0 THEN <<>>
                         ELSE IF i \in J THEN Append(g[i - 1], t[i]) ELSE g[i - 1]
      BY <2>2, <2>6 DEF Keeps
    <3>2. ASSUME NEW i \in 0 .. n
          PROVE  r[i] = IF i = 0 THEN <<>>
                          ELSE IF i \in J THEN Append(r[i - 1], s[i]) ELSE r[i - 1]
      <4>1. CASE i = 0
        BY <2>2, <3>1, <4>1
      <4>2. CASE i # 0
        <5>1. /\ i \in 1 .. n /\ r[i] = g[i] /\ r[i - 1] = g[i - 1] /\ t[i] = s[i]
              /\ i \in 0 .. n + 1
          BY <2>2, <4>2
        <5> HIDE DEF r
        <5> QED
          BY <3>1, <4>2, <5>1
      <4> QED
        BY <4>1, <4>2
    <3>3. Keeps(r, s, J)
      BY <3>2 DEF Keeps, n
    <3>4. r = f
      BY <2>1, <3>3
    <3>5. \A i \in 0 .. n : g[i] = f[i]
      BY <3>4
    <3>6. g[n + 1] = last
      <4>1. n + 1 \in 0 .. n + 1 /\ n + 1 # 0 /\ n + 1 - 1 = n /\ n \in 0 .. n
        BY <2>2
      <4>2. g[n + 1] = IF n + 1 \in J THEN Append(g[n], t[n + 1]) ELSE g[n]
        BY <3>1, <4>1
      <4>3. g[n] = f[n]
        BY <3>5, <4>1
      <4> QED
        BY <2>2, <4>2, <4>3
    <3> HIDE DEF last, r
    <3>7. \A i \in 0 .. n + 1 : g[i] = h[i]
      BY <2>2, <3>5, <3>6
    <3> QED
      BY <3>0, <3>7
  <2> HIDE DEF h
  <2> QED
    BY <2>2, <2>5, <2>6 DEF t
<1> HIDE DEF P
<1>3. \A s \in Seq(S) : s \in P
  BY <1>1, <1>2, ByAppending
<1> QED
  BY <1>3 DEF P

\* Subsequence goes through a sequence from its front.
LEMMA SubsequenceAppend ==
    ASSUME NEW S, NEW J, NEW s \in Seq(S), NEW e \in S
    PROVE  /\ Subsequence(<<>>, J) = <<>>
           /\ Subsequence(Append(s, e), J) =
                IF Len(s) + 1 \in J THEN Append(Subsequence(s, J), e) ELSE Subsequence(s, J)
<1> DEFINE n == Len(s)
           t == Append(s, e)
<1>1. /\ n \in Nat /\ t \in Seq(S) /\ Len(t) = n + 1 /\ t[n + 1] = e
      /\ \A i \in 1 .. n : t[i] = s[i]
      /\ <<>> \in Seq(S) /\ Len(<<>>) = 0
  BY AppendProperties, LenProperties, EmptySeq
<1> HIDE DEF t
<1>2. ASSUME NEW u \in Seq(S) PROVE \E f : Keeps(f, u, J) /\ Subsequence(u, J) = f[Len(u)]
  <2>1. PICK f : Keeps(f, u, J)
    BY KeepsOnce
  <2> QED
    BY <2>1 DEF Subsequence, Keeps
<1>3. Subsequence(<<>>, J) = <<>>
  <2>1. PICK f : Keeps(f, <<>>, J) /\ Subsequence(<<>>, J) = f[0]
    BY <1>1, <1>2
  <2> QED
    BY <1>1, <2>1 DEF Keeps
<1>4. PICK f : Keeps(f, s, J) /\ Subsequence(s, J) = f[n]
  BY <1>2
<1>5. PICK g : Keeps(g, t, J) /\ Subsequence(t, J) = g[n + 1]
  BY <1>1, <1>2
<1> DEFINE r == [i \in 0 .. n |-> g[i]]
<1>6. \A i \in 0 .. n + 1 : g[i] = IF i = 0 THEN <<>>
                                     ELSE IF i \in J THEN Append(g[i - 1], t[i]) ELSE g[i - 1]
  BY <1>1, <1>5 DEF Keeps
<1> HIDE DEF n
<1>7. ASSUME NEW i \in 0 .. n
      PROVE  r[i] = IF i = 0 THEN <<>>
                      ELSE IF i \in J THEN Append(r[i - 1], s[i]) ELSE r[i - 1]
  <2>1. CASE i = 0
    BY <1>1, <1>6, <2>1
  <2>2. CASE i # 0
    <3>1. /\ i \in 1 .. n /\ r[i] = g[i] /\ r[i - 1] = g[i - 1] /\ t[i] = s[i]
          /\ i \in 0 .. n + 1
      BY <1>1, <2>2
    <3> QED
      BY <1>6, <2>2, <3>1
  <2> QED
    BY <2>1, <2>2
<1>8. Keeps(r, s, J)
  BY <1>7 DEF Keeps, n
<1>9. r = f
  BY <1>4, <1>8, KeepsOnce
<1>10. g[n] = f[n]
  BY <1>1, <1>9
<1>11. n + 1 \in 0 .. n + 1 /\ n + 1 # 0 /\ n + 1 - 1 = n
  BY <1>1
<1>12. g[n + 1] = IF n + 1 \in J THEN Append(g[n], e) ELSE g[n]
  BY <1>1, <1>6, <1>11
<1> QED
  BY <1>3, <1>4, <1>5, <1>10, <1>12 DEF t, n

\* t consists of elements of s, each taken at most once.
Within(t, s) ==
    \E g \in [DOMAIN t -> DOMAIN s] :
        /\ \A i \in DOMAIN t : t[i] = s[g[i]]
        /\ \A i, j \in DOMAIN t : g[i] = g[j] => i = j

\* Subsequence takes the elements at the positions it is given, and no other.
LEMMA SubsequenceParts ==
    ASSUME NEW S, NEW J
    PROVE  \A s \in Seq(S) : /\ Subsequence(s, J) \in Seq(S)
                             /\ Within(Subsequence(s, J), s)
                             /\ ToSet(Subsequence(s, J)) = {s[j] : j \in J \cap DOMAIN s}
<1> DEFINE Drawn(s, t) == /\ t \in Seq(S) /\ Within(t, s)
                          /\ ToSet(t) = {s[j] : j \in J \cap DOMAIN s}
           P == {s \in Seq(S) : Drawn(s, Subsequence(s, J))}
<1>1. <<>> \in P
  <2>1. <<>> \in Seq(S) /\ DOMAIN <<>> = {}
    BY EmptySeq
  <2>2. Within(<<>>, <<>>)
    <3>1. [i \in {} |-> i] \in [DOMAIN <<>> -> DOMAIN <<>>]
      BY <2>1
    <3> QED
      BY <2>1, <3>1, Zenon DEF Within
  <2>3. Subsequence(<<>>, J) = <<>>
    <3>1. Len(<<>>) = 0
      OBVIOUS
    <3>2. PICK f : Keeps(f, <<>>, J)
      BY <2>1, KeepsOnce
    <3> QED
      BY <3>1, <3>2 DEF Keeps, Subsequence
  <2>4. ToSet(<<>>) = {<<>>[j] : j \in J \cap DOMAIN <<>>}
    BY <2>1, Zenon DEF ToSet
  <2> QED
    BY <2>1, <2>2, <2>3, <2>4
<1>2. ASSUME NEW s \in Seq(S), s \in P, NEW e \in S PROVE Append(s, e) \in P
  <2> DEFINE t == Subsequence(s, J)
             u == Append(s, e)
             n == Len(s)
  <2>1. t \in Seq(S) /\ Within(t, s) /\ ToSet(t) = {s[j] : j \in J \cap DOMAIN s}
    BY <1>2
  <2>2. /\ u \in Seq(S) /\ DOMAIN u = DOMAIN s \cup {n + 1} /\ n + 1 \notin DOMAIN s
        /\ u[n + 1] = e /\ \A i \in DOMAIN s : u[i] = s[i]
    BY AppendElements
  <2>3. Subsequence(u, J) = IF n + 1 \in J THEN Append(t, e) ELSE t
    BY SubsequenceAppend
  <2> HIDE DEF t, u, n
  <2>4. PICK g \in [DOMAIN t -> DOMAIN s] :
            /\ \A i \in DOMAIN t : t[i] = s[g[i]]
            /\ \A i, j \in DOMAIN t : g[i] = g[j] => i = j
    BY <2>1 DEF Within
  <2>5. CASE n + 1 \in J
    <3> DEFINE v == Append(t, e)
               m == Len(t)
               h == [i \in DOMAIN v |-> IF i \in DOMAIN t THEN g[i] ELSE n + 1]
    <3>1. /\ v \in Seq(S) /\ ToSet(v) = ToSet(t) \cup {e}
          /\ DOMAIN v = DOMAIN t \cup {m + 1} /\ m + 1 \notin DOMAIN t
          /\ v[m + 1] = e /\ \A i \in DOMAIN t : v[i] = t[i]
      BY <2>1, AppendElements
    <3> HIDE DEF v, m
    <3>2. h \in [DOMAIN v -> DOMAIN u]
      BY <2>2, <2>4, <3>1
    <3>3. \A i \in DOMAIN v : v[i] = u[h[i]]
      BY <2>2, <2>4, <3>1
    <3>4. \A i, j \in DOMAIN v : h[i] = h[j] => i = j
      BY <2>2, <2>4, <3>1
    <3>5. Within(v, u)
      BY <3>2, <3>3, <3>4 DEF Within
    <3>6. ToSet(v) = {u[j] : j \in J \cap DOMAIN u}
      BY <2>1, <2>2, <2>5, <3>1
    <3> QED
      BY <2>2, <2>3, <2>5, <3>1, <3>5, <3>6 DEF v, u
  <2>6. CASE n + 1 \notin J
    <3>1. g \in [DOMAIN t -> DOMAIN u] /\ \A i \in DOMAIN t : t[i] = u[g[i]]
      BY <2>2, <2>4
    <3>2. Within(t, u)
      BY <2>4, <3>1 DEF Within
    <3>3. ToSet(t) = {u[j] : j \in J \cap DOMAIN u}
      BY <2>1, <2>2, <2>6
    <3> QED
      BY <2>1, <2>2, <2>3, <2>6, <3>2, <3>3 DEF u
  <2> QED
    BY <2>5, <2>6
<1> HIDE DEF P
<1>3. \A s \in Seq(S) : s \in P
  BY <1>1, <1>2, ByAppending
<1> QED
  BY <1>3 DEF P

\* t consists of elements of s, in the order in which s has them.
InOrderOf(t, s) ==
    \E g \in [DOMAIN t -> DOMAIN s] :
        /\ \A i \in DOMAIN t : t[i] = s[g[i]]
        /\ \A i, j \in DOMAIN t : i < j => g[i] < g[j]

\* Subsequence keeps the order.
LEMMA SubsequenceOrder ==
    ASSUME NEW S, NEW J
    PROVE  \A s \in Seq(S) : InOrderOf(Subsequence(s, J), s)
<1> DEFINE P == {s \in Seq(S) : InOrderOf(Subsequence(s, J), s)}
<1>1. <<>> \in P
  <2>1. <<>> \in Seq(S) /\ DOMAIN <<>> = {}
    BY EmptySeq
  <2>2. InOrderOf(<<>>, <<>>)
    <3>1. [i \in {} |-> i] \in [DOMAIN <<>> -> DOMAIN <<>>]
      BY <2>1
    <3> QED
      BY <2>1, <3>1, Zenon DEF InOrderOf
  <2>3. Subsequence(<<>>, J) = <<>>
    <3>1. PICK e : e \in {0}
      OBVIOUS
    <3>2. <<>> \in Seq({0})
      BY EmptySeq
    <3> QED
      BY <3>1, <3>2, SubsequenceAppend
  <2> QED
    BY <2>1, <2>2, <2>3
<1>2. ASSUME NEW s \in Seq(S), s \in P, NEW e \in S PROVE Append(s, e) \in P
  <2> DEFINE t == Subsequence(s, J)
             u == Append(s, e)
             n == Len(s)
  <2>1. t \in Seq(S) /\ InOrderOf(t, s)
    BY <1>2, SubsequenceParts
  <2>2. /\ u \in Seq(S) /\ DOMAIN u = DOMAIN s \cup {n + 1} /\ n + 1 \notin DOMAIN s
        /\ u[n + 1] = e /\ \A i \in DOMAIN s : u[i] = s[i]
    BY AppendElements
  <2>3. Subsequence(u, J) = IF n + 1 \in J THEN Append(t, e) ELSE t
    BY SubsequenceAppend
  <2>4. n \in Nat /\ \A i \in DOMAIN s : i \in Nat /\ i < n + 1
    BY LenProperties
  <2> HIDE DEF t, u, n
  <2>5. PICK g \in [DOMAIN t -> DOMAIN s] :
            /\ \A i \in DOMAIN t : t[i] = s[g[i]]
            /\ \A i, j \in DOMAIN t : i < j => g[i] < g[j]
    BY <2>1 DEF InOrderOf
  <2>6. CASE n + 1 \in J
    <3> DEFINE v == Append(t, e)
               m == Len(t)
               h == [i \in DOMAIN v |-> IF i \in DOMAIN t THEN g[i] ELSE n + 1]
    <3>1. /\ v \in Seq(S) /\ DOMAIN v = DOMAIN t \cup {m + 1} /\ m + 1 \notin DOMAIN t
          /\ v[m + 1] = e /\ \A i \in DOMAIN t : v[i] = t[i]
      BY <2>1, AppendElements
    <3>2. m \in Nat /\ \A i \in DOMAIN t : i \in Nat /\ i < m + 1
      BY <2>1, LenProperties
    <3> HIDE DEF v, m
    <3>3. h \in [DOMAIN v -> DOMAIN u]
      BY <2>2, <2>5, <3>1
    <3>4. \A i \in DOMAIN v : v[i] = u[h[i]]
      BY <2>2, <2>5, <3>1
    <3>5. ASSUME NEW i \in DOMAIN v, NEW j \in DOMAIN v, i < j PROVE h[i] < h[j]
      <4>1. i \in DOMAIN t
        BY <3>1, <3>2, <3>5
      <4>2. CASE j \in DOMAIN t
        BY <2>5, <3>1, <3>5, <4>1, <4>2
      <4>3. CASE j \notin DOMAIN t
        BY <2>4, <2>5, <3>1, <4>1, <4>3
      <4> QED
        BY <4>2, <4>3
    <3>6. InOrderOf(v, u)
      BY <3>3, <3>4, <3>5 DEF InOrderOf
    <3> QED
      BY <2>2, <2>3, <2>6, <3>6 DEF v, u
  <2>7. CASE n + 1 \notin J
    <3>1. g \in [DOMAIN t -> DOMAIN u] /\ \A i \in DOMAIN t : t[i] = u[g[i]]
      BY <2>2, <2>5
    <3>2. InOrderOf(t, u)
      BY <2>5, <3>1 DEF InOrderOf
    <3> QED
      BY <2>2, <2>3, <2>7, <3>2 DEF u
  <2> QED
    BY <2>6, <2>7
<1> HIDE DEF P
<1>3. \A s \in Seq(S) : s \in P
  BY <1>1, <1>2, ByAppending
<1> QED
  BY <1>3 DEF P

\* Only the positions that a sequence has count.
LEMMA SubsequenceWhere ==
    ASSUME NEW S, NEW s \in Seq(S), NEW J, NEW K, J \cap DOMAIN s = K \cap DOMAIN s
    PROVE  Subsequence(s, J) = Subsequence(s, K)
<1>0. PICK f : Keeps(f, s, J)
  BY KeepsOnce
<1>1. \A h : Keeps(h, s, J) => h = f
  BY <1>0, KeepsOnce
<1>2. \A i \in 0 .. Len(s) : i # 0 => (i \in J <=> i \in K)
  BY LenProperties
<1>3. \A h : Keeps(h, s, K) <=> Keeps(h, s, J)
  BY <1>2 DEF Keeps
<1>4. PICK d : Keeps(d, s, J) /\ Subsequence(s, J) = d[Len(s)]
  BY <1>0 DEF Subsequence, Keeps
<1>5. PICK r : Keeps(r, s, K) /\ Subsequence(s, K) = r[Len(s)]
  <2>1. Keeps(f, s, K)
    BY <1>0, <1>3
  <2> QED
    BY <2>1 DEF Subsequence, Keeps
<1> QED
  BY <1>1, <1>3, <1>4, <1>5

\* Subsequence of a concatenation.
LEMMA SubsequenceConcat ==
    ASSUME NEW S, NEW a \in Seq(S), NEW J
    PROVE  \A b \in Seq(S) :
                \A K : (\A i \in DOMAIN b : i \in K <=> Len(a) + i \in J) =>
                    Subsequence(a \o b, J) = Subsequence(a, J) \o Subsequence(b, K)
<1> DEFINE Behind(b) == {i \in DOMAIN b : Len(a) + i \in J}
           P == {b \in Seq(S) : Subsequence(a \o b, J) =
                                    Subsequence(a, J) \o Subsequence(b, Behind(b))}
<1>1. Subsequence(a, J) \in Seq(S)
  BY SubsequenceParts
<1>2. <<>> \in P
  <2>1. <<>> \in Seq(S) /\ a \o <<>> = a /\ Subsequence(a, J) \o <<>> = Subsequence(a, J)
    BY <1>1
  <2>2. Subsequence(<<>>, Behind(<<>>)) \in Seq(S)
        /\ Within(Subsequence(<<>>, Behind(<<>>)), <<>>)
    BY <2>1, SubsequenceParts
  <2>3. Subsequence(<<>>, Behind(<<>>)) = <<>>
    <3> DEFINE e == Subsequence(<<>>, Behind(<<>>))
    <3>1. e \in Seq(S) /\ Within(e, <<>>)
      BY <2>2
    <3> HIDE DEF e
    <3>2. DOMAIN e = {}
      BY <3>1 DEF Within
    <3>3. e = <<>>
      <4>1. Len(e) \in Nat /\ DOMAIN e = 1 .. Len(e)
        BY <3>1, LenProperties
      <4>2. Len(e) = 0
        BY <3>2, <4>1
      <4> QED
        BY <3>1, <4>2, EmptySeq
    <3> QED
      BY <3>3 DEF e
  <2> QED
    BY <2>1, <2>3
<1>3. ASSUME NEW b \in Seq(S), b \in P, NEW e \in S PROVE Append(b, e) \in P
  <2> DEFINE c == Append(b, e)
             n == Len(b)
             ab == a \o b
  <2>1. /\ c \in Seq(S) /\ DOMAIN c = DOMAIN b \cup {n + 1} /\ n + 1 \notin DOMAIN b
        /\ DOMAIN b = 1 .. n /\ n \in Nat
    BY AppendElements, LenProperties
  <2>2. /\ ab \in Seq(S) /\ Len(ab) = Len(a) + n /\ Len(a) \in Nat
        /\ a \o c = Append(ab, e)
    <3>1. c = b \o <<e>> /\ Append(ab, e) = ab \o <<e>> /\ <<e>> \in Seq(S) /\ ab \in Seq(S)
      BY AppendIsConcat, ConcatProperties
    <3>2. a \o (b \o <<e>>) = (a \o b) \o <<e>>
      BY <3>1, ConcatAssociative
    <3> QED
      BY <3>1, <3>2, ConcatProperties, LenProperties
  <2>3. Subsequence(a \o c, J) =
            IF Len(ab) + 1 \in J THEN Append(Subsequence(ab, J), e) ELSE Subsequence(ab, J)
    <3>1. PICK w \in Seq(S) : w = ab
      BY <2>2
    <3>2. Subsequence(Append(w, e), J) =
            IF Len(w) + 1 \in J THEN Append(Subsequence(w, J), e) ELSE Subsequence(w, J)
      BY SubsequenceAppend
    <3> QED
      BY <2>2, <3>1, <3>2
  <2>4. Subsequence(ab, J) = Subsequence(a, J) \o Subsequence(b, Behind(b))
    BY <1>3
  <2>5. Subsequence(b, Behind(c)) = Subsequence(b, Behind(b))
    BY <2>1, SubsequenceWhere
  <2>6. Subsequence(c, Behind(c)) =
            IF n + 1 \in Behind(c) THEN Append(Subsequence(b, Behind(c)), e)
                                   ELSE Subsequence(b, Behind(c))
    BY SubsequenceAppend
  <2>7. n + 1 \in Behind(c) <=> Len(ab) + 1 \in J
    <3>1. Len(a) + (n + 1) = Len(ab) + 1
      BY <2>1, <2>2
    <3> QED
      BY <2>1, <3>1
  <2> DEFINE front == Subsequence(a, J)
             back == Subsequence(b, Behind(b))
  <2>8. front \in Seq(S) /\ back \in Seq(S)
    BY SubsequenceParts
  <2> HIDE DEF front, back
  <2>9. Append(front \o back, e) = front \o Append(back, e)
    <3>1. Append(back, e) = back \o <<e>> /\ Append(front \o back, e) = (front \o back) \o <<e>>
      BY <2>8, AppendIsConcat, ConcatProperties
    <3> QED
      BY <2>8, <3>1, ConcatAssociative
  <2>10. Subsequence(a \o c, J) = front \o Subsequence(c, Behind(c))
    BY <2>3, <2>4, <2>5, <2>6, <2>7, <2>9 DEF front, back
  <2> QED
    BY <2>1, <2>10 DEF front
<1> HIDE DEF P
<1>4. \A b \in Seq(S) : b \in P
  BY <1>2, <1>3, ByAppending
<1> SUFFICES ASSUME NEW b \in Seq(S), NEW K,
                    \A i \in DOMAIN b : i \in K <=> Len(a) + i \in J
             PROVE  Subsequence(a \o b, J) = Subsequence(a, J) \o Subsequence(b, K)
  OBVIOUS
<1>5. Subsequence(a \o b, J) = Subsequence(a, J) \o Subsequence(b, Behind(b))
  BY <1>4 DEF P
<1>6. K \cap DOMAIN b = Behind(b) \cap DOMAIN b
  OBVIOUS
<1> HIDE DEF Behind
<1>7. Subsequence(b, K) = Subsequence(b, Behind(b))
  BY <1>6, SubsequenceWhere
<1> QED
  BY <1>5, <1>7
\* t is s without its element at position p: what was before it and behind it.
CutAt(S, s, p, t) ==
    /\ t \in Seq(S) /\ Within(t, s)
    /\ \A i \in DOMAIN t : \E j \in DOMAIN s : j # p /\ t[i] = s[j]
    /\ \A j \in DOMAIN s : j # p => s[j] \in ToSet(t)
    /\ \E a \in Seq(S), b \in Seq(S) :
            /\ s = (a \o <<s[p]>>) \o b /\ t = a \o b
            /\ \A i \in DOMAIN a : i < p /\ i \in DOMAIN s /\ a[i] = s[i]

\* Taking one element out of a sequence does that.
LEMMA RemoveAtParts ==
    ASSUME NEW S, NEW s \in Seq(S), NEW p \in DOMAIN s
    PROVE  CutAt(S, s, p, RemoveAt(s, p))
<1> DEFINE n == Len(s)
           a == SubSeq(s, 1, p - 1)
           b == SubSeq(s, p + 1, n)
           t == RemoveAt(s, p)
<1>1. n \in Nat /\ DOMAIN s = 1 .. n /\ p \in 1 .. n /\ s[p] \in S
  BY LenProperties, ElementOfSeq
<1> HIDE DEF n
<1>2. /\ a \in Seq(S) /\ Len(a) = p - 1 /\ DOMAIN a = 1 .. p - 1
      /\ \A i \in 1 .. p - 1 : a[i] = s[i]
  <2>1. \A i \in 1 .. p - 1 : s[i] \in S
    BY <1>1, ElementOfSeq
  <2>2. p - 1 \in Nat /\ a = [i \in 1 .. p - 1 |-> s[1 + i - 1]]
    BY <1>1 DEF n
  <2>3. a = [i \in 1 .. p - 1 |-> s[i]]
    BY <1>1, <2>2
  <2> QED
    BY <1>1, <2>1, <2>2, <2>3
<1>3. /\ b \in Seq(S) /\ Len(b) = n - p /\ DOMAIN b = 1 .. n - p
      /\ \A i \in 1 .. n - p : b[i] = s[p + i]
  <2>1. p + 1 \in 1 .. Len(s) + 1 /\ n \in (p + 1) - 1 .. Len(s)
    BY <1>1 DEF n
  <2>2. /\ b \in Seq(S) /\ Len(b) = n - (p + 1) + 1
        /\ \A i \in 1 .. n - (p + 1) + 1 : b[i] = s[(p + 1) + i - 1]
    BY <2>1, SubSeqProperties
  <2> HIDE DEF b
  <2>3. n - (p + 1) + 1 = n - p /\ \A i \in 1 .. n - p : (p + 1) + i - 1 = p + i
    BY <1>1
  <2> QED
    BY <2>2, <2>3, LenProperties
<1>4. t = a \o b
  BY DEF RemoveAt, n
<1> HIDE DEF t, a, b
<1>5. /\ t \in Seq(S) /\ Len(t) = n - 1 /\ DOMAIN t = 1 .. n - 1
      /\ \A i \in 1 .. p - 1 : t[i] = s[i]
      /\ \A i \in p .. n - 1 : t[i] = s[i + 1]
  <2>0. /\ t \in Seq(S) /\ Len(t) = Len(a) + Len(b)
        /\ \A i \in 1 .. Len(a) + Len(b) :
                t[i] = IF i <= Len(a) THEN a[i] ELSE b[i - Len(a)]
    BY <1>2, <1>3, <1>4, ConcatProperties
  <2>1. t \in Seq(S) /\ Len(t) = (p - 1) + (n - p)
    BY <1>2, <1>3, <2>0
  <2>2. ASSUME NEW i \in 1 .. (p - 1) + (n - p)
        PROVE  t[i] = IF i <= p - 1 THEN a[i] ELSE b[i - (p - 1)]
    BY <1>2, <1>3, <2>0
  <2>3. ASSUME NEW i \in 1 .. p - 1 PROVE t[i] = s[i]
    BY <1>1, <1>2, <2>2
  <2>4. ASSUME NEW i \in p .. n - 1 PROVE t[i] = s[i + 1]
    <3>1. i \in 1 .. (p - 1) + (n - p) /\ ~(i <= p - 1) /\ i - (p - 1) \in 1 .. n - p
      BY <1>1
    <3>2. t[i] = b[i - (p - 1)]
      BY <2>2, <3>1
    <3>3. PICK k \in 1 .. n - p : k = i - (p - 1)
      BY <3>1
    <3>4. b[k] = s[p + k] /\ p + k = i + 1
      <4>1. p + k = i + 1
        BY <1>1, <3>3
      <4> QED
        BY <1>3, <4>1
    <3> QED
      BY <3>2, <3>3, <3>4
  <2>5. (p - 1) + (n - p) = n - 1
    BY <1>1
  <2> QED
    BY <2>1, <2>3, <2>4, <2>5, LenProperties
<1> DEFINE g == [i \in DOMAIN t |-> IF i < p THEN i ELSE i + 1]
<1>6. /\ g \in [DOMAIN t -> DOMAIN s]
      /\ \A i, j \in DOMAIN t : g[i] = g[j] => i = j
      /\ \A i \in DOMAIN t : g[i] # p
  BY <1>1, <1>5
<1>7. \A i \in DOMAIN t : t[i] = s[g[i]]
  <2> SUFFICES ASSUME NEW i \in DOMAIN t PROVE t[i] = s[g[i]]
    OBVIOUS
  <2>1. CASE i < p
    BY <1>1, <1>5, <2>1
  <2>2. CASE ~(i < p)
    <3>1. i \in p .. n - 1 /\ g[i] = i + 1
      BY <1>1, <1>5, <2>2
    <3> QED
      BY <1>5, <3>1
  <2> QED
    BY <2>1, <2>2
<1>8. Within(t, s)
  BY <1>6, <1>7 DEF Within
<1>9. \A i \in DOMAIN t : \E j \in DOMAIN s : j # p /\ t[i] = s[j]
  BY <1>6, <1>7
<1>10. ASSUME NEW j \in DOMAIN s, j # p PROVE s[j] \in ToSet(t)
  <2>1. CASE j < p
    <3>1. j \in 1 .. p - 1 /\ j \in DOMAIN t
      BY <1>1, <1>5, <2>1
    <3>2. t[j] = s[j]
      BY <1>5, <3>1
    <3> QED
      BY <3>1, <3>2, Zenon DEF ToSet
  <2>2. CASE ~(j < p)
    <3>1. PICK i \in p .. n - 1 : j = i + 1
      <4>1. j - 1 \in p .. n - 1 /\ j = (j - 1) + 1
        BY <1>1, <1>10, <2>2
      <4> QED
        BY <4>1
    <3>2. i \in DOMAIN t /\ t[i] = s[j]
      BY <1>1, <1>5, <3>1
    <3> QED
      BY <3>2, Zenon DEF ToSet
  <2> QED
    BY <2>1, <2>2
<1>11. s = (a \o <<s[p]>>) \o b
  <2> DEFINE one == <<s[p]>>
             front == a \o one
  <2>1. one \in Seq(S) /\ Len(one) = 1 /\ one[1] = s[p]
    BY <1>1
  <2> HIDE DEF one
  <2>2. /\ front \in Seq(S) /\ Len(front) = p
        /\ \A i \in 1 .. p : front[i] = IF i <= p - 1 THEN a[i] ELSE one[i - (p - 1)]
    <3>0. /\ front \in Seq(S) /\ Len(front) = Len(a) + Len(one)
          /\ \A i \in 1 .. Len(a) + Len(one) :
                front[i] = IF i <= Len(a) THEN a[i] ELSE one[i - Len(a)]
      BY <1>2, <2>1, ConcatProperties
    <3> HIDE DEF front
    <3>1. front \in Seq(S) /\ Len(front) = (p - 1) + 1
      BY <1>2, <2>1, <3>0
    <3>2. \A i \in 1 .. (p - 1) + 1 :
            front[i] = IF i <= p - 1 THEN a[i] ELSE one[i - (p - 1)]
      BY <1>2, <2>1, <3>0
    <3>3. (p - 1) + 1 = p
      BY <1>1
    <3> QED
      BY <3>1, <3>2, <3>3
  <2>3. \A i \in 1 .. p : front[i] = s[i]
    <3> SUFFICES ASSUME NEW i \in 1 .. p PROVE front[i] = s[i]
      OBVIOUS
    <3> HIDE DEF front
    <3>1. CASE i \in 1 .. p - 1
      <4>1. i <= p - 1 /\ i \in Int
        BY <1>1, <3>1
      <4>2. front[i] = a[i]
        BY <2>2, <4>1
      <4> QED
        BY <1>2, <3>1, <4>2
    <3>2. CASE i = p
      <4>1. ~(i <= p - 1) /\ i - (p - 1) = 1
        BY <1>1, <3>2
      <4>2. front[i] = one[i - (p - 1)]
        BY <2>2, <4>1
      <4> QED
        BY <2>1, <3>2, <4>1, <4>2
    <3> QED
      BY <1>1, <3>1, <3>2
  <2> HIDE DEF front
  <2> DEFINE all == front \o b
  <2>4. /\ all \in Seq(S) /\ Len(all) = p + (n - p)
        /\ \A i \in 1 .. p + (n - p) : all[i] = IF i <= p THEN front[i] ELSE b[i - p]
    <3>1. /\ all \in Seq(S) /\ Len(all) = Len(front) + Len(b)
          /\ \A i \in 1 .. Len(front) + Len(b) :
                all[i] = IF i <= Len(front) THEN front[i] ELSE b[i - Len(front)]
      BY <1>3, <2>2, ConcatProperties
    <3> HIDE DEF all
    <3> QED
      BY <1>3, <2>2, <3>1
  <2> HIDE DEF all
  <2>5. ASSUME NEW i \in 1 .. n PROVE all[i] = s[i]
    <3>1. i \in 1 .. p + (n - p)
      BY <1>1
    <3>2. CASE i <= p
      <4>1. i \in 1 .. p
        BY <1>1, <3>2
      <4>2. front[i] = s[i]
        BY <2>3, <4>1
      <4>3. all[i] = front[i]
        BY <2>4, <3>1, <3>2
      <4> QED
        BY <4>2, <4>3
    <3>3. CASE ~(i <= p)
      <4>1. PICK k \in 1 .. n - p : k = i - p
        BY <1>1, <3>3
      <4>2. b[k] = s[p + k] /\ p + k = i
        BY <1>1, <1>3, <4>1
      <4>3. all[i] = b[i - p]
        BY <2>4, <3>1, <3>3
      <4> QED
        BY <4>1, <4>2, <4>3, Zenon
    <3> QED
      BY <3>2, <3>3
  <2>6. Len(all) = n
    BY <1>1, <2>4
  <2>7. s = all
    BY <1>1, <2>4, <2>5, <2>6, SeqEqual DEF n
  <2> QED
    BY <2>7 DEF all, front, one
<1>12. \A i \in DOMAIN a : i < p /\ i \in DOMAIN s /\ a[i] = s[i]
  BY <1>1, <1>2
<1>13. \E x \in Seq(S), y \in Seq(S) :
            /\ s = (x \o <<s[p]>>) \o y /\ t = x \o y
            /\ \A i \in DOMAIN x : i < p /\ i \in DOMAIN s /\ x[i] = s[i]
  BY <1>2, <1>3, <1>4, <1>11, <1>12, Zenon
<1>14. CutAt(S, s, p, t)
  BY <1>5, <1>8, <1>9, <1>10, <1>13, Zenon DEF CutAt
<1> QED
  BY <1>14 DEF t

----------------------------------------------------------------------------
(* Sequences and numbers of a session.                                     *)

USE NoDeadlineAssumption

\* A nonempty set of positions has a greatest one.
LEMMA GreatestOfRange ==
    ASSUME NEW n \in Nat, NEW S, S \subseteq 1 .. n, S # {}
    PROVE  Max(S) \in S
<1> DEFINE gaps == {n - x : x \in S}
<1>1. gaps \subseteq Nat /\ gaps # {}
  <2>1. \A x \in S : n - x \in Nat
    OBVIOUS
  <2>2. PICK x \in S : TRUE
    OBVIOUS
  <2>3. n - x \in gaps
    OBVIOUS
  <2> QED
    BY <2>1, <2>3, Zenon
<1>2. PICK g \in gaps : \A h \in gaps : g =< h
  <2>1. PICK g \in gaps : \A h \in gaps : ~ (<<h, g>> \in OpToRel(<, Nat))
    BY <1>1, NatLessThanWellFounded, WFMin, Zenon
  <2>2. ASSUME NEW h \in gaps PROVE g =< h
    <3>1. <<h, g>> \in Nat \X Nat /\ h \in Nat /\ g \in Nat
      BY <1>1
    <3>2. ~(h < g)
      BY <2>1, <3>1, Zenon DEF OpToRel
    <3> QED
      BY <3>1, <3>2
  <2> QED
    BY <2>2
<1>3. PICK x \in S : g = n - x
  OBVIOUS
<1>4. \A y \in S : x >= y
  <2> TAKE y \in S
  <2>1. n - y \in gaps /\ x \in Nat /\ y \in Nat
    OBVIOUS
  <2> HIDE DEF gaps
  <2>2. n - x =< n - y
    BY <1>2, <1>3, <2>1, Zenon
  <2> QED
    BY <2>1, <2>2
<1> QED
  BY <1>4 DEF Max

----------------------------------------------------------------------------
(* The failures a close or a timeout reports.                              *)

\* The sequence made of a finite set lists every element, and each once.
LEMMA SetToSeqBijection ==
    ASSUME NEW S, IsFiniteSet(S)
    PROVE  /\ Cardinality(S) \in Nat
           /\ SetToSeq(S) \in [1 .. Cardinality(S) -> S]
           /\ \A i, j \in 1 .. Cardinality(S) : SetToSeq(S)[i] = SetToSeq(S)[j] => i = j
           /\ \A x \in S : \E i \in 1 .. Cardinality(S) : SetToSeq(S)[i] = x
<1>1. Cardinality(S) \in Nat /\ ExistsBijection(1 .. Cardinality(S), S)
  BY FS_CardinalityType
<1>2. \E f \in [1 .. Cardinality(S) -> S] : IsInjective(f)
  BY <1>1 DEF ExistsBijection, Bijection, Injection
<1>3. SetToSeq(S) \in [1 .. Cardinality(S) -> S] /\ IsInjective(SetToSeq(S))
  BY <1>2 DEF SetToSeq
<1>4. SetToSeq(S) \in Injection(1 .. Cardinality(S), S)
  BY <1>3 DEF Injection, IsInjective
<1>5. Cardinality(1 .. Cardinality(S)) = Cardinality(S)
  <2>1. 1 \in Int /\ Cardinality(S) \in Int
    BY <1>1
  <2>2. Cardinality(1 .. Cardinality(S)) =
            IF 1 > Cardinality(S) THEN 0 ELSE Cardinality(S) - 1 + 1
    BY <2>1, FS_Interval, Zenon
  <2> QED
    BY <1>1, <2>2
<1>6. SetToSeq(S) \in Surjection(1 .. Cardinality(S), S)
  BY <1>4, <1>5, FS_Injection, Zenon
<1> QED
  BY <1>1, <1>3, <1>6 DEF IsInjective, Surjection

\* Only finitely many calls are pending: their ids were all allocated.
LEMMA PendingFinite ==
    ASSUME NEW ss, WellTyped(ss), NEW ids \in SUBSET PendingIds(ss)
    PROVE  IsFiniteSet(ids)
<1>1. ss.nextId - 1 \in Int /\ 1 \in Int
  BY DEF WellTyped
<1>2. IsFiniteSet(1 .. ss.nextId - 1)
  BY <1>1, FS_Interval
<1>3. ids \in SUBSET (1 .. ss.nextId - 1)
  BY DEF WellTyped
<1> QED
  BY <1>2, <1>3, FS_Subset

\* What Completion builds is an event that completes the call it names.
LEMMA CompletionType ==
    ASSUME NEW id \in Nat, NEW batch \in BOOLEAN, NEW result \in Results
    PROVE  /\ Completion(id, batch, result) \in SessionEvent
           /\ IsCompletion(Completion(id, batch, result))
           /\ Completion(id, batch, result).id = id
           /\ Completion(id, batch, result).result = result
           /\ Completion(id, batch, result).type = IF batch THEN "BatchResponse" ELSE "Response"
BY DEF Completion, SessionEvent, IsCompletion

\* fs reports each of the pending calls ids once, as the kind of call it is.
FailsEach(ss, ids, failure, fs) ==
    /\ fs \in Seq(SessionEvent)
    /\ \A i \in DOMAIN fs :
            /\ IsCompletion(fs[i]) /\ fs[i].id \in ids /\ fs[i].result = failure
            /\ fs[i].type = IF ss.pending[fs[i].id].batch THEN "BatchResponse" ELSE "Response"
    /\ \A i, j \in DOMAIN fs : fs[i].id = fs[j].id => i = j
    /\ \A id \in ids : \E i \in DOMAIN fs : fs[i].id = id

\* Failing a set of pending calls does that.
LEMMA FailuresOfPending ==
    ASSUME NEW ss, WellTyped(ss), NEW ids \in SUBSET PendingIds(ss),
           NEW failure \in Results
    PROVE  FailsEach(ss, ids, failure, Failures(ss, ids, failure))
<1> DEFINE n == Cardinality(ids)
           order == SetToSeq(ids)
           fs == Failures(ss, ids, failure)
<1>1. IsFiniteSet(ids)
  BY PendingFinite
<1>2. /\ n \in Nat
      /\ order \in [1 .. n -> ids]
      /\ \A i, j \in 1 .. n : order[i] = order[j] => i = j
      /\ \A id \in ids : \E i \in 1 .. n : order[i] = id
  BY <1>1, SetToSeqBijection
<1>3. ASSUME NEW i \in 1 .. n
      PROVE  /\ fs[i] \in SessionEvent
             /\ IsCompletion(fs[i])
             /\ fs[i].id = order[i]
             /\ fs[i].result = failure
             /\ fs[i].type = IF ss.pending[order[i]].batch THEN "BatchResponse" ELSE "Response"
  <2>1. order[i] \in ids /\ order[i] \in Nat /\ ss.pending[order[i]].batch \in BOOLEAN
    BY <1>2 DEF WellTyped, PendingEntry, PendingIds
  <2>2. fs[i] = Completion(order[i], ss.pending[order[i]].batch, failure)
    BY DEF Failures
  <2> QED
    BY <2>1, <2>2, CompletionType
<1>4. fs = [i \in 1 .. n |-> fs[i]] /\ DOMAIN fs = 1 .. n
  BY DEF Failures
<1>5. fs \in Seq(SessionEvent)
  <2>1. fs \in [1 .. n -> SessionEvent]
    BY <1>3, <1>4
  <2> QED
    BY <2>1, <1>2
<1> HIDE DEF fs, n, order
<1>6. FailsEach(ss, ids, failure, fs)
  BY <1>2, <1>3, <1>4, <1>5 DEF FailsEach
<1> QED
  BY <1>6 DEF fs

\* Concatenation of event queues is associative.
LEMMA EventsAssociate ==
    ASSUME NEW a \in Seq(SessionEvent), NEW b \in Seq(SessionEvent),
           NEW c \in Seq(SessionEvent)
    PROVE  (a \o b) \o c = a \o (b \o c)
BY ConcatAssociative

\* Polling moves the head of a queue to the end of what was polled.
LEMMA PollConcat ==
    ASSUME NEW S, NEW a \in Seq(S), NEW b \in Seq(S), b # <<>>
    PROVE  Append(a, Head(b)) \o Tail(b) = a \o b
<1> DEFINE h == Head(b)
           r == Tail(b)
           c == Append(a, h)
<1>1. /\ h \in S /\ r \in Seq(S) /\ Len(r) = Len(b) - 1
      /\ h = b[1] /\ \A i \in 1 .. Len(r) : r[i] = b[i + 1]
      /\ Len(a) \in Nat /\ Len(b) \in Nat
  BY HeadTailProperties
<1>2. /\ c \in Seq(S) /\ Len(c) = Len(a) + 1 /\ c[Len(a) + 1] = h
      /\ \A i \in 1 .. Len(a) : c[i] = a[i]
  BY <1>1, AppendProperties
<1> HIDE DEF h, r, c
<1>3. /\ a \o b \in Seq(S) /\ Len(a \o b) = Len(a) + Len(b)
      /\ \A i \in 1 .. Len(a) + Len(b) :
            (a \o b)[i] = IF i <= Len(a) THEN a[i] ELSE b[i - Len(a)]
  BY ConcatProperties
<1>4. /\ c \o r \in Seq(S) /\ Len(c \o r) = Len(c) + Len(r)
      /\ \A i \in 1 .. Len(c) + Len(r) :
            (c \o r)[i] = IF i <= Len(c) THEN c[i] ELSE r[i - Len(c)]
  <2>1. c \in Seq(S) /\ r \in Seq(S)
    BY <1>1, <1>2
  <2> QED
    BY <2>1, ConcatProperties
<1> DEFINE left == c \o r
           right == a \o b
<1>5. /\ left \in Seq(S) /\ right \in Seq(S)
      /\ Len(left) = Len(right)
  BY <1>1, <1>2, <1>3, <1>4
<1>6. \A i \in 1 .. Len(left) : left[i] = right[i]
  <2> TAKE i \in 1 .. Len(left)
  <2>1. left[i] = IF i <= Len(c) THEN c[i] ELSE r[i - Len(c)]
    BY <1>4
  <2>2. right[i] = IF i <= Len(a) THEN a[i] ELSE b[i - Len(a)]
    BY <1>3, <1>5
  <2> HIDE DEF left, right
  <2>3. i \in 1 .. Len(a) + Len(b)
    BY <1>3, <1>5 DEF right
  <2>4. CASE i <= Len(a)
    BY <1>1, <1>2, <2>1, <2>2, <2>3, <2>4
  <2>5. CASE i = Len(a) + 1
    BY <1>1, <1>2, <2>1, <2>2, <2>3, <2>5
  <2>6. CASE i > Len(a) + 1
    <3>1. i - Len(c) \in 1 .. Len(r) /\ i - Len(c) + 1 = i - Len(a)
      BY <1>1, <1>2, <2>3, <2>6
    <3>2. left[i] = r[i - Len(c)] /\ right[i] = b[i - Len(a)]
      BY <1>1, <1>2, <2>1, <2>2, <2>3, <2>6
    <3>3. r[i - Len(c)] = b[i - Len(c) + 1]
      BY <1>1, <3>1
    <3> QED
      BY <3>1, <3>2, <3>3
  <2> QED
    BY <1>1, <2>3, <2>4, <2>5, <2>6
<1> HIDE DEF left, right
<1>7. left = right
  BY <1>5, <1>6, SeqEqual
<1> QED
  BY <1>7 DEF left, right, c, h, r

----------------------------------------------------------------------------
(* What every method does to the events and to the pending calls.          *)

\* p is what the step from ss to tt reports: it settles only calls it takes
\* out of the map, each once, and only new ids enter the map.
Reports(ss, tt, p) ==
    /\ p \in Seq(SessionEvent)
    /\ tt.events = ss.events \o p
    /\ \A i \in DOMAIN p : IsCompletion(p[i]) => p[i].id \in PendingIds(ss) \ PendingIds(tt)
    /\ \A i, j \in DOMAIN p :
            IsCompletion(p[i]) /\ IsCompletion(p[j]) /\ p[i].id = p[j].id => i = j
    /\ ss.nextId <= tt.nextId
    /\ \A id \in PendingIds(tt) \ PendingIds(ss) : ss.nextId <= id

Sound(ss, tt) == WellFormed(tt) /\ \E p : Reports(ss, tt, p)

\* A method that queues no event, and forgets no call, is sound.
LEMMA ReportsNothing ==
    ASSUME NEW ss, WellFormed(ss), NEW tt, WellFormed(tt),
           tt.events = ss.events, ss.nextId <= tt.nextId,
           \A id \in PendingIds(tt) \ PendingIds(ss) : ss.nextId <= id
    PROVE  Sound(ss, tt)
<1>1. ss.events \in Seq(SessionEvent)
  BY DEF WellFormed, WellTyped
<1>2. tt.events = ss.events \o <<>>
  BY <1>1, ConcatEmptySeq
<1>3. Reports(ss, tt, <<>>)
  BY <1>2 DEF Reports
<1> QED
  BY <1>3 DEF Sound

\* A method that queues one event is sound if a completion names a call that
\* was pending and is not any more.
LEMMA ReportsOne ==
    ASSUME NEW ss, WellFormed(ss), NEW tt, WellFormed(tt),
           NEW event \in SessionEvent, tt.events = Append(ss.events, event),
           IsCompletion(event) => event.id \in PendingIds(ss) \ PendingIds(tt),
           ss.nextId = tt.nextId, PendingIds(tt) \subseteq PendingIds(ss)
    PROVE  Sound(ss, tt)
<1>1. ss.events \in Seq(SessionEvent)
  BY DEF WellFormed, WellTyped
<1>2. tt.events = ss.events \o <<event>>
  BY <1>1, AppendIsConcat
<1>3. ss.nextId <= tt.nextId
  BY DEF WellFormed, WellTyped
<1>4. <<event>> \in Seq(SessionEvent) /\ DOMAIN <<event>> = {1} /\ <<event>>[1] = event
  OBVIOUS
<1>5. Reports(ss, tt, <<event>>)
  BY <1>2, <1>3, <1>4 DEF Reports
<1> QED
  BY <1>5 DEF Sound

\* tt is ss after the calls ids were failed and forgotten.
FailedSome(ss, tt, ids, failure) ==
    /\ WellTyped(tt)
    /\ PendingIds(tt) = PendingIds(ss) \ ids
    /\ tt.events = ss.events \o Failures(ss, ids, failure)
    /\ tt.phase = ss.phase /\ tt.nextId = ss.nextId
    /\ tt.outgoing = ss.outgoing /\ tt.password = ss.password
    /\ \A id \in PendingIds(tt) : tt.pending[id] = ss.pending[id]

\* Failing some pending calls and forgetting them touches nothing else.
LEMMA FailSome ==
    ASSUME NEW ss, WellTyped(ss), NEW ids \in SUBSET PendingIds(ss),
           NEW failure \in Results
    PROVE  FailedSome(ss, RemovePending(PushFailures(ss, ids, failure), ids), ids, failure)
<1> DEFINE tt == RemovePending(PushFailures(ss, ids, failure), ids)
           fs == Failures(ss, ids, failure)
           mid == PushFailures(ss, ids, failure)
<1>1. fs \in Seq(SessionEvent)
  <2>1. FailsEach(ss, ids, failure, fs)
    BY FailuresOfPending, Zenon
  <2> QED
    BY <2>1 DEF FailsEach
<1>2. ss.events \o fs \in Seq(SessionEvent)
  BY <1>1, ConcatProperties DEF WellTyped
<1>3. /\ mid = [ss EXCEPT !.events = ss.events \o fs]
      /\ mid.pending = ss.pending
  BY DEF PushFailures, WellTyped
<1>4. tt = [ss EXCEPT !.events = ss.events \o fs,
                      !.pending = [k \in PendingIds(ss) \ ids |-> ss.pending[k]]]
  BY <1>3 DEF RemovePending, PendingIds, WellTyped
<1>5. /\ PendingIds(tt) = PendingIds(ss) \ ids
      /\ tt.pending \in [PendingIds(tt) -> PendingEntry]
      /\ \A id \in PendingIds(tt) : tt.pending[id] = ss.pending[id]
  BY <1>4 DEF WellTyped, PendingIds
<1>6. /\ tt.events = ss.events \o fs
      /\ tt.phase = ss.phase /\ tt.nextId = ss.nextId
      /\ tt.outgoing = ss.outgoing /\ tt.password = ss.password
  BY <1>4 DEF WellTyped
<1>7. WellTyped(tt)
  <2> DEFINE evs == ss.events \o fs
             pend == tt.pending
  <2>1. /\ evs \in Seq(SessionEvent)
        /\ pend \in [PendingIds(tt) -> PendingEntry]
    BY <1>2, <1>5
  <2>2. tt = [ss EXCEPT !.events = evs, !.pending = pend]
    BY <1>4 DEF WellTyped
  <2>3. PendingIds(tt) \subseteq 1 .. tt.nextId - 1
    BY <1>5, <1>6 DEF WellTyped
  <2> HIDE DEF evs, pend
  <2> QED
    BY <2>1, <2>2, <2>3 DEF WellTyped
<1> QED
  BY <1>5, <1>6, <1>7 DEF FailedSome

----------------------------------------------------------------------------
(* The methods keep a session well formed.                                 *)

\* Failing some pending calls and forgetting them is sound.
LEMMA FailSomeSound ==
    ASSUME NEW ss, WellFormed(ss), NEW ids \in SUBSET PendingIds(ss),
           NEW failure \in Results
    PROVE  Sound(ss, RemovePending(PushFailures(ss, ids, failure), ids))
<1> DEFINE tt == RemovePending(PushFailures(ss, ids, failure), ids)
           fs == Failures(ss, ids, failure)
<1>1. WellTyped(ss)
  BY DEF WellFormed
<1>2. /\ WellTyped(tt)
      /\ PendingIds(tt) = PendingIds(ss) \ ids
      /\ tt.events = ss.events \o fs
      /\ tt.phase = ss.phase /\ tt.nextId = ss.nextId
  <2>1. FailedSome(ss, tt, ids, failure)
    BY <1>1, FailSome, Zenon
  <2> QED
    BY <2>1 DEF FailedSome
<1>3. /\ fs \in Seq(SessionEvent)
      /\ \A i \in DOMAIN fs : IsCompletion(fs[i]) /\ fs[i].id \in ids
      /\ \A i, j \in DOMAIN fs : fs[i].id = fs[j].id => i = j
  <2>1. FailsEach(ss, ids, failure, fs)
    BY <1>1, FailuresOfPending, Zenon
  <2> QED
    BY <2>1 DEF FailsEach
<1>4. WellFormed(tt)
  BY <1>2 DEF WellFormed
<1>5. ss.nextId <= tt.nextId
  BY <1>2 DEF WellTyped
<1> HIDE DEF fs, tt
<1>6. Reports(ss, tt, fs)
  BY <1>2, <1>3, <1>5 DEF Reports
<1> QED
  BY <1>4, <1>6 DEF Sound, tt

\* handle_timeout() is sound.
LEMMA TimeoutSound ==
    ASSUME NEW ss, WellFormed(ss), NEW now \in Nat
    PROVE  Sound(ss, HandleTimeout(ss, now))
<1>1. Expired(ss, now) \in SUBSET PendingIds(ss)
  BY DEF Expired
<1> QED
  BY <1>1, FailSomeSound DEF HandleTimeout, Results

ClosedEvent(code) == [type |-> "Closed", code |-> code]

\* tt is ss after a close that failed its calls with fs.
ClosedWith(ss, tt, code, fs) ==
    /\ WellTyped(tt) /\ PendingIds(tt) = {}
    /\ tt.phase = "Closed" /\ tt.nextId = ss.nextId
    /\ tt.outgoing = ss.outgoing /\ tt.password = ss.password
    /\ tt.events = ss.events \o (<<ClosedEvent(code)>> \o fs)
    /\ ClosedEvent(code) \in SessionEvent
    /\ <<ClosedEvent(code)>> \o fs \in Seq(SessionEvent)
    /\ FailsEach(ss, PendingIds(ss), "closed", fs)

\* handle_close() queues Closed first, then a failure for every pending call.
LEMMA CloseEffect ==
    ASSUME NEW ss, WellFormed(ss), NEW code \in Nat
    PROVE  \E fs : ClosedWith(ss, HandleClose(ss, code), code, fs)
<1> DEFINE event == ClosedEvent(code)
           mid == PushEvent([ss EXCEPT !.phase = "Closed"], event)
           tt == HandleClose(ss, code)
           ids == PendingIds(ss)
           fs == Failures(mid, ids, "closed")
<1>1. event \in SessionEvent
  BY DEF SessionEvent, ClosedEvent
<1>2. ss.events \in Seq(SessionEvent) /\ Append(ss.events, event) \in Seq(SessionEvent)
  BY <1>1, AppendProperties DEF WellFormed, WellTyped
<1>3. /\ mid = [ss EXCEPT !.phase = "Closed", !.events = Append(ss.events, event)]
      /\ PendingIds(mid) = ids /\ mid.nextId = ss.nextId /\ mid.phase = "Closed"
      /\ mid.events = Append(ss.events, event) /\ mid.pending = ss.pending
      /\ mid.outgoing = ss.outgoing /\ mid.password = ss.password
  BY DEF PushEvent, PendingIds, WellFormed, WellTyped
<1>4. WellTyped(mid)
  <2> DEFINE evs == Append(ss.events, event)
  <2>1. evs \in Seq(SessionEvent)
    BY <1>2
  <2>2. mid = [ss EXCEPT !.phase = "Closed", !.events = evs]
    BY <1>3
  <2> HIDE DEF evs, mid
  <2> QED
    BY <1>3, <2>1, <2>2 DEF WellFormed, WellTyped, Phases
<1>5. tt = RemovePending(PushFailures(mid, ids, "closed"), ids)
  <2>1. mid.pending = PushFailures(mid, ids, "closed").pending
    BY <1>4 DEF PushFailures, WellTyped
  <2> QED
    BY <1>3, <2>1 DEF HandleClose, FailPending, PendingIds, ClosedEvent
<1> HIDE DEF mid, tt, event
<1>6. /\ WellTyped(tt)
      /\ PendingIds(tt) = {}
      /\ tt.events = mid.events \o fs
      /\ tt.phase = "Closed" /\ tt.nextId = ss.nextId
      /\ tt.outgoing = ss.outgoing /\ tt.password = ss.password
  <2>1. ids \in SUBSET PendingIds(mid) /\ "closed" \in Results
    BY <1>3 DEF Results
  <2> HIDE DEF ids
  <2>2. FailedSome(mid, tt, ids, "closed")
    BY <1>4, <1>5, <2>1, FailSome, Zenon
  <2> QED
    BY <1>3, <2>2 DEF FailedSome, ids
<1>7. FailsEach(ss, ids, "closed", fs) /\ fs \in Seq(SessionEvent)
  <2>1. "closed" \in Results /\ ids \in SUBSET PendingIds(mid)
    BY <1>3 DEF Results
  <2> HIDE DEF ids
  <2>2. FailsEach(mid, ids, "closed", fs)
    BY <1>4, <2>1, FailuresOfPending, Zenon
  <2> HIDE DEF fs
  <2> QED
    BY <1>3, <2>2 DEF FailsEach
<1> HIDE DEF fs
<1>8. /\ tt.events = ss.events \o (<<event>> \o fs)
      /\ <<event>> \o fs \in Seq(SessionEvent)
  <2>1. <<event>> \in Seq(SessionEvent)
    BY <1>1
  <2>2. mid.events = ss.events \o <<event>>
    BY <1>1, <1>2, <1>3, AppendIsConcat
  <2>3. tt.events = (ss.events \o <<event>>) \o fs
    BY <1>6, <2>2
  <2>4. (ss.events \o <<event>>) \o fs = ss.events \o (<<event>> \o fs)
    BY <1>2, <1>7, <2>1, EventsAssociate, Zenon
  <2>5. <<event>> \o fs \in Seq(SessionEvent)
    BY <1>7, <2>1, ConcatProperties
  <2> QED
    BY <2>3, <2>4, <2>5
<1> QED
  BY <1>1, <1>6, <1>7, <1>8 DEF ClosedWith, event, tt

\* handle_close() is sound.
LEMMA CloseSound ==
    ASSUME NEW ss, WellFormed(ss), NEW code \in Nat
    PROVE  Sound(ss, HandleClose(ss, code))
<1> DEFINE event == ClosedEvent(code)
           tt == HandleClose(ss, code)
<1>1. PICK fs : ClosedWith(ss, tt, code, fs)
  BY CloseEffect
<1>2. /\ event \in SessionEvent /\ fs \in Seq(SessionEvent)
      /\ \A i \in DOMAIN fs : IsCompletion(fs[i]) /\ fs[i].id \in PendingIds(ss)
      /\ \A i, j \in DOMAIN fs : fs[i].id = fs[j].id => i = j
      /\ PendingIds(tt) = {} /\ WellTyped(tt) /\ tt.nextId = ss.nextId
      /\ tt.events = ss.events \o (<<event>> \o fs)
      /\ <<event>> \o fs \in Seq(SessionEvent)
  BY <1>1 DEF ClosedWith, FailsEach
<1>3. ~IsCompletion(event)
  BY DEF IsCompletion, ClosedEvent
<1> HIDE DEF event, tt
<1>4. Reports(ss, tt, <<event>> \o fs)
  <2> DEFINE p == <<event>> \o fs
  <2>1. /\ DOMAIN p = 1 .. Len(p) /\ Len(p) = Len(fs) + 1 /\ Len(fs) \in Nat
        /\ DOMAIN fs = 1 .. Len(fs)
        /\ \A i \in 1 .. Len(p) : p[i] = IF i <= 1 THEN event ELSE fs[i - 1]
    BY <1>2
  <2>2. \A i \in DOMAIN p : IsCompletion(p[i]) => i - 1 \in DOMAIN fs /\ p[i] = fs[i - 1]
    BY <1>3, <2>1
  <2> HIDE DEF p
  <2>3. \A i \in DOMAIN p : IsCompletion(p[i]) => p[i].id \in PendingIds(ss) \ PendingIds(tt)
    BY <1>2, <2>2
  <2>4. \A i, j \in DOMAIN p :
            IsCompletion(p[i]) /\ IsCompletion(p[j]) /\ p[i].id = p[j].id => i = j
    <3> SUFFICES ASSUME NEW i \in DOMAIN p, NEW j \in DOMAIN p, IsCompletion(p[i]),
                        IsCompletion(p[j]), p[i].id = p[j].id
                 PROVE  i = j
      OBVIOUS
    <3>1. i - 1 = j - 1
      BY <1>2, <2>2
    <3> QED
      BY <2>1, <3>1
  <2>5. ss.nextId <= tt.nextId
    BY <1>2 DEF WellTyped
  <2> QED
    BY <1>2, <2>3, <2>4, <2>5 DEF Reports, p
<1>5. WellFormed(tt)
  BY <1>2 DEF WellFormed
<1> QED
  BY <1>4, <1>5 DEF Sound, tt

\* A method that returns early leaves the session sound.
LEMMA StutterSound ==
    ASSUME NEW ss, WellFormed(ss)
    PROVE  Sound(ss, ss)
<1>1. ss.nextId <= ss.nextId
  BY DEF WellFormed, WellTyped
<1> QED
  BY <1>1, ReportsNothing

\* send_request(), send_raw() and send_batch() are sound: the id is a new one.
LEMMA EnqueueSound ==
    ASSUME NEW ss, WellFormed(ss), NEW deadline \in Nat \cup {NoDeadline},
           NEW batch \in BOOLEAN, NEW encodes \in BOOLEAN
    PROVE  Sound(ss, Enqueue(ss, deadline, batch, encodes).session)
<1> DEFINE tt == Enqueue(ss, deadline, batch, encodes).session
           id == ss.nextId
           frame == [op |-> IF batch THEN OpRequestBatch ELSE OpRequest, id |-> id]
           entry == [deadline |-> deadline, batch |-> batch]
           out == Append(ss.outgoing, frame)
           pend == [k \in DOMAIN ss.pending \cup {id} |->
                        IF k = id THEN entry ELSE ss.pending[k]]
<1>1. /\ ss.nextId \in Nat \ {0} /\ ss.nextId + 1 \in Nat \ {0} /\ ss.nextId <= ss.nextId + 1
      /\ ss.outgoing \in Seq(OutgoingFrame)
      /\ ss.pending \in [DOMAIN ss.pending -> PendingEntry]
      /\ DOMAIN ss.pending \subseteq 1 .. ss.nextId - 1
  BY DEF WellFormed, WellTyped, PendingIds
<1>2. \/ tt = ss
      \/ tt = [ss EXCEPT !.nextId = ss.nextId + 1]
      \/ /\ ss.phase = "Identified"
         /\ tt = [ss EXCEPT !.nextId = ss.nextId + 1, !.outgoing = out, !.pending = pend]
  BY DEF Enqueue, Ok, Fail, InsertPending, Queue, AllocId, WellFormed, WellTyped
<1>3. out \in Seq(OutgoingFrame)
  <2>1. frame \in OutgoingFrame
    BY <1>1 DEF OutgoingFrame, OpRequest, OpRequestBatch
  <2> QED
    BY <1>1, <2>1
<1>4. pend \in [PendingIds(ss) \cup {id} -> PendingEntry] /\ DOMAIN pend = PendingIds(ss) \cup {id}
  BY <1>1 DEF PendingEntry, PendingIds
<1> HIDE DEF tt, out, pend
<1>5. CASE tt = ss
  BY <1>5, StutterSound DEF tt
<1>6. CASE tt = [ss EXCEPT !.nextId = ss.nextId + 1]
  <2>1. /\ PendingIds(tt) = PendingIds(ss) /\ tt.events = ss.events
        /\ tt.nextId = ss.nextId + 1 /\ tt.phase = ss.phase
    BY <1>6 DEF WellFormed, WellTyped, PendingIds
  <2>2. PendingIds(tt) \subseteq 1 .. tt.nextId - 1
    BY <1>1, <2>1 DEF PendingIds
  <2>3. WellFormed(tt)
    BY <1>1, <1>6, <2>1, <2>2 DEF WellFormed, WellTyped
  <2> QED
    BY <1>1, <2>1, <2>3, ReportsNothing DEF tt
<1>7. CASE /\ ss.phase = "Identified"
           /\ tt = [ss EXCEPT !.nextId = ss.nextId + 1, !.outgoing = out, !.pending = pend]
  <2>1. /\ tt.events = ss.events /\ tt.phase = "Identified" /\ tt.nextId = ss.nextId + 1
        /\ PendingIds(tt) = PendingIds(ss) \cup {id}
    BY <1>4, <1>7 DEF WellFormed, WellTyped, PendingIds
  <2>2. PendingIds(tt) \subseteq 1 .. tt.nextId - 1
    BY <1>1, <2>1 DEF PendingIds
  <2>3. WellTyped(tt)
    BY <1>1, <1>3, <1>4, <1>7, <2>1, <2>2 DEF WellFormed, WellTyped
  <2>4. WellFormed(tt)
    BY <2>1, <2>3 DEF WellFormed
  <2> QED
    BY <1>1, <2>1, <2>4, ReportsNothing DEF tt
<1> QED
  BY <1>2, <1>5, <1>6, <1>7

\* reidentify() is sound.
LEMMA ReidentifySound ==
    ASSUME NEW ss, WellFormed(ss), NEW subs \in Subscriptions, NEW encodes \in BOOLEAN
    PROVE  Sound(ss, Reidentify(ss, subs, encodes).session)
<1> DEFINE tt == Reidentify(ss, subs, encodes).session
           out == Append(ss.outgoing, [op |-> OpReidentify, subs |-> subs])
<1>1. ss.nextId <= ss.nextId /\ out \in Seq(OutgoingFrame)
  BY DEF WellFormed, WellTyped, OutgoingFrame, OpReidentify
<1>2. \/ tt = ss
      \/ tt = [ss EXCEPT !.subs = subs]
      \/ tt = [ss EXCEPT !.subs = subs, !.outgoing = out]
  BY DEF Reidentify, Ok, Fail, Queue, WellFormed, WellTyped
<1> HIDE DEF out, tt
<1>3. /\ tt.events = ss.events /\ tt.nextId = ss.nextId
      /\ PendingIds(tt) = PendingIds(ss) /\ tt.phase = ss.phase
  BY <1>2 DEF WellFormed, WellTyped, PendingIds
<1>4. WellFormed(tt)
  BY <1>1, <1>2, <1>3 DEF WellFormed, WellTyped, PendingIds
<1> QED
  BY <1>1, <1>3, <1>4, ReportsNothing DEF tt

\* on_hello() is sound, the refusal without a password included.
LEMMA HelloSound ==
    ASSUME NEW ss, WellFormed(ss), ss.phase = "AwaitingHello",
           NEW m, IsIncoming(m), NEW encodes \in BOOLEAN
    PROVE  Sound(ss, OnHello(ss, m, encodes).session)
<1> DEFINE tt == OnHello(ss, m, encodes).session
           event == [type |-> "Closed", code |-> AuthenticationFailed]
           frame == [op |-> OpIdentify, rpc |-> AgreedRpc(ss, m),
                     auth |-> m.auth, subs |-> ss.subs]
           out == Append(ss.outgoing, frame)
           evs == Append(ss.events, event)
<1>1. PendingIds(ss) = {}
  BY DEF WellFormed
<1>2. event \in SessionEvent /\ evs \in Seq(SessionEvent)
  BY DEF SessionEvent, AuthenticationFailed, WellFormed, WellTyped
<1>3. out \in Seq(OutgoingFrame)
  <2>1. AgreedRpc(ss, m) \in Nat
    BY DEF AgreedRpc, WellFormed, WellTyped, IsIncoming
  <2>2. frame \in OutgoingFrame
    BY <2>1 DEF OutgoingFrame, OpIdentify, WellFormed, WellTyped, IsIncoming
  <2> QED
    BY <2>2 DEF WellFormed, WellTyped
<1>4. \/ tt = ss
      \/ tt = [ss EXCEPT !.phase = "Closed", !.events = evs]
      \/ tt = [ss EXCEPT !.outgoing = out, !.phase = "Identifying"]
  BY DEF OnHello, Ok, Fail, PushEvent, Queue, WellFormed, WellTyped
<1>5. ss.nextId <= ss.nextId
  BY DEF WellFormed, WellTyped
<1> HIDE DEF tt, out
<1>6. CASE tt = ss
  BY <1>6, StutterSound DEF tt
<1>7. CASE tt = [ss EXCEPT !.phase = "Closed", !.events = evs]
  <2>1. /\ tt.events = evs /\ tt.nextId = ss.nextId /\ PendingIds(tt) = {}
    BY <1>1, <1>7 DEF WellFormed, WellTyped, PendingIds
  <2> HIDE DEF evs
  <2>2. WellFormed(tt)
    BY <1>1, <1>2, <1>7, <2>1 DEF WellFormed, WellTyped, PendingIds, Phases
  <2>3. ~IsCompletion(event)
    BY DEF IsCompletion
  <2> HIDE DEF event
  <2>4. Sound(ss, tt)
    BY <1>1, <1>2, <2>1, <2>2, <2>3, ReportsOne DEF evs
  <2> QED
    BY <2>4 DEF tt
<1>8. CASE tt = [ss EXCEPT !.outgoing = out, !.phase = "Identifying"]
  <2>1. /\ tt.events = ss.events /\ tt.nextId = ss.nextId /\ PendingIds(tt) = {}
    BY <1>1, <1>8 DEF WellFormed, WellTyped, PendingIds
  <2>2. WellFormed(tt)
    BY <1>1, <1>3, <1>8, <2>1 DEF WellFormed, WellTyped, PendingIds, Phases
  <2> QED
    BY <1>5, <2>1, <2>2, ReportsNothing DEF tt
<1> QED
  BY <1>4, <1>6, <1>7, <1>8

\* on_identified() is sound.
LEMMA IdentifiedSound ==
    ASSUME NEW ss, WellFormed(ss), ss.phase = "Identifying", NEW m, IsIncoming(m)
    PROVE  Sound(ss, OnIdentified(ss, m).session)
<1> DEFINE tt == OnIdentified(ss, m).session
           event == [type |-> "Identified", rpc |-> m.rpc]
           evs == Append(ss.events, event)
<1>1. event \in SessionEvent /\ evs \in Seq(SessionEvent) /\ m.rpc \in Nat
  BY DEF SessionEvent, IsIncoming, WellFormed, WellTyped
<1>2. \/ tt = ss
      \/ tt = [ss EXCEPT !.phase = "Identified", !.negotiated = m.rpc, !.events = evs]
  BY DEF OnIdentified, Ok, Fail, PushEvent, WellFormed, WellTyped
<1> HIDE DEF tt
<1>3. CASE tt = ss
  BY <1>3, StutterSound DEF tt
<1>4. CASE tt = [ss EXCEPT !.phase = "Identified", !.negotiated = m.rpc, !.events = evs]
  <2>1. /\ tt.events = evs /\ tt.nextId = ss.nextId
        /\ PendingIds(tt) = PendingIds(ss) /\ tt.phase = "Identified"
    BY <1>4 DEF WellFormed, WellTyped, PendingIds
  <2>2. ~IsCompletion(event)
    BY DEF IsCompletion
  <2> HIDE DEF evs
  <2>3. WellFormed(tt)
    BY <1>1, <1>4, <2>1 DEF WellFormed, WellTyped, PendingIds, Phases
  <2> HIDE DEF event
  <2>4. Sound(ss, tt)
    BY <1>1, <2>1, <2>2, <2>3, ReportsOne DEF evs
  <2> QED
    BY <2>4 DEF tt
<1> QED
  BY <1>2, <1>3, <1>4

\* Queueing an event that completes no call is sound.
LEMMA PushSound ==
    ASSUME NEW ss, WellFormed(ss), NEW event \in SessionEvent, ~IsCompletion(event)
    PROVE  Sound(ss, PushEvent(ss, event))
<1> DEFINE tt == PushEvent(ss, event)
           evs == Append(ss.events, event)
<1>1. evs \in Seq(SessionEvent)
  BY DEF WellFormed, WellTyped
<1>2. tt = [ss EXCEPT !.events = evs]
  BY DEF PushEvent, WellFormed, WellTyped
<1> HIDE DEF tt
<1>3. /\ tt.events = evs /\ tt.nextId = ss.nextId
      /\ PendingIds(tt) = PendingIds(ss) /\ tt.phase = ss.phase
  BY <1>2 DEF WellFormed, WellTyped, PendingIds
<1> HIDE DEF evs
<1>4. WellFormed(tt)
  BY <1>1, <1>2, <1>3 DEF WellFormed, WellTyped, PendingIds
<1>5. Sound(ss, tt)
  BY <1>3, <1>4, ReportsOne DEF evs
<1> QED
  BY <1>5 DEF tt

\* Reporting one event and forgetting the call it names, if that is pending.
LEMMA ForgetSound ==
    ASSUME NEW ss, WellFormed(ss), NEW event \in SessionEvent, NEW id \in Nat,
           IsCompletion(event) => event.id = id /\ id \in PendingIds(ss)
    PROVE  Sound(ss, PushEvent(RemovePending(ss, {id}), event))
<1> DEFINE tt == PushEvent(RemovePending(ss, {id}), event)
           evs == Append(ss.events, event)
           pend == [k \in PendingIds(ss) \ {id} |-> ss.pending[k]]
<1>1. evs \in Seq(SessionEvent)
  BY DEF WellFormed, WellTyped
<1>2. pend \in [PendingIds(ss) \ {id} -> PendingEntry] /\ DOMAIN pend = PendingIds(ss) \ {id}
  BY DEF WellFormed, WellTyped
<1>3. tt = [ss EXCEPT !.pending = pend, !.events = evs]
  BY DEF PushEvent, RemovePending, PendingIds, WellFormed, WellTyped
<1> HIDE DEF tt
<1>4. /\ tt.events = evs /\ tt.nextId = ss.nextId
      /\ PendingIds(tt) = PendingIds(ss) \ {id} /\ tt.phase = ss.phase
  BY <1>2, <1>3 DEF WellFormed, WellTyped, PendingIds
<1> HIDE DEF evs, pend
<1>5. WellTyped(tt)
  BY <1>1, <1>2, <1>3, <1>4 DEF WellFormed, WellTyped
<1>6. WellFormed(tt)
  BY <1>4, <1>5 DEF WellFormed
<1>7. Sound(ss, tt)
  BY <1>4, <1>6, ReportsOne DEF evs
<1> QED
  BY <1>7 DEF tt

\* on_response() and on_batch_response() are sound, whatever id they name.
LEMMA AnswerSound ==
    ASSUME NEW ss, WellFormed(ss), NEW m, IsIncoming(m), NEW batch \in BOOLEAN
    PROVE  Sound(ss, OnAnswer(ss, m, batch).session)
<1> DEFINE done == Completion(m.id, batch, IF m.ok THEN "ok" ELSE "status")
           unmatched == [type |-> "Unmatched", id |-> m.id]
<1>1. m.id \in Nat
  BY DEF IsIncoming
<1>2. done \in SessionEvent /\ IsCompletion(done) /\ done.id = m.id
  BY <1>1, CompletionType DEF Results
<1>3. unmatched \in SessionEvent /\ ~IsCompletion(unmatched)
  BY <1>1 DEF SessionEvent, IsCompletion
<1> HIDE DEF done, unmatched
<1>4. Sound(ss, ss)
  BY StutterSound
<1>5. m.id \in PendingIds(ss) => Sound(ss, PushEvent(RemovePending(ss, {m.id}), done))
  BY <1>1, <1>2, ForgetSound
<1>6. Sound(ss, PushEvent(RemovePending(ss, {m.id}), unmatched))
  BY <1>1, <1>3, ForgetSound
<1> QED
  BY <1>4, <1>5, <1>6 DEF OnAnswer, Ok, Fail, done, unmatched

\* handle_message() is sound in every phase and for every message.
LEMMA MessageSound ==
    ASSUME NEW ss, WellFormed(ss), NEW m, IsIncoming(m), NEW encodes \in BOOLEAN
    PROVE  Sound(ss, HandleMessage(ss, m, encodes).session)
<1>1. Sound(ss, ss)
  BY StutterSound
<1>2. ss.phase = "AwaitingHello" => Sound(ss, OnHello(ss, m, encodes).session)
  BY HelloSound
<1>3. ss.phase = "Identifying" => Sound(ss, OnIdentified(ss, m).session)
  BY IdentifiedSound
<1>4. Sound(ss, OnEvent(ss, m).session)
  <2> DEFINE event == [type |-> "Event", id |-> m.id]
  <2>1. event \in SessionEvent /\ ~IsCompletion(event)
    <3>1. m.id \in Nat
      BY DEF IsIncoming
    <3> QED
      BY <3>1 DEF SessionEvent, IsCompletion
  <2>2. Sound(ss, PushEvent(ss, event))
    <3> HIDE DEF event
    <3> QED
      BY <2>1, PushSound
  <2> QED
    BY <1>1, <2>2 DEF OnEvent, Ok, Fail
<1>5. Sound(ss, OnAnswer(ss, m, TRUE).session) /\ Sound(ss, OnAnswer(ss, m, FALSE).session)
  BY AnswerSound
<1> QED
  BY <1>1, <1>2, <1>3, <1>4, <1>5 DEF HandleMessage, Fail

\* A new session is well formed.
LEMMA NewSessionTyped ==
    ASSUME NEW password \in BOOLEAN, NEW subs \in Subscriptions, NEW rpc \in Nat
    PROVE  /\ WellFormed(NewSession(password, subs, rpc))
           /\ NewSession(password, subs, rpc).events = <<>>
<1> DEFINE none == [id \in {} |-> id]
           ss == NewSession(password, subs, rpc)
<1>1. none \in [{} -> PendingEntry] /\ DOMAIN none = {}
  OBVIOUS
<1>2. ss.pending = none /\ ss.nextId = 1 /\ PendingIds(ss) = {} /\ ss.events = <<>>
  BY DEF NewSession, PendingIds
<1> HIDE DEF none
<1>3. ss = [password |-> password, subs |-> subs, rpcVersion |-> rpc,
            phase |-> "AwaitingHello", negotiated |-> 0, nextId |-> 1,
            outgoing |-> <<>>, events |-> <<>>, pending |-> none]
  BY DEF NewSession, none
<1>4. <<>> \in Seq(OutgoingFrame) /\ <<>> \in Seq(SessionEvent)
  OBVIOUS
<1> QED
  BY <1>1, <1>2, <1>3, <1>4 DEF WellFormed, WellTyped, Phases

----------------------------------------------------------------------------
(* What one method call adds to the two queues: events p and frames q.     *)

\* Nothing, or - in the Identified phase - events, answers and timeouts.
Serves(ss, tt, p, q) ==
    /\ tt.phase = ss.phase
    /\ p # <<>> => ss.phase = "Identified"
    /\ \A i \in DOMAIN p : p[i].type \notin {"Identified", "Closed"}
    /\ q = <<>>

\* The answer to Hello.
Greets(ss, tt, p, q) ==
    /\ ss.phase = "AwaitingHello" /\ tt.phase = "Identifying"
    /\ p = <<>>
    /\ Len(q) = 1 /\ q[1].op = OpIdentify
    /\ q[1].auth => ss.password

\* The end of identification.
Opens(ss, tt, p, q) ==
    /\ ss.phase = "Identifying" /\ tt.phase = "Identified"
    /\ Len(p) = 1 /\ p[1].type = "Identified"
    /\ q = <<>>

\* A call, whose id is the one alloc_id() hands out, or a Reidentify.
Asks(ss, tt, p, q) ==
    /\ ss.phase = "Identified" /\ tt.phase = "Identified"
    /\ p = <<>>
    /\ Len(q) = 1 /\ q[1].op # OpIdentify
    /\ IsCall(q[1]) => q[1].id = ss.nextId /\ ss.nextId < tt.nextId

\* A close: Closed, then the calls it cut off.
Closes(ss, tt, p, q) ==
    /\ tt.phase = "Closed"
    /\ Len(p) > 0 /\ p[1].type = "Closed"
    /\ \A i \in 2 .. Len(p) :
            ss.phase = "Identified" /\ IsCompletion(p[i]) /\ p[i].result = "closed"
    /\ q = <<>>

Adds(ss, tt, p, q) ==
    /\ p \in Seq(SessionEvent) /\ q \in Seq(OutgoingFrame)
    /\ tt.events = ss.events \o p /\ tt.outgoing = ss.outgoing \o q
    /\ tt.password = ss.password /\ ss.nextId <= tt.nextId
    /\ \/ Serves(ss, tt, p, q) \/ Greets(ss, tt, p, q) \/ Opens(ss, tt, p, q)
       \/ Asks(ss, tt, p, q) \/ Closes(ss, tt, p, q)

Turns(ss, tt) == \E p, q : Adds(ss, tt, p, q)

\* A method that queues nothing and stays in its phase.
LEMMA AddsNothing ==
    ASSUME NEW ss, WellFormed(ss), NEW tt, tt.events = ss.events,
           tt.outgoing = ss.outgoing, tt.password = ss.password,
           ss.nextId <= tt.nextId, tt.phase = ss.phase
    PROVE  Turns(ss, tt)
<1>1. ss.events \in Seq(SessionEvent) /\ ss.outgoing \in Seq(OutgoingFrame)
  BY DEF WellFormed, WellTyped
<1>2. tt.events = ss.events \o <<>> /\ tt.outgoing = ss.outgoing \o <<>>
  BY <1>1, ConcatEmptySeq
<1>3. Adds(ss, tt, <<>>, <<>>)
  BY <1>2 DEF Adds, Serves
<1> QED
  BY <1>3 DEF Turns

\* A method that queues one event.
LEMMA AddsEvent ==
    ASSUME NEW ss, WellFormed(ss), NEW tt, NEW event \in SessionEvent,
           tt.events = Append(ss.events, event), tt.outgoing = ss.outgoing,
           tt.password = ss.password, ss.nextId <= tt.nextId,
           \/ /\ ss.phase = "Identified" /\ tt.phase = "Identified"
              /\ event.type \notin {"Identified", "Closed"}
           \/ /\ ss.phase = "Identifying" /\ tt.phase = "Identified"
              /\ event.type = "Identified"
           \/ tt.phase = "Closed" /\ event.type = "Closed"
    PROVE  Turns(ss, tt)
<1> DEFINE p == <<event>>
<1>1. ss.events \in Seq(SessionEvent) /\ ss.outgoing \in Seq(OutgoingFrame)
  BY DEF WellFormed, WellTyped
<1>2. tt.events = ss.events \o p /\ tt.outgoing = ss.outgoing \o <<>>
  BY <1>1, ConcatEmptySeq, AppendIsConcat
<1>3. p \in Seq(SessionEvent) /\ Len(p) = 1 /\ DOMAIN p = {1} /\ p[1] = event /\ 2 .. Len(p) = {}
  OBVIOUS
<1> HIDE DEF p
<1>4. Adds(ss, tt, p, <<>>)
  BY <1>2, <1>3 DEF Adds, Serves, Opens, Closes
<1> QED
  BY <1>4 DEF Turns

\* A method that queues one frame.
LEMMA AddsFrame ==
    ASSUME NEW ss, WellFormed(ss), NEW tt, NEW frame \in OutgoingFrame,
           tt.events = ss.events, tt.outgoing = Append(ss.outgoing, frame),
           tt.password = ss.password, ss.nextId <= tt.nextId,
           \/ /\ ss.phase = "AwaitingHello" /\ tt.phase = "Identifying"
              /\ frame.op = OpIdentify /\ (frame.auth => ss.password)
           \/ /\ ss.phase = "Identified" /\ tt.phase = "Identified"
              /\ frame.op # OpIdentify
              /\ IsCall(frame) => frame.id = ss.nextId /\ ss.nextId < tt.nextId
    PROVE  Turns(ss, tt)
<1> DEFINE q == <<frame>>
<1>1. ss.events \in Seq(SessionEvent) /\ ss.outgoing \in Seq(OutgoingFrame)
  BY DEF WellFormed, WellTyped
<1>2. tt.events = ss.events \o <<>> /\ tt.outgoing = ss.outgoing \o q
  BY <1>1, ConcatEmptySeq, AppendIsConcat
<1>3. q \in Seq(OutgoingFrame) /\ Len(q) = 1 /\ q[1] = frame
  OBVIOUS
<1> HIDE DEF q
<1>4. Adds(ss, tt, <<>>, q)
  BY <1>2, <1>3 DEF Adds, Greets, Asks
<1> QED
  BY <1>4 DEF Turns

----------------------------------------------------------------------------
(* Every method takes such a turn.                                         *)

\* A method that returns early.
LEMMA StutterTurns ==
    ASSUME NEW ss, WellFormed(ss)
    PROVE  Turns(ss, ss)
<1>1. ss.nextId <= ss.nextId
  BY DEF WellFormed, WellTyped
<1> QED
  BY <1>1, AddsNothing

\* handle_timeout() adds timeouts; only an Identified session has calls to fail.
LEMMA TimeoutTurns ==
    ASSUME NEW ss, WellFormed(ss), NEW now \in Nat
    PROVE  Turns(ss, HandleTimeout(ss, now))
<1> DEFINE ids == Expired(ss, now)
           tt == HandleTimeout(ss, now)
           fs == Failures(ss, ids, "timeout")
<1>1. ids \in SUBSET PendingIds(ss) /\ WellTyped(ss) /\ "timeout" \in Results
  BY DEF Expired, WellFormed, Results
<1>2. tt = RemovePending(PushFailures(ss, ids, "timeout"), ids)
  BY DEF HandleTimeout
<1> HIDE DEF ids, tt
<1>3. FailedSome(ss, tt, ids, "timeout")
  BY <1>1, <1>2, FailSome, Zenon
<1>4. /\ fs \in Seq(SessionEvent)
      /\ \A i \in DOMAIN fs : IsCompletion(fs[i]) /\ fs[i].id \in ids
  <2>1. FailsEach(ss, ids, "timeout", fs)
    BY <1>1, FailuresOfPending, Zenon
  <2> QED
    BY <2>1 DEF FailsEach
<1>5. ss.outgoing \in Seq(OutgoingFrame) /\ ss.outgoing \o <<>> = ss.outgoing
  BY <1>1, ConcatEmptySeq DEF WellTyped
<1>6. fs # <<>> => ss.phase = "Identified"
  <2>1. ASSUME fs # <<>> PROVE PendingIds(ss) # {}
    <3>1. 1 \in DOMAIN fs
      BY <1>4, <2>1
    <3> QED
      BY <1>1, <1>4, <3>1
  <2> QED
    BY <2>1 DEF WellFormed
<1> HIDE DEF fs
<1>7. Adds(ss, tt, fs, <<>>)
  <2>1. \A i \in DOMAIN fs : fs[i].type \notin {"Identified", "Closed"}
    BY <1>4 DEF IsCompletion
  <2>2. Serves(ss, tt, fs, <<>>)
    BY <1>3, <1>6, <2>1 DEF Serves, FailedSome
  <2>3. /\ tt.nextId = ss.nextId /\ ss.nextId \in Nat /\ tt.events = ss.events \o fs
        /\ tt.outgoing = ss.outgoing /\ tt.password = ss.password
    BY <1>1, <1>3 DEF FailedSome, WellTyped, fs
  <2>4. ss.nextId <= tt.nextId /\ tt.outgoing = ss.outgoing \o <<>>
    BY <1>5, <2>3
  <2>5. <<>> \in Seq(OutgoingFrame)
    OBVIOUS
  <2> QED
    BY <1>4, <2>2, <2>3, <2>4, <2>5 DEF Adds
<1> QED
  BY <1>7 DEF Turns, tt

\* handle_close() closes.
LEMMA CloseTurns ==
    ASSUME NEW ss, WellFormed(ss), NEW code \in Nat
    PROVE  Turns(ss, HandleClose(ss, code))
<1> DEFINE event == ClosedEvent(code)
           tt == HandleClose(ss, code)
<1>1. PICK fs : ClosedWith(ss, tt, code, fs)
  BY CloseEffect
<1> DEFINE p == <<event>> \o fs
<1>2. /\ event \in SessionEvent /\ fs \in Seq(SessionEvent) /\ p \in Seq(SessionEvent)
      /\ \A i \in DOMAIN fs :
            IsCompletion(fs[i]) /\ fs[i].id \in PendingIds(ss) /\ fs[i].result = "closed"
      /\ tt.phase = "Closed" /\ tt.nextId = ss.nextId /\ tt.events = ss.events \o p
      /\ tt.outgoing = ss.outgoing /\ tt.password = ss.password
  BY <1>1 DEF ClosedWith, FailsEach
<1>3. event.type = "Closed"
  BY DEF ClosedEvent
<1> HIDE DEF event, tt
<1>4. /\ Len(p) = Len(fs) + 1 /\ Len(fs) \in Nat /\ DOMAIN fs = 1 .. Len(fs)
      /\ \A i \in 1 .. Len(p) : p[i] = IF i <= 1 THEN event ELSE fs[i - 1]
  BY <1>2
<1> HIDE DEF p
<1>5. \A i \in 2 .. Len(p) : i - 1 \in DOMAIN fs /\ p[i] = fs[i - 1]
  BY <1>4
<1>6. \A i \in 2 .. Len(p) :
            ss.phase = "Identified" /\ IsCompletion(p[i]) /\ p[i].result = "closed"
  BY <1>2, <1>5 DEF WellFormed
<1>7. Len(p) > 0 /\ p[1].type = "Closed"
  BY <1>3, <1>4
<1>8. ss.outgoing \o <<>> = ss.outgoing /\ ss.nextId \in Nat
  BY ConcatEmptySeq DEF WellFormed, WellTyped
<1>9. Adds(ss, tt, p, <<>>)
  BY <1>2, <1>6, <1>7, <1>8 DEF Adds, Closes
<1> QED
  BY <1>9 DEF Turns, tt

\* send_request(), send_raw() and send_batch() queue one call, or nothing.
LEMMA EnqueueTurns ==
    ASSUME NEW ss, WellFormed(ss), NEW deadline \in Nat \cup {NoDeadline},
           NEW batch \in BOOLEAN, NEW encodes \in BOOLEAN
    PROVE  Turns(ss, Enqueue(ss, deadline, batch, encodes).session)
<1> DEFINE tt == Enqueue(ss, deadline, batch, encodes).session
           frame == [op |-> IF batch THEN OpRequestBatch ELSE OpRequest, id |-> ss.nextId]
<1>1. ss.nextId \in Nat /\ ss.nextId < ss.nextId + 1 /\ ss.nextId <= ss.nextId + 1
  BY DEF WellFormed, WellTyped
<1>2. frame \in OutgoingFrame /\ frame.op # OpIdentify /\ frame.id = ss.nextId
  BY <1>1 DEF OutgoingFrame, OpIdentify, OpRequest, OpRequestBatch
<1>3. \/ tt = ss
      \/ /\ tt.events = ss.events /\ tt.outgoing = ss.outgoing
         /\ tt.password = ss.password /\ tt.nextId = ss.nextId + 1 /\ tt.phase = ss.phase
      \/ /\ tt.events = ss.events /\ tt.outgoing = Append(ss.outgoing, frame)
         /\ tt.password = ss.password /\ tt.nextId = ss.nextId + 1
         /\ ss.phase = "Identified" /\ tt.phase = "Identified"
  BY DEF Enqueue, Ok, Fail, InsertPending, Queue, AllocId, WellFormed, WellTyped
<1> HIDE DEF tt, frame
<1>4. Turns(ss, tt)
  BY <1>1, <1>2, <1>3, StutterTurns, AddsNothing, AddsFrame
<1> QED
  BY <1>4 DEF tt

\* reidentify() queues one Reidentify, or nothing.
LEMMA ReidentifyTurns ==
    ASSUME NEW ss, WellFormed(ss), NEW subs \in Subscriptions, NEW encodes \in BOOLEAN
    PROVE  Turns(ss, Reidentify(ss, subs, encodes).session)
<1> DEFINE tt == Reidentify(ss, subs, encodes).session
           frame == [op |-> OpReidentify, subs |-> subs]
<1>1. ss.nextId <= ss.nextId
  BY DEF WellFormed, WellTyped
<1>2. frame \in OutgoingFrame /\ frame.op # OpIdentify /\ ~IsCall(frame)
  BY DEF OutgoingFrame, IsCall, OpIdentify, OpReidentify, OpRequest, OpRequestBatch
<1>3. \/ tt = ss
      \/ /\ tt.events = ss.events /\ tt.outgoing = ss.outgoing
         /\ tt.password = ss.password /\ tt.nextId = ss.nextId /\ tt.phase = ss.phase
      \/ /\ tt.events = ss.events /\ tt.outgoing = Append(ss.outgoing, frame)
         /\ tt.password = ss.password /\ tt.nextId = ss.nextId
         /\ ss.phase = "Identified" /\ tt.phase = "Identified"
  BY DEF Reidentify, Ok, Fail, Queue, WellFormed, WellTyped
<1> HIDE DEF tt, frame
<1>4. Turns(ss, tt)
  BY <1>1, <1>2, <1>3, StutterTurns, AddsNothing, AddsFrame
<1> QED
  BY <1>4 DEF tt

\* on_hello() queues one Identify, or Closed, or nothing.
LEMMA HelloTurns ==
    ASSUME NEW ss, WellFormed(ss), ss.phase = "AwaitingHello",
           NEW m, IsIncoming(m), NEW encodes \in BOOLEAN
    PROVE  Turns(ss, OnHello(ss, m, encodes).session)
<1> DEFINE tt == OnHello(ss, m, encodes).session
           event == [type |-> "Closed", code |-> AuthenticationFailed]
           frame == [op |-> OpIdentify, rpc |-> AgreedRpc(ss, m),
                     auth |-> m.auth, subs |-> ss.subs]
<1>1. ss.nextId <= ss.nextId
  BY DEF WellFormed, WellTyped
<1>2. event \in SessionEvent /\ event.type = "Closed"
  BY DEF SessionEvent, AuthenticationFailed
<1>3. frame \in OutgoingFrame /\ frame.op = OpIdentify /\ frame.auth = m.auth
  <2>1. AgreedRpc(ss, m) \in Nat
    BY DEF AgreedRpc, WellFormed, WellTyped, IsIncoming
  <2> QED
    BY <2>1 DEF OutgoingFrame, OpIdentify, WellFormed, WellTyped, IsIncoming
<1>4. \/ tt = ss
      \/ /\ tt.events = Append(ss.events, event) /\ tt.outgoing = ss.outgoing
         /\ tt.password = ss.password /\ tt.nextId = ss.nextId /\ tt.phase = "Closed"
      \/ /\ tt.events = ss.events /\ tt.outgoing = Append(ss.outgoing, frame)
         /\ tt.password = ss.password /\ tt.nextId = ss.nextId
         /\ tt.phase = "Identifying" /\ (m.auth => ss.password)
  BY DEF OnHello, Ok, Fail, PushEvent, Queue, WellFormed, WellTyped
<1> HIDE DEF tt, event, frame
<1>5. Turns(ss, tt)
  BY <1>1, <1>2, <1>3, <1>4, StutterTurns, AddsEvent, AddsFrame
<1> QED
  BY <1>5 DEF tt

\* on_identified() queues Identified, or nothing.
LEMMA IdentifiedTurns ==
    ASSUME NEW ss, WellFormed(ss), ss.phase = "Identifying", NEW m, IsIncoming(m)
    PROVE  Turns(ss, OnIdentified(ss, m).session)
<1> DEFINE tt == OnIdentified(ss, m).session
           event == [type |-> "Identified", rpc |-> m.rpc]
<1>1. ss.nextId <= ss.nextId
  BY DEF WellFormed, WellTyped
<1>2. event \in SessionEvent /\ event.type = "Identified"
  BY DEF SessionEvent, IsIncoming
<1>3. \/ tt = ss
      \/ /\ tt.events = Append(ss.events, event) /\ tt.outgoing = ss.outgoing
         /\ tt.password = ss.password /\ tt.nextId = ss.nextId /\ tt.phase = "Identified"
  BY DEF OnIdentified, Ok, Fail, PushEvent, WellFormed, WellTyped
<1> HIDE DEF tt, event
<1>4. Turns(ss, tt)
  BY <1>1, <1>2, <1>3, StutterTurns, AddsEvent
<1> QED
  BY <1>4 DEF tt

\* An Identified session that forgets calls and reports one event.
LEMMA ForgetTurns ==
    ASSUME NEW ss, WellFormed(ss), ss.phase = "Identified", NEW ids,
           NEW event \in SessionEvent, event.type \notin {"Identified", "Closed"}
    PROVE  Turns(ss, PushEvent(RemovePending(ss, ids), event))
<1> DEFINE tt == PushEvent(RemovePending(ss, ids), event)
<1>1. ss.nextId <= ss.nextId
  BY DEF WellFormed, WellTyped
<1>2. /\ tt.events = Append(ss.events, event) /\ tt.outgoing = ss.outgoing
      /\ tt.password = ss.password /\ tt.nextId = ss.nextId /\ tt.phase = "Identified"
  BY DEF PushEvent, RemovePending, WellFormed, WellTyped
<1> HIDE DEF tt
<1>3. Turns(ss, tt)
  BY <1>1, <1>2, AddsEvent
<1> QED
  BY <1>3 DEF tt

\* on_response() and on_batch_response() queue one event, or nothing.
LEMMA AnswerTurns ==
    ASSUME NEW ss, WellFormed(ss), ss.phase = "Identified",
           NEW m, IsIncoming(m), NEW batch \in BOOLEAN
    PROVE  Turns(ss, OnAnswer(ss, m, batch).session)
<1> DEFINE done == Completion(m.id, batch, IF m.ok THEN "ok" ELSE "status")
           unmatched == [type |-> "Unmatched", id |-> m.id]
<1>1. m.id \in Nat
  BY DEF IsIncoming
<1>2. done \in SessionEvent /\ done.type \notin {"Identified", "Closed"}
  BY <1>1, CompletionType DEF Results, IsCompletion
<1>3. unmatched \in SessionEvent /\ unmatched.type \notin {"Identified", "Closed"}
  BY <1>1 DEF SessionEvent
<1> HIDE DEF done, unmatched
<1>4. Turns(ss, ss)
  BY StutterTurns
<1>5. Turns(ss, PushEvent(RemovePending(ss, {m.id}), done))
  BY <1>2, ForgetTurns
<1>6. Turns(ss, PushEvent(RemovePending(ss, {m.id}), unmatched))
  BY <1>3, ForgetTurns
<1> QED
  BY <1>4, <1>5, <1>6 DEF OnAnswer, Ok, Fail, done, unmatched

\* on_event() queues one event, or nothing.
LEMMA EventTurns ==
    ASSUME NEW ss, WellFormed(ss), ss.phase = "Identified", NEW m, IsIncoming(m)
    PROVE  Turns(ss, OnEvent(ss, m).session)
<1> DEFINE tt == OnEvent(ss, m).session
           event == [type |-> "Event", id |-> m.id]
<1>1. ss.nextId <= ss.nextId
  BY DEF WellFormed, WellTyped
<1>2. event \in SessionEvent /\ event.type \notin {"Identified", "Closed"}
  BY DEF SessionEvent, IsIncoming
<1>3. \/ tt = ss
      \/ /\ tt.events = Append(ss.events, event) /\ tt.outgoing = ss.outgoing
         /\ tt.password = ss.password /\ tt.nextId = ss.nextId /\ tt.phase = "Identified"
  BY DEF OnEvent, Ok, Fail, PushEvent, WellFormed, WellTyped
<1> HIDE DEF tt, event
<1>4. Turns(ss, tt)
  BY <1>1, <1>2, <1>3, StutterTurns, AddsEvent
<1> QED
  BY <1>4 DEF tt

\* handle_message() takes a turn in every phase and for every message.
LEMMA MessageTurns ==
    ASSUME NEW ss, WellFormed(ss), NEW m, IsIncoming(m), NEW encodes \in BOOLEAN
    PROVE  Turns(ss, HandleMessage(ss, m, encodes).session)
<1>1. Turns(ss, ss)
  BY StutterTurns
<1>2. ss.phase = "AwaitingHello" => Turns(ss, OnHello(ss, m, encodes).session)
  BY HelloTurns
<1>3. ss.phase = "Identifying" => Turns(ss, OnIdentified(ss, m).session)
  BY IdentifiedTurns
<1>4. ss.phase = "Identified" => Turns(ss, OnEvent(ss, m).session)
  BY EventTurns
<1>5. ss.phase = "Identified" =>
        Turns(ss, OnAnswer(ss, m, TRUE).session) /\ Turns(ss, OnAnswer(ss, m, FALSE).session)
  BY AnswerTurns
<1> QED
  BY <1>1, <1>2, <1>3, <1>4, <1>5 DEF HandleMessage, Fail

----------------------------------------------------------------------------
(* What one method call does to the calls.                                 *)

CallFrame(id, batch) == [op |-> IF batch THEN OpRequestBatch ELSE OpRequest, id |-> id]

AnswerType(batch) == IF batch THEN "BatchResponse" ELSE "Response"

\* An event of tr tells what became of call id.
Names(tr, id) ==
    \E i \in DOMAIN tr :
        (IsCompletion(tr[i]) \/ tr[i].type = "Unmatched") /\ tr[i].id = id

\* The connection as RequestLedger sees it.
Conn(ss) ==
    CASE ss.phase = "Identified" -> "up"
      [] ss.phase = "Closed" -> "down"
      [] OTHER -> "opening"

Completes(tr, id) == \E i \in DOMAIN tr : IsCompletion(tr[i]) /\ tr[i].id = id

Answers(tr, id) ==
    \E i \in DOMAIN tr :
        IsCompletion(tr[i]) /\ tr[i].id = id /\ tr[i].result \in {"ok", "status"}

\* The calls pass through one of these moves, with events p.
QuietMove(ss, tt) ==
    /\ PendingIds(tt) = PendingIds(ss)
    /\ \/ Conn(tt) = Conn(ss)
       \/ Conn(ss) = "opening" /\ Conn(tt) = "up"

IssueMove(ss, tt) ==
    /\ Conn(ss) = "up" /\ Conn(tt) = "up"
    /\ PendingIds(tt) = PendingIds(ss) \cup {ss.nextId}

AnswerMove(ss, tt, p) ==
    /\ Conn(ss) = "up" /\ Conn(tt) = "up"
    /\ \E id \in PendingIds(ss) :
            /\ PendingIds(tt) = PendingIds(ss) \ {id}
            /\ Completes(p, id) => Answers(p, id)

FailMove(ss, tt, p) ==
    /\ PendingIds(tt) \subseteq PendingIds(ss)
    /\ \/ Conn(tt) = "down" /\ PendingIds(tt) = {}
       \/ Conn(ss) = "up" /\ Conn(tt) = "up"
    /\ \A id \in PendingIds(ss) \ PendingIds(tt) : Completes(p, id) /\ ~Answers(p, id)

\* From ss to tt with events p and frames q: a call that goes is named, a
\* completion is of the kind its entry was, a call enters the map with its
\* frame and only so, and only handle_timeout() times calls out.
Accounts(ss, tt, p, q) ==
    /\ p \in Seq(SessionEvent) /\ q \in Seq(OutgoingFrame)
    /\ tt.events = ss.events \o p /\ tt.outgoing = ss.outgoing \o q
    /\ \A id \in PendingIds(ss) \ PendingIds(tt) : Names(p, id)
    /\ \A i \in DOMAIN p : IsCompletion(p[i]) =>
            /\ p[i].id \in PendingIds(ss)
            /\ p[i].type = AnswerType(ss.pending[p[i].id].batch)
    /\ \A id \in PendingIds(tt) :
            \/ id \in PendingIds(ss) /\ tt.pending[id] = ss.pending[id]
            \/ /\ id \notin PendingIds(ss)
               /\ \E j \in DOMAIN q : q[j] = CallFrame(id, tt.pending[id].batch)
    /\ \A j \in DOMAIN q : IsCall(q[j]) => q[j].id \in PendingIds(tt)
    /\ \A i \in DOMAIN p : IsCompletion(p[i]) /\ p[i].result = "timeout" =>
            \E now \in Nat : tt = HandleTimeout(ss, now)
    /\ \/ QuietMove(ss, tt) \/ IssueMove(ss, tt)
       \/ AnswerMove(ss, tt, p) \/ FailMove(ss, tt, p)

AccountsForCalls(ss, tt) == \E p, q : Accounts(ss, tt, p, q)

\* A method that queues nothing and leaves the map alone.
LEMMA AccountsNothing ==
    ASSUME NEW ss, WellFormed(ss), NEW tt, tt.events = ss.events,
           tt.outgoing = ss.outgoing, tt.pending = ss.pending, QuietMove(ss, tt)
    PROVE  AccountsForCalls(ss, tt)
<1>1. ss.events \in Seq(SessionEvent) /\ ss.outgoing \in Seq(OutgoingFrame)
  BY DEF WellFormed, WellTyped
<1>2. tt.events = ss.events \o <<>> /\ tt.outgoing = ss.outgoing \o <<>>
  BY <1>1, ConcatEmptySeq
<1>3. Accounts(ss, tt, <<>>, <<>>)
  BY <1>2 DEF Accounts, PendingIds
<1> QED
  BY <1>3 DEF AccountsForCalls

\* A method that returns early.
LEMMA StutterAccounts ==
    ASSUME NEW ss, WellFormed(ss)
    PROVE  AccountsForCalls(ss, ss)
<1>1. QuietMove(ss, ss)
  BY DEF QuietMove
<1> QED
  BY <1>1, AccountsNothing

\* A method that queues one event which completes no call.
LEMMA AccountsEvent ==
    ASSUME NEW ss, WellFormed(ss), NEW tt, NEW event \in SessionEvent,
           tt.events = Append(ss.events, event), tt.outgoing = ss.outgoing,
           tt.pending = ss.pending, ~IsCompletion(event),
           QuietMove(ss, tt) \/ FailMove(ss, tt, <<event>>)
    PROVE  AccountsForCalls(ss, tt)
<1> DEFINE p == <<event>>
<1>1. ss.events \in Seq(SessionEvent) /\ ss.outgoing \in Seq(OutgoingFrame)
  BY DEF WellFormed, WellTyped
<1>2. tt.events = ss.events \o p /\ tt.outgoing = ss.outgoing \o <<>>
  BY <1>1, ConcatEmptySeq, AppendIsConcat
<1>3. p \in Seq(SessionEvent) /\ DOMAIN p = {1} /\ p[1] = event
  OBVIOUS
<1>4. QuietMove(ss, tt) \/ FailMove(ss, tt, p)
  OBVIOUS
<1> HIDE DEF p
<1>5. Accounts(ss, tt, p, <<>>)
  BY <1>2, <1>3, <1>4 DEF Accounts, PendingIds
<1> QED
  BY <1>5 DEF AccountsForCalls

\* A method that queues one frame which is no call.
LEMMA AccountsFrame ==
    ASSUME NEW ss, WellFormed(ss), NEW tt, NEW frame \in OutgoingFrame,
           tt.events = ss.events, tt.outgoing = Append(ss.outgoing, frame),
           tt.pending = ss.pending, ~IsCall(frame), QuietMove(ss, tt)
    PROVE  AccountsForCalls(ss, tt)
<1> DEFINE q == <<frame>>
<1>1. ss.events \in Seq(SessionEvent) /\ ss.outgoing \in Seq(OutgoingFrame)
  BY DEF WellFormed, WellTyped
<1>2. tt.events = ss.events \o <<>> /\ tt.outgoing = ss.outgoing \o q
  BY <1>1, ConcatEmptySeq, AppendIsConcat
<1>3. q \in Seq(OutgoingFrame) /\ DOMAIN q = {1} /\ q[1] = frame
  OBVIOUS
<1> HIDE DEF q
<1>4. Accounts(ss, tt, <<>>, q)
  BY <1>2, <1>3 DEF Accounts, PendingIds
<1> QED
  BY <1>4 DEF AccountsForCalls

----------------------------------------------------------------------------
(* Every method accounts for the calls.                                    *)

\* handle_timeout() names every call it forgets.
LEMMA TimeoutAccounts ==
    ASSUME NEW ss, WellFormed(ss), NEW now \in Nat
    PROVE  AccountsForCalls(ss, HandleTimeout(ss, now))
<1> DEFINE ids == Expired(ss, now)
           tt == HandleTimeout(ss, now)
           fs == Failures(ss, ids, "timeout")
           TimesOut == \E time \in Nat : tt = HandleTimeout(ss, time)
<1>1. ids \in SUBSET PendingIds(ss) /\ WellTyped(ss) /\ "timeout" \in Results
  BY DEF Expired, WellFormed, Results
<1>2. tt = RemovePending(PushFailures(ss, ids, "timeout"), ids)
  BY DEF HandleTimeout
<1>3. TimesOut
  OBVIOUS
<1> HIDE DEF ids, tt
<1>4. FailedSome(ss, tt, ids, "timeout")
  BY <1>1, <1>2, FailSome, Zenon
<1>5. FailsEach(ss, ids, "timeout", fs)
  BY <1>1, FailuresOfPending, Zenon
<1>6. ss.outgoing \o <<>> = ss.outgoing
  BY <1>1, ConcatEmptySeq DEF WellTyped
<1>7. /\ PendingIds(tt) = PendingIds(ss) \ ids /\ tt.events = ss.events \o fs
      /\ tt.outgoing = ss.outgoing \o <<>>
      /\ \A id \in PendingIds(tt) : tt.pending[id] = ss.pending[id]
  BY <1>4, <1>6 DEF FailedSome
<1>8. tt.phase = ss.phase /\ (ids # {} => ss.phase = "Identified")
  BY <1>1, <1>4 DEF FailedSome, WellFormed
<1> HIDE DEF fs
<1>9. QuietMove(ss, tt) \/ FailMove(ss, tt, fs)
  <2>1. CASE ids = {}
    BY <1>7, <1>8, <2>1 DEF QuietMove, Conn
  <2>2. CASE ids # {}
    <3>1. Conn(ss) = "up" /\ Conn(tt) = "up"
      BY <1>8, <2>2 DEF Conn
    <3>2. PendingIds(tt) \subseteq PendingIds(ss) /\ PendingIds(ss) \ PendingIds(tt) = ids
      BY <1>1, <1>7
    <3>3. \A id \in ids : Completes(fs, id) /\ ~Answers(fs, id)
      BY <1>5 DEF FailsEach, Completes, Answers
    <3> QED
      BY <3>1, <3>2, <3>3 DEF FailMove
  <2> QED
    BY <2>1, <2>2
<1>10. Accounts(ss, tt, fs, <<>>)
  BY <1>1, <1>3, <1>5, <1>7, <1>9 DEF Accounts, FailsEach, Names, AnswerType
<1> QED
  BY <1>10 DEF AccountsForCalls, tt

\* handle_close() names every pending call.
LEMMA CloseAccounts ==
    ASSUME NEW ss, WellFormed(ss), NEW code \in Nat
    PROVE  AccountsForCalls(ss, HandleClose(ss, code))
<1> DEFINE event == ClosedEvent(code)
           tt == HandleClose(ss, code)
<1>1. PICK fs : ClosedWith(ss, tt, code, fs)
  BY CloseEffect
<1> DEFINE p == <<event>> \o fs
<1>2. /\ fs \in Seq(SessionEvent) /\ FailsEach(ss, PendingIds(ss), "closed", fs)
      /\ event \in SessionEvent /\ p \in Seq(SessionEvent)
      /\ PendingIds(tt) = {} /\ tt.events = ss.events \o p /\ tt.outgoing = ss.outgoing
      /\ tt.phase = "Closed"
  BY <1>1 DEF ClosedWith, FailsEach
<1>3. ~IsCompletion(event)
  BY DEF ClosedEvent, IsCompletion
<1> HIDE DEF event, tt
<1>4. /\ Len(p) = Len(fs) + 1 /\ Len(fs) \in Nat /\ DOMAIN fs = 1 .. Len(fs)
      /\ DOMAIN p = 1 .. Len(p)
      /\ \A i \in 1 .. Len(p) : p[i] = IF i <= 1 THEN event ELSE fs[i - 1]
  BY <1>2
<1> HIDE DEF p
<1>5. \A i \in DOMAIN p : IsCompletion(p[i]) => i - 1 \in DOMAIN fs /\ p[i] = fs[i - 1]
  BY <1>3, <1>4
<1>6. \A k \in DOMAIN fs : k + 1 \in DOMAIN p /\ p[k + 1] = fs[k]
  BY <1>4
<1>7. \A id \in PendingIds(ss) : Names(p, id) /\ Completes(p, id) /\ ~Answers(p, id)
  <2> SUFFICES ASSUME NEW id \in PendingIds(ss)
               PROVE  Names(p, id) /\ Completes(p, id) /\ ~Answers(p, id)
    OBVIOUS
  <2>1. PICK k \in DOMAIN fs : fs[k].id = id /\ IsCompletion(fs[k])
    BY <1>2 DEF FailsEach
  <2>2. Names(p, id) /\ Completes(p, id)
    BY <1>6, <2>1 DEF Names, Completes
  <2>3. \A i \in DOMAIN p : IsCompletion(p[i]) => p[i].result = "closed"
    BY <1>2, <1>5 DEF FailsEach
  <2> QED
    BY <2>2, <2>3 DEF Answers
<1>8. \A i \in DOMAIN p : IsCompletion(p[i]) =>
            /\ p[i].id \in PendingIds(ss) /\ p[i].type = AnswerType(ss.pending[p[i].id].batch)
            /\ p[i].result = "closed"
  BY <1>2, <1>5 DEF FailsEach, AnswerType
<1>9. ss.outgoing \o <<>> = ss.outgoing
  BY ConcatEmptySeq DEF WellFormed, WellTyped
<1>10. FailMove(ss, tt, p)
  BY <1>2, <1>7 DEF FailMove, Conn
<1>11. Accounts(ss, tt, p, <<>>)
  BY <1>2, <1>7, <1>8, <1>9, <1>10 DEF Accounts
<1> QED
  BY <1>11 DEF AccountsForCalls, tt

\* send_request(), send_raw() and send_batch() make an entry with the frame.
LEMMA EnqueueAccounts ==
    ASSUME NEW ss, WellFormed(ss), NEW deadline \in Nat \cup {NoDeadline},
           NEW batch \in BOOLEAN, NEW encodes \in BOOLEAN
    PROVE  AccountsForCalls(ss, Enqueue(ss, deadline, batch, encodes).session)
<1> DEFINE tt == Enqueue(ss, deadline, batch, encodes).session
           id == ss.nextId
           frame == CallFrame(id, batch)
           entry == [deadline |-> deadline, batch |-> batch]
<1>1. /\ id \in Nat /\ ss.events \in Seq(SessionEvent) /\ ss.outgoing \in Seq(OutgoingFrame)
      /\ id \notin PendingIds(ss)
  BY DEF WellFormed, WellTyped
<1>2. frame \in OutgoingFrame /\ frame.id = id
  BY <1>1 DEF OutgoingFrame, CallFrame, OpRequest, OpRequestBatch
<1>3. \/ /\ tt.events = ss.events /\ tt.outgoing = ss.outgoing /\ tt.pending = ss.pending
         /\ tt.phase = ss.phase
      \/ /\ tt.events = ss.events /\ tt.outgoing = Append(ss.outgoing, frame)
         /\ ss.phase = "Identified" /\ tt.phase = "Identified"
         /\ tt.pending = [k \in DOMAIN ss.pending \cup {id} |->
                             IF k = id THEN entry ELSE ss.pending[k]]
  BY DEF Enqueue, Ok, Fail, InsertPending, Queue, AllocId, CallFrame, WellFormed, WellTyped
<1>4. entry.batch = batch
  OBVIOUS
<1> HIDE DEF tt, id, frame, entry
<1>5. CASE /\ tt.events = ss.events /\ tt.outgoing = ss.outgoing /\ tt.pending = ss.pending
           /\ tt.phase = ss.phase
  <2>1. QuietMove(ss, tt)
    BY <1>5 DEF QuietMove, Conn, PendingIds
  <2> QED
    BY <1>5, <2>1, AccountsNothing DEF tt
<1>6. CASE /\ tt.events = ss.events /\ tt.outgoing = Append(ss.outgoing, frame)
           /\ ss.phase = "Identified" /\ tt.phase = "Identified"
           /\ tt.pending = [k \in DOMAIN ss.pending \cup {id} |->
                               IF k = id THEN entry ELSE ss.pending[k]]
  <2> DEFINE q == <<frame>>
  <2>1. /\ PendingIds(tt) = PendingIds(ss) \cup {id} /\ tt.pending[id] = entry
        /\ \A k \in PendingIds(ss) : tt.pending[k] = ss.pending[k]
    BY <1>1, <1>6 DEF PendingIds
  <2>2. tt.events = ss.events \o <<>> /\ tt.outgoing = ss.outgoing \o q
    BY <1>1, <1>2, <1>6, ConcatEmptySeq, AppendIsConcat
  <2>3. q \in Seq(OutgoingFrame) /\ DOMAIN q = {1} /\ q[1] = frame
    BY <1>2
  <2>4. frame = CallFrame(id, tt.pending[id].batch)
    BY <1>4, <2>1 DEF frame
  <2> HIDE DEF q
  <2>5. IssueMove(ss, tt)
    BY <1>6, <2>1 DEF IssueMove, Conn, id
  <2>6. Accounts(ss, tt, <<>>, q)
    BY <1>1, <1>2, <2>1, <2>2, <2>3, <2>4, <2>5 DEF Accounts
  <2> QED
    BY <2>6 DEF AccountsForCalls, tt
<1> QED
  BY <1>3, <1>5, <1>6

\* reidentify() touches no call.
LEMMA ReidentifyAccounts ==
    ASSUME NEW ss, WellFormed(ss), NEW subs \in Subscriptions, NEW encodes \in BOOLEAN
    PROVE  AccountsForCalls(ss, Reidentify(ss, subs, encodes).session)
<1> DEFINE tt == Reidentify(ss, subs, encodes).session
           frame == [op |-> OpReidentify, subs |-> subs]
<1>1. frame \in OutgoingFrame /\ ~IsCall(frame)
  BY DEF OutgoingFrame, IsCall, OpReidentify, OpRequest, OpRequestBatch
<1>2. /\ tt.events = ss.events /\ tt.pending = ss.pending
      /\ tt.outgoing = ss.outgoing \/ tt.outgoing = Append(ss.outgoing, frame)
      /\ tt.phase = ss.phase
  BY DEF Reidentify, Ok, Fail, Queue, WellFormed, WellTyped
<1> HIDE DEF tt, frame
<1>3. QuietMove(ss, tt)
  BY <1>2 DEF QuietMove, Conn, PendingIds
<1>4. AccountsForCalls(ss, tt)
  BY <1>1, <1>2, <1>3, AccountsNothing, AccountsFrame
<1> QED
  BY <1>4 DEF tt

\* on_hello(), on_identified() and on_event() touch no call.
LEMMA QuietAccounts ==
    ASSUME NEW ss, WellFormed(ss), NEW m, IsIncoming(m), NEW encodes \in BOOLEAN
    PROVE  /\ ss.phase = "AwaitingHello" => AccountsForCalls(ss, OnHello(ss, m, encodes).session)
           /\ ss.phase = "Identifying" => AccountsForCalls(ss, OnIdentified(ss, m).session)
           /\ AccountsForCalls(ss, OnEvent(ss, m).session)
<1>1. ASSUME ss.phase = "AwaitingHello"
      PROVE  AccountsForCalls(ss, OnHello(ss, m, encodes).session)
  <2> DEFINE tt == OnHello(ss, m, encodes).session
             event == [type |-> "Closed", code |-> AuthenticationFailed]
             frame == [op |-> OpIdentify, rpc |-> AgreedRpc(ss, m),
                       auth |-> m.auth, subs |-> ss.subs]
  <2>1. event \in SessionEvent /\ ~IsCompletion(event)
    BY DEF SessionEvent, IsCompletion, AuthenticationFailed
  <2>2. frame \in OutgoingFrame /\ ~IsCall(frame)
    <3>1. AgreedRpc(ss, m) \in Nat
      BY DEF AgreedRpc, WellFormed, WellTyped, IsIncoming
    <3> QED
      BY <3>1 DEF OutgoingFrame, IsCall, OpIdentify, OpRequest, OpRequestBatch,
                  WellFormed, WellTyped, IsIncoming
  <2>3. /\ tt.pending = ss.pending
        /\ \/ tt.events = ss.events /\ tt.outgoing = ss.outgoing
              /\ tt.phase = ss.phase
           \/ /\ tt.events = Append(ss.events, event) /\ tt.outgoing = ss.outgoing
              /\ tt.phase = "Closed"
           \/ /\ tt.events = ss.events /\ tt.outgoing = Append(ss.outgoing, frame)
              /\ tt.phase = "Identifying"
    BY DEF OnHello, Ok, Fail, PushEvent, Queue, WellFormed, WellTyped
  <2> HIDE DEF tt, event, frame
  <2>4. PendingIds(ss) = {} /\ PendingIds(tt) = {}
    BY <1>1, <2>3 DEF WellFormed, PendingIds
  <2>5. tt.phase \in {"AwaitingHello", "Identifying"} => QuietMove(ss, tt)
    BY <1>1, <2>4 DEF QuietMove, Conn
  <2>6. tt.phase = "Closed" => FailMove(ss, tt, <<event>>)
    BY <2>4 DEF FailMove, Conn
  <2>7. AccountsForCalls(ss, tt)
    BY <1>1, <2>1, <2>2, <2>3, <2>5, <2>6, AccountsNothing, AccountsEvent, AccountsFrame
  <2> QED
    BY <2>7 DEF tt
<1>2. ASSUME ss.phase = "Identifying"
      PROVE  AccountsForCalls(ss, OnIdentified(ss, m).session)
  <2> DEFINE tt == OnIdentified(ss, m).session
             event == [type |-> "Identified", rpc |-> m.rpc]
  <2>1. event \in SessionEvent /\ ~IsCompletion(event)
    BY DEF SessionEvent, IsCompletion, IsIncoming
  <2>2. /\ tt.pending = ss.pending /\ tt.outgoing = ss.outgoing
        /\ tt.events = ss.events \/ tt.events = Append(ss.events, event)
        /\ tt.phase \in {ss.phase, "Identified"}
    BY DEF OnIdentified, Ok, Fail, PushEvent, WellFormed, WellTyped
  <2> HIDE DEF tt, event
  <2>3. QuietMove(ss, tt)
    BY <1>2, <2>2 DEF QuietMove, Conn, PendingIds
  <2>4. AccountsForCalls(ss, tt)
    BY <2>1, <2>2, <2>3, AccountsNothing, AccountsEvent
  <2> QED
    BY <2>4 DEF tt
<1>3. AccountsForCalls(ss, OnEvent(ss, m).session)
  <2> DEFINE tt == OnEvent(ss, m).session
             event == [type |-> "Event", id |-> m.id]
  <2>1. event \in SessionEvent /\ ~IsCompletion(event)
    BY DEF SessionEvent, IsCompletion, IsIncoming
  <2>2. /\ tt.pending = ss.pending /\ tt.outgoing = ss.outgoing
        /\ tt.events = ss.events \/ tt.events = Append(ss.events, event)
        /\ tt.phase = ss.phase
    BY DEF OnEvent, Ok, Fail, PushEvent, WellFormed, WellTyped
  <2> HIDE DEF tt, event
  <2>3. QuietMove(ss, tt)
    BY <2>2 DEF QuietMove, Conn, PendingIds
  <2>4. AccountsForCalls(ss, tt)
    BY <2>1, <2>2, <2>3, AccountsNothing, AccountsEvent
  <2> QED
    BY <2>4 DEF tt
<1> QED
  BY <1>1, <1>2, <1>3

\* Forgetting one call, which the event queued names, as the kind it was.
LEMMA ForgetAccounts ==
    ASSUME NEW ss, WellFormed(ss), ss.phase = "Identified", NEW id,
           NEW event \in SessionEvent, event.id = id,
           \/ event.type = "Unmatched"
           \/ /\ IsCompletion(event) /\ id \in PendingIds(ss)
              /\ event.type = AnswerType(ss.pending[id].batch)
              /\ event.result \in {"ok", "status"}
    PROVE  AccountsForCalls(ss, PushEvent(RemovePending(ss, {id}), event))
<1> DEFINE tt == PushEvent(RemovePending(ss, {id}), event)
           p == <<event>>
<1>1. ss.events \in Seq(SessionEvent) /\ ss.outgoing \in Seq(OutgoingFrame)
  BY DEF WellFormed, WellTyped
<1>2. /\ tt.events = Append(ss.events, event) /\ tt.outgoing = ss.outgoing
      /\ tt.pending = [k \in PendingIds(ss) \ {id} |-> ss.pending[k]]
      /\ tt.phase = ss.phase
  BY DEF PushEvent, RemovePending, PendingIds, WellFormed, WellTyped
<1> HIDE DEF tt
<1>3. /\ PendingIds(tt) = PendingIds(ss) \ {id}
      /\ \A k \in PendingIds(tt) : tt.pending[k] = ss.pending[k]
  BY <1>2 DEF PendingIds
<1>4. tt.events = ss.events \o p /\ tt.outgoing = ss.outgoing \o <<>>
  BY <1>1, <1>2, ConcatEmptySeq, AppendIsConcat
<1>5. p \in Seq(SessionEvent) /\ DOMAIN p = {1} /\ p[1] = event
  OBVIOUS
<1> HIDE DEF p
<1>6. Names(p, id)
  BY <1>5 DEF Names
<1>7. \A i \in DOMAIN p : IsCompletion(p[i]) =>
            /\ p[i].id \in PendingIds(ss) /\ p[i].type = AnswerType(ss.pending[p[i].id].batch)
            /\ p[i].result # "timeout"
  BY <1>5 DEF IsCompletion
<1>8. QuietMove(ss, tt) \/ AnswerMove(ss, tt, p)
  <2>1. Conn(ss) = "up" /\ Conn(tt) = "up"
    BY <1>2 DEF Conn
  <2>2. Completes(p, id) => Answers(p, id)
    BY <1>5 DEF Completes, Answers, IsCompletion
  <2>3. id \notin PendingIds(ss) => PendingIds(tt) = PendingIds(ss)
    BY <1>3
  <2> QED
    BY <1>3, <2>1, <2>2, <2>3 DEF QuietMove, AnswerMove
<1>9. Accounts(ss, tt, p, <<>>)
  BY <1>3, <1>4, <1>5, <1>6, <1>7, <1>8 DEF Accounts
<1> QED
  BY <1>9 DEF AccountsForCalls, tt

\* on_response() and on_batch_response() name the call they forget.
LEMMA AnswerAccounts ==
    ASSUME NEW ss, WellFormed(ss), ss.phase = "Identified", NEW m, IsIncoming(m), NEW batch \in BOOLEAN
    PROVE  AccountsForCalls(ss, OnAnswer(ss, m, batch).session)
<1> DEFINE done == Completion(m.id, batch, IF m.ok THEN "ok" ELSE "status")
           unmatched == [type |-> "Unmatched", id |-> m.id]
<1>1. m.id \in Nat
  BY DEF IsIncoming
<1>2. /\ done \in SessionEvent /\ IsCompletion(done) /\ done.id = m.id
      /\ done.type = AnswerType(batch) /\ done.result \in {"ok", "status"}
  BY <1>1, CompletionType DEF Results, AnswerType
<1>3. unmatched \in SessionEvent /\ unmatched.type = "Unmatched" /\ unmatched.id = m.id
  BY <1>1 DEF SessionEvent
<1> HIDE DEF done, unmatched
<1>4. AccountsForCalls(ss, ss)
  BY StutterAccounts
<1>5. m.id \in PendingIds(ss) /\ ss.pending[m.id].batch = batch =>
            AccountsForCalls(ss, PushEvent(RemovePending(ss, {m.id}), done))
  BY <1>2, ForgetAccounts
<1>6. AccountsForCalls(ss, PushEvent(RemovePending(ss, {m.id}), unmatched))
  BY <1>3, ForgetAccounts
<1> QED
  BY <1>4, <1>5, <1>6 DEF OnAnswer, Ok, Fail, done, unmatched

\* handle_message() accounts for the calls in every phase.
LEMMA MessageAccounts ==
    ASSUME NEW ss, WellFormed(ss), NEW m, IsIncoming(m), NEW encodes \in BOOLEAN
    PROVE  AccountsForCalls(ss, HandleMessage(ss, m, encodes).session)
<1>1. AccountsForCalls(ss, ss)
  BY StutterAccounts
<1>2. ss.phase = "Identified" =>
            /\ AccountsForCalls(ss, OnAnswer(ss, m, TRUE).session)
            /\ AccountsForCalls(ss, OnAnswer(ss, m, FALSE).session)
  BY AnswerAccounts
<1> QED
  BY <1>1, <1>2, QuietAccounts DEF HandleMessage, Fail

----------------------------------------------------------------------------
(* Completions are exclusive.                                              *)

\* The history tr settles each call once, and no call that is pending in ss
\* or not yet allocated.
Exclusive(ss, tr) ==
    /\ \A i, j \in DOMAIN tr :
            IsCompletion(tr[i]) /\ IsCompletion(tr[j]) /\ tr[i].id = tr[j].id => i = j
    /\ \A i \in DOMAIN tr :
            IsCompletion(tr[i]) => tr[i].id \in 1 .. ss.nextId - 1 \ PendingIds(ss)

\* What a sound method reports completes no call for the second time.
LEMMA ReportsExclusive ==
    ASSUME NEW ss, WellFormed(ss), NEW tt, WellFormed(tt),
           NEW tr \in Seq(SessionEvent), NEW p, Reports(ss, tt, p), Exclusive(ss, tr)
    PROVE  Exclusive(tt, tr \o p)
<1> DEFINE all == tr \o p
<1>1. /\ p \in Seq(SessionEvent) /\ Len(p) \in Nat /\ DOMAIN p = 1 .. Len(p)
      /\ Len(tr) \in Nat /\ DOMAIN tr = 1 .. Len(tr)
      /\ ss.nextId \in Nat /\ tt.nextId \in Nat /\ ss.nextId <= tt.nextId
  BY DEF Reports, WellFormed, WellTyped
<1>2. /\ all \in Seq(SessionEvent) /\ DOMAIN all = 1 .. Len(tr) + Len(p)
      /\ \A i \in 1 .. Len(tr) + Len(p) :
            all[i] = IF i <= Len(tr) THEN tr[i] ELSE p[i - Len(tr)]
  BY <1>1, ConcatProperties, LenProperties
<1> HIDE DEF all
\* An event of the step settles a call that was pending before it.
<1>3. ASSUME NEW i \in DOMAIN all, IsCompletion(all[i]), i > Len(tr)
      PROVE  /\ i - Len(tr) \in DOMAIN p /\ all[i] = p[i - Len(tr)]
             /\ all[i].id \in PendingIds(ss) \ PendingIds(tt)
  <2>1. i - Len(tr) \in DOMAIN p /\ all[i] = p[i - Len(tr)]
    BY <1>1, <1>2, <1>3
  <2> QED
    BY <1>3, <2>1 DEF Reports
\* An event of the past settles a call that was not pending.
<1>4. ASSUME NEW i \in DOMAIN all, IsCompletion(all[i]), ~(i > Len(tr))
      PROVE  /\ i \in DOMAIN tr /\ all[i] = tr[i]
             /\ all[i].id \in 1 .. ss.nextId - 1 /\ all[i].id \notin PendingIds(ss)
  <2>1. i \in DOMAIN tr /\ all[i] = tr[i]
    BY <1>1, <1>2, <1>4
  <2> QED
    BY <1>4, <2>1 DEF Exclusive
<1>5. ASSUME NEW i \in DOMAIN all, NEW j \in DOMAIN all,
             IsCompletion(all[i]), IsCompletion(all[j]), all[i].id = all[j].id
      PROVE  i = j
  <2>1. CASE i > Len(tr) /\ j > Len(tr)
    <3>1. i - Len(tr) \in DOMAIN p /\ all[i] = p[i - Len(tr)]
      BY <1>3, <1>5, <2>1
    <3>2. j - Len(tr) \in DOMAIN p /\ all[j] = p[j - Len(tr)]
      BY <1>3, <1>5, <2>1
    <3>3. i - Len(tr) = j - Len(tr)
      BY <1>5, <3>1, <3>2 DEF Reports
    <3> QED
      BY <1>1, <1>2, <3>3
  <2>2. CASE ~(i > Len(tr)) /\ ~(j > Len(tr))
    <3>1. i \in DOMAIN tr /\ all[i] = tr[i] /\ j \in DOMAIN tr /\ all[j] = tr[j]
      BY <1>4, <1>5, <2>2
    <3> QED
      BY <1>5, <3>1 DEF Exclusive
  <2>3. CASE i > Len(tr) /\ ~(j > Len(tr))
    BY <1>3, <1>4, <1>5, <2>3
  <2>4. CASE ~(i > Len(tr)) /\ j > Len(tr)
    BY <1>3, <1>4, <1>5, <2>4
  <2> QED
    BY <2>1, <2>2, <2>3, <2>4
<1>6. ASSUME NEW i \in DOMAIN all, IsCompletion(all[i])
      PROVE  all[i].id \in 1 .. tt.nextId - 1 \ PendingIds(tt)
  <2>1. CASE i > Len(tr)
    <3>1. all[i].id \in PendingIds(ss) \ PendingIds(tt)
      BY <1>3, <1>6, <2>1
    <3>2. all[i].id \in 1 .. ss.nextId - 1
      BY <3>1 DEF WellFormed, WellTyped
    <3> QED
      BY <1>1, <3>1, <3>2
  <2>2. CASE ~(i > Len(tr))
    <3>1. all[i].id \in 1 .. ss.nextId - 1 /\ all[i].id \notin PendingIds(ss)
      BY <1>4, <1>6, <2>2
    <3>2. all[i].id \notin PendingIds(tt)
      BY <1>1, <3>1 DEF Reports
    <3> QED
      BY <1>1, <3>1, <3>2
  <2> QED
    BY <2>1, <2>2
<1> QED
  BY <1>5, <1>6 DEF Exclusive, all

----------------------------------------------------------------------------
(* What a driver needs to know of the methods.                             *)

\* The calls that events complete.
CompletedBy(events) == {events[i].id : i \in {j \in DOMAIN events : IsCompletion(events[j])}}

\* The calls whose end the session has still to report, or its driver to read.
Owed(ss) == PendingIds(ss) \cup CompletedBy(ss.events)

\* The kind of the call that an event completes.
OfBatch(event) == event.type = "BatchResponse"

\* From ss to tt some pending calls end, each with a completion of its kind but
\* those in lost, which may end without a word.
Settles(ss, tt, lost) ==
    /\ WellFormed(tt)
    /\ tt.nextId = ss.nextId
    /\ Owed(tt) \subseteq Owed(ss)
    /\ Owed(ss) \subseteq Owed(tt) \cup lost
    /\ Exclusive(tt, tt.events)
    /\ \A id \in PendingIds(tt) : id \in PendingIds(ss) /\ tt.pending[id] = ss.pending[id]
    /\ \A i \in DOMAIN tt.events : IsCompletion(tt.events[i]) =>
            \/ i \in DOMAIN ss.events /\ tt.events[i] = ss.events[i]
            \/ /\ tt.events[i].id \in PendingIds(ss)
               /\ OfBatch(tt.events[i]) = ss.pending[tt.events[i].id].batch

\* The calls that ss knew and tt calls unmatched.
LosesOnly(ss, tt, lost) ==
    \A k \in DOMAIN tt.events \ DOMAIN ss.events :
        tt.events[k].type = "Unmatched" =>
            tt.events[k].id \notin PendingIds(ss) \/ tt.events[k].id \in lost

\* A method that allocates no id settles, if it calls no pending call unmatched but
\* those in lost.
LEMMA SettlesFrom ==
    ASSUME NEW ss, WellFormed(ss), Exclusive(ss, ss.events), NEW tt, NEW lost,
           Sound(ss, tt), AccountsForCalls(ss, tt), tt.nextId = ss.nextId,
           LosesOnly(ss, tt, lost)
    PROVE  Settles(ss, tt, lost)
<1>1. WellFormed(tt) /\ ss.events \in Seq(SessionEvent) /\ ss.nextId \in Nat
  BY DEF Sound, WellFormed, WellTyped
<1>2. PICK p, q : Accounts(ss, tt, p, q)
  BY DEF AccountsForCalls
<1>3. /\ p \in Seq(SessionEvent) /\ tt.events = ss.events \o p
      /\ \A id \in PendingIds(ss) \ PendingIds(tt) : Names(p, id)
      /\ \A i \in DOMAIN p : IsCompletion(p[i]) =>
            /\ p[i].id \in PendingIds(ss)
            /\ p[i].type = AnswerType(ss.pending[p[i].id].batch)
      /\ \A id \in PendingIds(tt) :
            \/ id \in PendingIds(ss) /\ tt.pending[id] = ss.pending[id]
            \/ id \notin PendingIds(ss)
  BY <1>2 DEF Accounts
<1>4. Exclusive(tt, tt.events)
  <2>1. PICK r : Reports(ss, tt, r)
    BY DEF Sound
  <2>2. tt.events = ss.events \o r
    BY <2>1 DEF Reports
  <2>3. Exclusive(tt, ss.events \o r)
    BY <1>1, <2>1, ReportsExclusive
  <2> QED
    BY <2>2, <2>3
<1>5. /\ \A k \in DOMAIN ss.events : k \in DOMAIN tt.events /\ tt.events[k] = ss.events[k]
      /\ \A i \in DOMAIN p : /\ Len(ss.events) + i \in DOMAIN tt.events \ DOMAIN ss.events
                            /\ tt.events[Len(ss.events) + i] = p[i]
      /\ \A k \in DOMAIN tt.events :
            \/ k \in DOMAIN ss.events /\ tt.events[k] = ss.events[k]
            \/ k - Len(ss.events) \in DOMAIN p /\ tt.events[k] = p[k - Len(ss.events)]
  <2> PICK a : a = ss.events
    OBVIOUS
  <2>1. a \in Seq(SessionEvent) /\ p \in Seq(SessionEvent) /\ tt.events = a \o p
    BY <1>1, <1>3, Zenon
  <2>2. /\ \A k \in DOMAIN a : k \in DOMAIN (a \o p) /\ (a \o p)[k] = a[k]
        /\ \A i \in DOMAIN p : /\ Len(a) + i \in DOMAIN (a \o p) \ DOMAIN a
                              /\ (a \o p)[Len(a) + i] = p[i]
        /\ \A k \in DOMAIN (a \o p) :
              \/ k \in DOMAIN a /\ (a \o p)[k] = a[k]
              \/ k - Len(a) \in DOMAIN p /\ (a \o p)[k] = p[k - Len(a)]
    BY <2>1, ConcatIndex
  <2> QED
    BY <2>1, <2>2, Zenon
<1>9. \A id \in PendingIds(tt) : id \in PendingIds(ss)
  <2>1. \A id \in PendingIds(tt) \ PendingIds(ss) : ss.nextId <= id
    BY DEF Sound, Reports
  <2>2. \A id \in PendingIds(tt) : id \in 1 .. ss.nextId - 1
    BY <1>1 DEF WellFormed, WellTyped
  <2> QED
    BY <1>1, <2>1, <2>2
<1>10. \A id \in PendingIds(tt) : tt.pending[id] = ss.pending[id]
  BY <1>3, <1>9
<1>11. Owed(tt) \subseteq Owed(ss) /\ Owed(ss) \subseteq Owed(tt) \cup lost
  <2>1. \A id \in PendingIds(ss) \ PendingIds(tt) : id \in CompletedBy(tt.events) \/ id \in lost
    <3> SUFFICES ASSUME NEW id \in PendingIds(ss) \ PendingIds(tt), id \notin lost
                 PROVE  id \in CompletedBy(tt.events)
      OBVIOUS
    <3>1. PICK i \in DOMAIN p : (IsCompletion(p[i]) \/ p[i].type = "Unmatched") /\ p[i].id = id
      BY <1>3 DEF Names
    <3>2. IsCompletion(p[i])
      BY <1>5, <3>1 DEF LosesOnly
    <3> QED
      BY <1>5, <3>1, <3>2 DEF CompletedBy
  <2>2. CompletedBy(ss.events) \subseteq CompletedBy(tt.events)
    BY <1>5 DEF CompletedBy
  <2>3. CompletedBy(tt.events) \subseteq CompletedBy(ss.events) \cup PendingIds(ss)
    BY <1>3, <1>5 DEF CompletedBy
  <2> QED
    BY <1>9, <2>1, <2>2, <2>3 DEF Owed
<1>12. \A i \in DOMAIN tt.events : IsCompletion(tt.events[i]) =>
            \/ i \in DOMAIN ss.events /\ tt.events[i] = ss.events[i]
            \/ /\ tt.events[i].id \in PendingIds(ss)
               /\ OfBatch(tt.events[i]) = ss.pending[tt.events[i].id].batch
  <2> SUFFICES ASSUME NEW i \in DOMAIN tt.events, IsCompletion(tt.events[i]),
                      ~(i \in DOMAIN ss.events /\ tt.events[i] = ss.events[i])
               PROVE  /\ tt.events[i].id \in PendingIds(ss)
                      /\ OfBatch(tt.events[i]) = ss.pending[tt.events[i].id].batch
    OBVIOUS
  <2>1. /\ tt.events[i].id \in PendingIds(ss)
        /\ tt.events[i].type = AnswerType(ss.pending[tt.events[i].id].batch)
    BY <1>3, <1>5
  <2>2. ss.pending[tt.events[i].id].batch \in BOOLEAN
    BY <2>1 DEF WellFormed, WellTyped, PendingEntry, PendingIds
  <2> QED
    BY <2>1, <2>2 DEF AnswerType, OfBatch
<1> QED
  BY <1>1, <1>4, <1>9, <1>10, <1>11, <1>12 DEF Settles

\* What handle_message() may touch beside the calls.
MessageKeeps(ss, tt, op) ==
    /\ tt.subs = ss.subs
    /\ tt.nextId = ss.nextId
    /\ \/ tt.outgoing = ss.outgoing
       \/ /\ ss.phase = "AwaitingHello"
          /\ \E frame \in OutgoingFrame : /\ frame.op = OpIdentify /\ frame.subs = ss.subs
                                         /\ tt.outgoing = Append(ss.outgoing, frame)
    /\ tt.negotiated = ss.negotiated \/ tt.phase = "Identified"
    /\ ss.phase = "Identified" => tt.phase = "Identified"
    /\ tt.phase = "Identified" => ss.phase = "Identified" \/ op = OpIdentified

\* A message leaves alone what it is not about.
LEMMA MessageKept ==
    ASSUME NEW ss, WellFormed(ss), NEW m, IsIncoming(m)
    PROVE  MessageKeeps(ss, HandleMessage(ss, m, TRUE).session, m.op)
<1> DEFINE frame == [op |-> OpIdentify, rpc |-> AgreedRpc(ss, m),
                     auth |-> m.auth, subs |-> ss.subs]
<1>1. frame \in OutgoingFrame /\ frame.op = OpIdentify /\ frame.subs = ss.subs
  <2>1. AgreedRpc(ss, m) \in Nat
    BY DEF AgreedRpc, WellFormed, WellTyped, IsIncoming
  <2> QED
    BY <2>1 DEF OutgoingFrame, OpIdentify, WellFormed, WellTyped, IsIncoming
<1>2. MessageKeeps(ss, ss, m.op)
  BY DEF MessageKeeps
<1>3. ss.phase = "AwaitingHello" => MessageKeeps(ss, OnHello(ss, m, TRUE).session, m.op)
  <2> SUFFICES ASSUME ss.phase = "AwaitingHello"
               PROVE  MessageKeeps(ss, OnHello(ss, m, TRUE).session, m.op)
    OBVIOUS
  <2> DEFINE tt == OnHello(ss, m, TRUE).session
  <2>1. /\ tt.subs = ss.subs /\ tt.nextId = ss.nextId /\ tt.negotiated = ss.negotiated
        /\ tt.outgoing = ss.outgoing \/ tt.outgoing = Append(ss.outgoing, frame)
        /\ tt.phase # "Identified"
    BY DEF OnHello, Ok, Fail, PushEvent, Queue, WellFormed, WellTyped
  <2> HIDE DEF tt, frame
  <2>2. MessageKeeps(ss, tt, m.op)
    BY <1>1, <2>1 DEF MessageKeeps
  <2> QED
    BY <2>2 DEF tt
<1>4. ss.phase = "Identifying" /\ m.op = OpIdentified =>
            MessageKeeps(ss, OnIdentified(ss, m).session, m.op)
  BY DEF MessageKeeps, OnIdentified, Ok, Fail, PushEvent, WellFormed, WellTyped
<1>5. MessageKeeps(ss, OnEvent(ss, m).session, m.op)
  BY DEF MessageKeeps, OnEvent, Ok, Fail, PushEvent, WellFormed, WellTyped
<1>6. \A batch \in BOOLEAN : MessageKeeps(ss, OnAnswer(ss, m, batch).session, m.op)
  BY DEF MessageKeeps, OnAnswer, Ok, Fail, PushEvent, RemovePending, WellFormed, WellTyped
<1> QED
  BY <1>2, <1>3, <1>4, <1>5, <1>6 DEF HandleMessage, Fail

\* handle_timeout() settles the overdue calls and touches nothing else.
LEMMA TimeoutSettles ==
    ASSUME NEW ss, WellFormed(ss), Exclusive(ss, ss.events), NEW now \in Nat, NEW lost
    PROVE  LET tt == HandleTimeout(ss, now)
           IN  /\ Settles(ss, tt, lost)
               /\ tt.subs = ss.subs /\ tt.negotiated = ss.negotiated
               /\ tt.phase = ss.phase /\ tt.outgoing = ss.outgoing
<1> DEFINE tt == HandleTimeout(ss, now)
           ids == Expired(ss, now)
           fs == Failures(ss, ids, "timeout")
<1>1. ids \in SUBSET PendingIds(ss) /\ WellTyped(ss) /\ "timeout" \in Results
  BY DEF Expired, WellFormed, Results
<1>2. tt = RemovePending(PushFailures(ss, ids, "timeout"), ids)
  BY DEF HandleTimeout
<1>3. tt.subs = ss.subs /\ tt.negotiated = ss.negotiated
  BY <1>1 DEF HandleTimeout, RemovePending, PushFailures, WellTyped
<1> HIDE DEF ids, tt
<1>4. FailedSome(ss, tt, ids, "timeout")
  BY <1>1, <1>2, FailSome, Zenon
<1>5. /\ tt.nextId = ss.nextId /\ tt.events = ss.events \o fs /\ tt.phase = ss.phase
      /\ tt.outgoing = ss.outgoing
  BY <1>4 DEF FailedSome
<1>6. fs \in Seq(SessionEvent) /\ \A i \in DOMAIN fs : IsCompletion(fs[i])
  <2>1. FailsEach(ss, ids, "timeout", fs)
    BY <1>1, FailuresOfPending, Zenon
  <2> QED
    BY <2>1 DEF FailsEach
<1> HIDE DEF fs
<1>7. \A k \in DOMAIN tt.events \ DOMAIN ss.events : IsCompletion(tt.events[k])
  <2>1. ss.events \in Seq(SessionEvent)
    BY <1>1 DEF WellTyped
  <2>2. \A k \in DOMAIN (ss.events \o fs) :
            \/ k \in DOMAIN ss.events /\ (ss.events \o fs)[k] = ss.events[k]
            \/ k - Len(ss.events) \in DOMAIN fs /\ (ss.events \o fs)[k] = fs[k - Len(ss.events)]
    BY <1>6, <2>1, ConcatIndex
  <2> QED
    BY <1>5, <1>6, <2>2
<1>8. \A k \in DOMAIN tt.events \ DOMAIN ss.events : tt.events[k].type # "Unmatched"
  BY <1>7 DEF IsCompletion
<1>9. Sound(ss, tt) /\ AccountsForCalls(ss, tt)
  BY TimeoutSound, TimeoutAccounts DEF tt
<1>10. Settles(ss, tt, lost)
  BY <1>5, <1>8, <1>9, SettlesFrom DEF LosesOnly
<1> QED
  BY <1>3, <1>5, <1>10 DEF tt

\* handle_close() settles every call, and reports Closed.
LEMMA CloseSettles ==
    ASSUME NEW ss, WellFormed(ss), Exclusive(ss, ss.events), NEW code \in Nat, NEW lost
    PROVE  LET tt == HandleClose(ss, code)
           IN  /\ Settles(ss, tt, lost)
               /\ tt.subs = ss.subs /\ tt.negotiated = ss.negotiated
               /\ tt.phase = "Closed" /\ tt.outgoing = ss.outgoing
               /\ \E i \in DOMAIN tt.events : tt.events[i].type = "Closed"
<1> DEFINE tt == HandleClose(ss, code)
<1>1. PICK fs : ClosedWith(ss, tt, code, fs)
  BY CloseEffect
<1> DEFINE p == <<ClosedEvent(code)>> \o fs
<1>2. tt.subs = ss.subs /\ tt.negotiated = ss.negotiated
  BY DEF HandleClose, FailPending, RemovePending, PushFailures, PushEvent, WellFormed, WellTyped
<1> HIDE DEF tt
<1>3. /\ tt.phase = "Closed" /\ tt.nextId = ss.nextId /\ tt.outgoing = ss.outgoing
      /\ tt.events = ss.events \o p /\ p \in Seq(SessionEvent)
      /\ fs \in Seq(SessionEvent) /\ \A i \in DOMAIN fs : IsCompletion(fs[i])
      /\ ClosedEvent(code) \in SessionEvent
  BY <1>1 DEF ClosedWith, FailsEach
<1>4. ss.events \in Seq(SessionEvent)
  BY DEF WellFormed, WellTyped
<1>5. /\ 1 \in DOMAIN p /\ p[1] = ClosedEvent(code)
      /\ \A i \in DOMAIN p : p[i] = ClosedEvent(code) \/ IsCompletion(p[i])
  <2> DEFINE one == <<ClosedEvent(code)>>
  <2>1. one \in Seq(SessionEvent) /\ DOMAIN one = {1} /\ one[1] = ClosedEvent(code) /\ Len(one) = 1
    BY <1>3
  <2> HIDE DEF one
  <2>2. /\ \A k \in DOMAIN one : k \in DOMAIN (one \o fs) /\ (one \o fs)[k] = one[k]
        /\ \A k \in DOMAIN (one \o fs) :
                \/ k \in DOMAIN one /\ (one \o fs)[k] = one[k]
                \/ k - Len(one) \in DOMAIN fs /\ (one \o fs)[k] = fs[k - Len(one)]
    BY <1>3, <2>1, ConcatIndex
  <2>3. p = one \o fs
    BY DEF one
  <2> HIDE DEF p
  <2> QED
    BY <1>3, <2>1, <2>2, <2>3
<1> HIDE DEF p
<1>6. /\ \A i \in DOMAIN p : /\ Len(ss.events) + i \in DOMAIN tt.events \ DOMAIN ss.events
                            /\ tt.events[Len(ss.events) + i] = p[i]
      /\ \A k \in DOMAIN tt.events :
            \/ k \in DOMAIN ss.events /\ tt.events[k] = ss.events[k]
            \/ k - Len(ss.events) \in DOMAIN p /\ tt.events[k] = p[k - Len(ss.events)]
  <2>1. PICK q \in Seq(SessionEvent) : q = p
    BY <1>3
  <2>2. /\ \A i \in DOMAIN q : /\ Len(ss.events) + i \in DOMAIN (ss.events \o q) \ DOMAIN ss.events
                              /\ (ss.events \o q)[Len(ss.events) + i] = q[i]
        /\ \A k \in DOMAIN (ss.events \o q) :
              \/ k \in DOMAIN ss.events /\ (ss.events \o q)[k] = ss.events[k]
              \/ k - Len(ss.events) \in DOMAIN q /\ (ss.events \o q)[k] = q[k - Len(ss.events)]
    BY <1>4, ConcatIndex
  <2> QED
    BY <1>3, <2>1, <2>2
<1>7. \E i \in DOMAIN tt.events : tt.events[i].type = "Closed"
  BY <1>5, <1>6 DEF ClosedEvent
<1>8. \A k \in DOMAIN tt.events \ DOMAIN ss.events : tt.events[k].type # "Unmatched"
  <2>1. \A event : event = ClosedEvent(code) \/ IsCompletion(event) => event.type # "Unmatched"
    BY DEF ClosedEvent, IsCompletion
  <2>2. \A i \in DOMAIN p : p[i].type # "Unmatched"
    BY <1>5, <2>1
  <2> SUFFICES ASSUME NEW k \in DOMAIN tt.events \ DOMAIN ss.events
               PROVE  tt.events[k].type # "Unmatched"
    OBVIOUS
  <2>3. PICK i \in DOMAIN p : tt.events[k] = p[i]
    BY <1>6
  <2> QED
    BY <2>2, <2>3
<1>9. Sound(ss, tt) /\ AccountsForCalls(ss, tt)
  BY CloseSound, CloseAccounts DEF tt
<1>10. Settles(ss, tt, lost)
  BY <1>3, <1>8, <1>9, SettlesFrom DEF LosesOnly
<1> QED
  BY <1>2, <1>3, <1>7, <1>10 DEF tt

\* An answer to a pending call is of the call's kind.
Fitting(ss, m) ==
    m.op \in {OpRequestResponse, OpRequestBatchResponse} /\ m.id \in PendingIds(ss)
        => ss.pending[m.id].batch = (m.op = OpRequestBatchResponse)

\* A message whose answer fits settles the call it answers, and one that does not
\* loses it.
LEMMA MessageSettles ==
    ASSUME NEW ss, WellFormed(ss), Exclusive(ss, ss.events), NEW m, IsIncoming(m),
           NEW lost, Fitting(ss, m) \/ m.id \in lost
    PROVE  Settles(ss, HandleMessage(ss, m, TRUE).session, lost)
<1> DEFINE Quiet(tt) == LosesOnly(ss, tt, lost)
           tt == HandleMessage(ss, m, TRUE).session
<1>1. ss.events \in Seq(SessionEvent)
  BY DEF WellFormed, WellTyped
<1>2. ASSUME NEW uu, NEW e, uu.events = Append(ss.events, e), e \in SessionEvent,
             e.type = "Unmatched" => e.id \notin PendingIds(ss) \/ e.id \in lost
      PROVE  Quiet(uu)
  <2>1. /\ Len(ss.events) \in Nat /\ DOMAIN ss.events = 1 .. Len(ss.events)
        /\ DOMAIN uu.events = 1 .. Len(ss.events) + 1 /\ uu.events[Len(ss.events) + 1] = e
    BY <1>1, <1>2, AppendProperties, LenProperties
  <2>2. \A k \in DOMAIN uu.events \ DOMAIN ss.events : k = Len(ss.events) + 1
    BY <2>1
  <2> QED
    BY <1>2, <2>1, <2>2 DEF LosesOnly
<1>3. Quiet(ss)
  BY DEF LosesOnly
<1>4. Quiet(OnHello(ss, m, TRUE).session)
  <2> DEFINE uu == OnHello(ss, m, TRUE).session
             e == [type |-> "Closed", code |-> AuthenticationFailed]
  <2>1. e \in SessionEvent /\ e.type # "Unmatched"
    BY DEF SessionEvent, AuthenticationFailed
  <2>2. uu.events = ss.events \/ uu.events = Append(ss.events, e)
    BY DEF OnHello, Ok, Fail, PushEvent, Queue, WellFormed, WellTyped
  <2> HIDE DEF uu, e
  <2>3. Quiet(uu)
    BY <1>2, <2>1, <2>2 DEF LosesOnly
  <2> QED
    BY <2>3 DEF uu
<1>5. Quiet(OnIdentified(ss, m).session)
  <2> DEFINE uu == OnIdentified(ss, m).session
             e == [type |-> "Identified", rpc |-> m.rpc]
  <2>1. e \in SessionEvent /\ e.type # "Unmatched"
    BY DEF SessionEvent, IsIncoming
  <2>2. uu.events = ss.events \/ uu.events = Append(ss.events, e)
    BY DEF OnIdentified, Ok, Fail, PushEvent, WellFormed, WellTyped
  <2> HIDE DEF uu, e
  <2>3. Quiet(uu)
    BY <1>2, <2>1, <2>2 DEF LosesOnly
  <2> QED
    BY <2>3 DEF uu
<1>6. Quiet(OnEvent(ss, m).session)
  <2> DEFINE uu == OnEvent(ss, m).session
             e == [type |-> "Event", id |-> m.id]
  <2>1. e \in SessionEvent /\ e.type # "Unmatched"
    BY DEF SessionEvent, IsIncoming
  <2>2. uu.events = ss.events \/ uu.events = Append(ss.events, e)
    BY DEF OnEvent, Ok, Fail, PushEvent, WellFormed, WellTyped
  <2> HIDE DEF uu, e
  <2>3. Quiet(uu)
    BY <1>2, <2>1, <2>2 DEF LosesOnly
  <2> QED
    BY <2>3 DEF uu
<1>7. ASSUME NEW batch \in BOOLEAN,
             (m.id \in PendingIds(ss) => ss.pending[m.id].batch = batch) \/ m.id \in lost
      PROVE  Quiet(OnAnswer(ss, m, batch).session)
  <2> DEFINE uu == OnAnswer(ss, m, batch).session
             done == Completion(m.id, batch, IF m.ok THEN "ok" ELSE "status")
             e == [type |-> "Unmatched", id |-> m.id]
  <2>1. /\ done \in SessionEvent /\ done.type # "Unmatched"
        /\ e \in SessionEvent /\ e.id = m.id
    <3>1. m.id \in Nat
      BY DEF IsIncoming
    <3>2. done \in SessionEvent /\ IsCompletion(done)
      BY <3>1, CompletionType DEF Results
    <3> QED
      BY <3>1, <3>2 DEF SessionEvent, IsCompletion
  <2>2. \/ uu.events = ss.events
        \/ uu.events = Append(ss.events, done)
        \/ /\ m.id \notin PendingIds(ss) \/ m.id \in lost
           /\ uu.events = Append(ss.events, e)
    BY <1>7 DEF OnAnswer, Ok, Fail, PushEvent, RemovePending, WellFormed, WellTyped
  <2> HIDE DEF uu, done, e
  <2>3. Quiet(uu)
    BY <1>2, <2>1, <2>2 DEF LosesOnly
  <2> QED
    BY <2>3 DEF uu
<1>8. m.op = OpRequestResponse => Quiet(OnAnswer(ss, m, FALSE).session)
  <2>1. m.op = OpRequestResponse => ~(m.op = OpRequestBatchResponse)
    BY DEF OpRequestResponse, OpRequestBatchResponse
  <2>2. m.op = OpRequestResponse /\ m.id \in PendingIds(ss) =>
            ss.pending[m.id].batch = FALSE \/ m.id \in lost
    BY <2>1, Zenon DEF Fitting
  <2> HIDE DEF Quiet
  <2> QED
    BY <1>7, <2>2
<1>9. m.op = OpRequestBatchResponse => Quiet(OnAnswer(ss, m, TRUE).session)
  BY <1>7 DEF Fitting, OpRequestResponse, OpRequestBatchResponse
<1>10. Quiet(tt)
  <2> HIDE DEF Quiet
  <2> QED
    BY <1>3, <1>4, <1>5, <1>6, <1>8, <1>9 DEF HandleMessage, Fail
<1>11. Sound(ss, tt) /\ AccountsForCalls(ss, tt) /\ tt.nextId = ss.nextId
  BY MessageSound, MessageAccounts, MessageKept DEF MessageKeeps
<1> HIDE DEF tt
<1>12. Settles(ss, tt, lost)
  BY <1>10, <1>11, SettlesFrom
<1> QED
  BY <1>12 DEF tt

\* From ss to tt a call has entered the map, and its frame the queue.
Enqueued(ss, tt, batch) ==
    /\ WellFormed(tt) /\ tt.nextId = ss.nextId + 1
    /\ PendingIds(tt) = PendingIds(ss) \cup {ss.nextId}
    /\ tt.pending[ss.nextId].batch = batch
    /\ \A id \in PendingIds(ss) : tt.pending[id] = ss.pending[id]
    /\ tt.outgoing = Append(ss.outgoing, CallFrame(ss.nextId, batch))
    /\ tt.events = ss.events /\ tt.phase = "Identified"
    /\ tt.subs = ss.subs /\ tt.negotiated = ss.negotiated

\* A call of an Identified session that encodes does so.
LEMMA EnqueueEffect ==
    ASSUME NEW ss, WellFormed(ss), ss.phase = "Identified",
           NEW deadline \in Nat \cup {NoDeadline}, NEW batch \in BOOLEAN
    PROVE  Enqueued(ss, Enqueue(ss, deadline, batch, TRUE).session, batch)
<1> DEFINE tt == Enqueue(ss, deadline, batch, TRUE).session
           id == ss.nextId
           pend == [k \in DOMAIN ss.pending \cup {id} |->
                        IF k = id THEN [deadline |-> deadline, batch |-> batch] ELSE ss.pending[k]]
           out == Append(ss.outgoing, CallFrame(id, batch))
<1>1. WellFormed(tt)
  BY EnqueueSound DEF Sound
<1>2. tt = [ss EXCEPT !.nextId = ss.nextId + 1, !.outgoing = out, !.pending = pend]
  BY DEF Enqueue, Ok, Fail, InsertPending, Queue, AllocId, CallFrame, WellFormed, WellTyped
<1>3. id \notin PendingIds(ss)
  BY DEF WellFormed, WellTyped
<1>4. /\ DOMAIN pend = DOMAIN ss.pending \cup {id} /\ pend[id].batch = batch
      /\ \A k \in DOMAIN ss.pending : pend[k] = ss.pending[k]
  BY <1>3 DEF PendingIds
<1> HIDE DEF pend, out, tt
<1>5. /\ tt.nextId = ss.nextId + 1 /\ tt.outgoing = out /\ tt.pending = pend
      /\ tt.events = ss.events /\ tt.phase = ss.phase
      /\ tt.subs = ss.subs /\ tt.negotiated = ss.negotiated
  BY <1>2 DEF WellFormed, WellTyped
<1> QED
  BY <1>1, <1>4, <1>5 DEF Enqueued, PendingIds, out, tt

\* From ss to tt the subscriptions have changed, and a frame that says so is queued.
Reidentified(ss, tt, subs) ==
    /\ WellFormed(tt)
    /\ tt.subs = subs /\ tt.nextId = ss.nextId /\ tt.pending = ss.pending
    /\ tt.outgoing = Append(ss.outgoing, [op |-> OpReidentify, subs |-> subs])
    /\ tt.events = ss.events /\ tt.phase = "Identified"
    /\ tt.negotiated = ss.negotiated

\* A reidentify of an Identified session that encodes is accepted.
LEMMA ReidentifyEffect ==
    ASSUME NEW ss, WellFormed(ss), ss.phase = "Identified", NEW subs \in Subscriptions
    PROVE  /\ Reidentify(ss, subs, TRUE).error = "none"
           /\ Reidentified(ss, Reidentify(ss, subs, TRUE).session, subs)
<1> DEFINE r == Reidentify(ss, subs, TRUE)
           out == Append(ss.outgoing, [op |-> OpReidentify, subs |-> subs])
<1>1. WellFormed(r.session)
  BY ReidentifySound DEF Sound
<1>2. r.error = "none" /\ r.session = [ss EXCEPT !.subs = subs, !.outgoing = out]
  BY DEF Reidentify, Ok, Fail, Queue, WellFormed, WellTyped
<1> HIDE DEF out, r
<1>3. /\ r.session.subs = subs /\ r.session.nextId = ss.nextId
      /\ r.session.pending = ss.pending /\ r.session.outgoing = out
      /\ r.session.events = ss.events /\ r.session.phase = ss.phase
      /\ r.session.negotiated = ss.negotiated
  BY <1>2 DEF WellFormed, WellTyped
<1> QED
  BY <1>1, <1>2, <1>3 DEF Reidentified, out, r

\* poll_transmit() takes the first frame and touches nothing else.
LEMMA PollTransmitEffect ==
    ASSUME NEW ss, WellFormed(ss), ss.outgoing # <<>>
    PROVE  LET tt == PollTransmit(ss)
           IN  /\ WellFormed(tt) /\ tt.outgoing = Tail(ss.outgoing)
               /\ tt.pending = ss.pending /\ tt.nextId = ss.nextId
               /\ tt.events = ss.events /\ tt.phase = ss.phase
               /\ tt.subs = ss.subs /\ tt.negotiated = ss.negotiated
<1> DEFINE tt == PollTransmit(ss)
           out == Tail(ss.outgoing)
<1>1. out \in Seq(OutgoingFrame)
  BY HeadTailProperties DEF WellFormed, WellTyped
<1>2. tt = [ss EXCEPT !.outgoing = out]
  BY DEF PollTransmit, WellFormed, WellTyped
<1> HIDE DEF tt, out
<1>3. /\ tt.outgoing = out /\ tt.pending = ss.pending /\ tt.nextId = ss.nextId
      /\ tt.events = ss.events /\ tt.phase = ss.phase
      /\ tt.subs = ss.subs /\ tt.negotiated = ss.negotiated
  BY <1>2 DEF WellFormed, WellTyped
<1>4. WellFormed(tt)
  BY <1>1, <1>2, <1>3 DEF WellFormed, WellTyped, PendingIds
<1> QED
  BY <1>3, <1>4 DEF tt, out

=============================================================================
