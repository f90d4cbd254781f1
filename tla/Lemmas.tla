------------------------------- MODULE Lemmas --------------------------------
(***************************************************************************)
(* Lemmas that the proofs share: induction and recursion over the natural  *)
(* numbers, in a form that names sets where the theorems of the library    *)
(* take operators; linear probing; and sequences, index by index.          *)
(***************************************************************************)
EXTENDS Integers, Sequences, WellFoundedInduction, TLAPS

-----------------------------------------------------------------------------
(* Induction and recursion.                                                *)

\* Every set of naturals that is not empty has a least element.
LEMMA LeastElement ==
    ASSUME NEW S \in SUBSET Nat, S # {}
    PROVE  \E m \in S : \A k \in S : m <= k
  <1>1. PICK m \in S : \A k \in S : <<k, m>> \notin OpToRel(<, Nat)
    BY WFMin, NatLessThanWellFounded
  <1>2. \A k \in S : ~(k < m)
    BY <1>1 DEF OpToRel
  <1>3. QED
    BY <1>2

\* A set that has 0, and with k - 1 also k, has all numbers up to n.
LEMMA UpTo ==
    ASSUME NEW n \in Nat, NEW S, 0 \in S, \A k \in 1 .. n : k - 1 \in S => k \in S
    PROVE  0 .. n \subseteq S
  <1> DEFINE Out == {k \in 0 .. n : k \notin S}
  <1> SUFFICES ASSUME Out # {} PROVE FALSE
    OBVIOUS
  <1>0. Out \in SUBSET Nat
    OBVIOUS
  <1> HIDE DEF Out
  <1>1. PICK m \in Out : \A k \in Out : m <= k
    BY <1>0, LeastElement
  <1>2. m \in 1 .. n /\ m - 1 \in 0 .. n /\ m - 1 \notin Out
    BY <1>1 DEF Out
  <1>3. QED
    BY <1>1, <1>2 DEF Out

\* g[k] takes values in V to values in V, for k up to n.
Steps(g, n, V) == \A k \in 1 .. n, v \in V : g[k][v] \in V

\* The history of a value that begins as base and is changed n times, by g[k] the
\* k-th time.
IsHistory(f, g, n, V, base) ==
    /\ f \in [0 .. n -> V]
    /\ f[0] = base
    /\ \A k \in 1 .. n : f[k] = g[k][f[k - 1]]

LEMMA Iteration ==
    ASSUME NEW n \in Nat, NEW V, NEW base \in V, NEW g, Steps(g, n, V)
    PROVE  \E f : IsHistory(f, g, n, V, base)
  <1> DEFINE S == {m \in 0 .. n : \E f : IsHistory(f, g, m, V, base)}
  <1>1. 0 \in S
    <2>1. IsHistory([k \in 0 .. 0 |-> base], g, 0, V, base)
      BY DEF IsHistory
    <2>2. QED
      BY <2>1
  <1>2. ASSUME NEW m \in 1 .. n, m - 1 \in S PROVE m \in S
    <2>1. PICK f : IsHistory(f, g, m - 1, V, base)
      BY <1>2
    <2> DEFINE h == [k \in 0 .. m |-> IF k = m THEN g[m][f[m - 1]] ELSE f[k]]
    <2>2. f[m - 1] \in V
      BY <2>1 DEF IsHistory
    <2>3. g[m][f[m - 1]] \in V
      BY <2>2 DEF Steps
    <2>4. h \in [0 .. m -> V]
      BY <2>1, <2>3 DEF IsHistory
    <2>5. h[0] = base
      BY <2>1 DEF IsHistory
    <2>6. ASSUME NEW k \in 1 .. m PROVE h[k] = g[k][h[k - 1]]
      <3>1. h[k - 1] = f[k - 1]
        BY <2>4
      <3>2. CASE k = m
        BY <3>1, <3>2
      <3>3. CASE k # m
        <4>1. k \in 1 .. m - 1
          BY <3>3
        <4>2. QED
          BY <2>1, <3>1, <4>1 DEF IsHistory
      <3>4. QED
        BY <3>2, <3>3
    <2>7. IsHistory(h, g, m, V, base)
      BY <2>4, <2>5, <2>6 DEF IsHistory
    <2>8. QED
      BY <2>7
  <1>3. 0 .. n \subseteq S
    <2> HIDE DEF S
    <2>1. QED
      BY <1>1, <1>2, UpTo
  <1>4. QED
    BY <1>3

-----------------------------------------------------------------------------
(* Linear probing in n slots, which begins at h % n.                       *)

LEMMA Remainder ==
    ASSUME NEW n \in Nat \ {0}, NEW h \in 0 .. n - 1, NEW i \in 0 .. n - 1
    PROVE  (h + i) % n = IF h + i < n THEN h + i ELSE h + i - n
  OBVIOUS

LEMMA RemainderInRange ==
    ASSUME NEW n \in Nat \ {0}, NEW h \in Nat
    PROVE  h % n \in 0 .. n - 1
  OBVIOUS

\* n probes look at each of the n slots once.
LEMMA ProbesMeetAll ==
    ASSUME NEW n \in Nat \ {0}, NEW hash \in Nat
    PROVE  /\ \A i \in 0 .. n - 1 : ((hash % n) + i) % n \in 0 .. n - 1
           /\ \A i, j \in 0 .. n - 1 : ((hash % n) + i) % n = ((hash % n) + j) % n => i = j
           /\ \A s \in 0 .. n - 1 : \E i \in 0 .. n - 1 : ((hash % n) + i) % n = s
  <1> DEFINE h == hash % n
             P(i) == (h + i) % n
  <1>1. h \in 0 .. n - 1
    BY RemainderInRange
  <1> HIDE DEF h
  <1>2. \A i \in 0 .. n - 1 : P(i) = IF h + i < n THEN h + i ELSE h + i - n
    BY <1>1, Remainder
  <1> HIDE DEF P
  <1>3. ASSUME NEW s \in 0 .. n - 1 PROVE \E i \in 0 .. n - 1 : P(i) = s
    <2>1. CASE s >= h
      <3>1. s - h \in 0 .. n - 1 /\ h + (s - h) = s /\ s < n
        BY <1>1, <2>1
      <3>2. QED
        BY <1>2, <3>1
    <2>2. CASE s < h
      <3>1. s - h + n \in 0 .. n - 1 /\ h + (s - h + n) - n = s /\ ~(h + (s - h + n) < n)
        BY <1>1, <2>2
      <3>2. QED
        BY <1>2, <3>1
    <2>3. QED
      BY <1>1, <2>1, <2>2
  <1>4. /\ \A i \in 0 .. n - 1 : P(i) \in 0 .. n - 1
        /\ \A i, j \in 0 .. n - 1 : P(i) = P(j) => i = j
    BY <1>1, <1>2
  <1>5. QED
    BY <1>3, <1>4 DEF P, h

-----------------------------------------------------------------------------
(* Sequences.                                                              *)

LEMMA SameSequence ==
    ASSUME NEW V, NEW s \in Seq(V), NEW t \in Seq(V), Len(s) = Len(t),
           \A i \in 1 .. Len(s) : s[i] = t[i]
    PROVE  s = t
  OBVIOUS

LEMMA ConcatAt ==
    ASSUME NEW V, NEW a \in Seq(V), NEW b \in Seq(V)
    PROVE  /\ a \o b \in Seq(V) /\ Len(a \o b) = Len(a) + Len(b)
           /\ \A i \in 1 .. Len(a) + Len(b) :
                 (a \o b)[i] = IF i <= Len(a) THEN a[i] ELSE b[i - Len(a)]
  OBVIOUS

LEMMA SubSeqAt ==
    ASSUME NEW V, NEW a \in Seq(V), NEW m \in 1 .. Len(a) + 1, NEW n \in m - 1 .. Len(a)
    PROVE  /\ SubSeq(a, m, n) \in Seq(V) /\ Len(SubSeq(a, m, n)) = n + 1 - m
           /\ \A i \in 1 .. n + 1 - m : SubSeq(a, m, n)[i] = a[i + m - 1]
  OBVIOUS

\* What is left when the first k are gone.
LEMMA DropAt ==
    ASSUME NEW V, NEW a \in Seq(V), NEW k \in 0 .. Len(a)
    PROVE  LET t == SubSeq(a, k + 1, Len(a))
           IN  t \in Seq(V) /\ Len(t) = Len(a) - k /\ \A i \in 1 .. Len(a) - k : t[i] = a[i + k]
  <1> DEFINE t == SubSeq(a, k + 1, Len(a))
  <1>1. Len(a) \in Nat
    OBVIOUS
  <1>2. /\ t \in Seq(V) /\ Len(t) = Len(a) + 1 - (k + 1)
        /\ \A i \in 1 .. Len(a) + 1 - (k + 1) : t[i] = a[i + (k + 1) - 1]
    BY <1>1, SubSeqAt
  <1> HIDE DEF t
  <1>3. ASSUME NEW i \in 1 .. Len(a) - k PROVE t[i] = a[i + k]
    <2>1. i \in 1 .. Len(a) + 1 - (k + 1) /\ i + (k + 1) - 1 = i + k
      BY <1>1
    <2>2. t[i] = a[i + (k + 1) - 1]
      BY <1>2, <2>1
    <2>3. QED
      BY <2>1, <2>2
  <1>4. Len(t) = Len(a) - k
    BY <1>1, <1>2
  <1>5. QED
    BY <1>2, <1>3, <1>4 DEF t

LEMMA Associative ==
    ASSUME NEW V, NEW a \in Seq(V), NEW b \in Seq(V), NEW c \in Seq(V)
    PROVE  (a \o b) \o c = a \o (b \o c)
  OBVIOUS

\* A sequence cut in two and put together.
LEMMA CutAndJoined ==
    ASSUME NEW V, NEW a \in Seq(V), NEW k \in 0 .. Len(a)
    PROVE  SubSeq(a, 1, k) \o SubSeq(a, k + 1, Len(a)) = a
  <1> DEFINE s == SubSeq(a, 1, k)
             t == SubSeq(a, k + 1, Len(a))
  <1>1. /\ s \in Seq(V) /\ Len(s) = k /\ \A i \in 1 .. k : s[i] = a[i]
        /\ t \in Seq(V) /\ Len(t) = Len(a) - k /\ \A i \in 1 .. Len(a) - k : t[i] = a[i + k]
    <2>1. Len(a) \in Nat
      OBVIOUS
    <2>2. /\ s \in Seq(V) /\ Len(s) = k + 1 - 1
          /\ \A i \in 1 .. k + 1 - 1 : s[i] = a[i + 1 - 1]
      BY <2>1, SubSeqAt
    <2>3. QED
      BY <2>1, <2>2, DropAt
  <1> HIDE DEF s, t
  <1>2. /\ s \o t \in Seq(V) /\ Len(s \o t) = Len(a)
        /\ \A i \in 1 .. Len(a) : (s \o t)[i] = a[i]
    <2>1. /\ s \o t \in Seq(V) /\ Len(s \o t) = Len(s) + Len(t)
          /\ \A i \in 1 .. Len(s) + Len(t) :
                (s \o t)[i] = IF i <= Len(s) THEN s[i] ELSE t[i - Len(s)]
      <3>1. s \in Seq(V) /\ t \in Seq(V)
        BY <1>1
      <3>2. QED
        BY <3>1, ConcatAt
    <2>2. Len(a) \in Nat /\ Len(s) + Len(t) = Len(a)
      BY <1>1
    <2>3. ASSUME NEW i \in 1 .. Len(a) PROVE (s \o t)[i] = a[i]
      <3>1. CASE i <= k
        BY <1>1, <2>1, <2>2, <3>1
      <3>2. CASE i > k
        <4>1. i - k \in 1 .. Len(a) - k
          BY <2>2, <3>2
        <4>2. (s \o t)[i] = t[i - k]
          BY <1>1, <2>1, <2>2, <3>2
        <4>3. QED
          BY <1>1, <2>2, <4>1, <4>2
      <3>3. QED
        BY <2>2, <3>1, <3>2
    <2>4. QED
      BY <2>1, <2>2, <2>3
  <1>3. QED
    BY <1>2, SameSequence DEF s, t

\* The rest of a concatenation.
LEMMA RestOfConcat ==
    ASSUME NEW V, NEW a \in Seq(V), NEW b \in Seq(V), NEW k \in 0 .. Len(a)
    PROVE  SubSeq(a, k + 1, Len(a)) \o b = SubSeq(a \o b, k + 1, Len(a \o b))
  <1> DEFINE s == SubSeq(a, 1, k)
             t == SubSeq(a, k + 1, Len(a))
             c == a \o b
             u == SubSeq(c, k + 1, Len(c))
  <1>1. Len(a) \in Nat /\ Len(b) \in Nat
    OBVIOUS
  <1>2. /\ t \in Seq(V) /\ Len(t) = Len(a) - k /\ \A i \in 1 .. Len(a) - k : t[i] = a[i + k]
    BY DropAt
  <1>3. /\ c \in Seq(V) /\ Len(c) = Len(a) + Len(b)
        /\ \A i \in 1 .. Len(a) + Len(b) : c[i] = IF i <= Len(a) THEN a[i] ELSE b[i - Len(a)]
    BY ConcatAt
  <1> HIDE DEF c
  <1>4. /\ u \in Seq(V) /\ Len(u) = Len(c) - k /\ \A i \in 1 .. Len(c) - k : u[i] = c[i + k]
    <2>1. c \in Seq(V) /\ k \in 0 .. Len(c)
      BY <1>1, <1>3
    <2>2. QED
      BY <2>1, DropAt
  <1> HIDE DEF t, u
  <1>5. /\ t \o b \in Seq(V) /\ Len(t \o b) = Len(u)
        /\ \A i \in 1 .. Len(u) : (t \o b)[i] = u[i]
    <2>1. /\ t \o b \in Seq(V) /\ Len(t \o b) = Len(t) + Len(b)
          /\ \A i \in 1 .. Len(t) + Len(b) :
                (t \o b)[i] = IF i <= Len(t) THEN t[i] ELSE b[i - Len(t)]
      BY <1>2, ConcatAt
    <2>2. QED
      BY <1>1, <1>2, <1>3, <1>4, <2>1
  <1>6. QED
    BY <1>4, <1>5, SameSequence DEF t, u, c

=============================================================================
