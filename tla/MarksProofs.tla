----------------------------- MODULE MarksProofs -----------------------------
(***************************************************************************)
(* The properties of the database builder, for any categories, urls, tags  *)
(* and domains, and any number of bookmarks and lines.                     *)
(***************************************************************************)
EXTENDS Marks, Lemmas, FiniteSetTheorems

-----------------------------------------------------------------------------
(* Operators of the model.                                                 *)

LEMMA GreaterOf ==
    ASSUME NEW a \in Int, NEW b \in Int
    PROVE  Max({a, b}) = IF a >= b THEN a ELSE b
  <1> DEFINE m == IF a >= b THEN a ELSE b
  <1>1. m \in {a, b} /\ \A y \in {a, b} : m >= y
    OBVIOUS
  <1>2. \A x \in {a, b} : (\A y \in {a, b} : x >= y) => x = m
    OBVIOUS
  <1>3. QED
    BY <1>1, <1>2 DEF Max

LEMMA LastCopyIsLast ==
    ASSUME NEW bms \in Seq(Bookmark), NEW url
    PROVE  LET copies == {i \in 1 .. Len(bms) : bms[i].url = url}
               k  == LastCopy(bms, url)
           IN  IF copies = {} THEN k = 0
               ELSE k \in copies /\ \A i \in copies : i <= k
  <1> DEFINE copies == {i \in 1 .. Len(bms) : bms[i].url = url}
  <1>1. LastCopy(bms, url) = IF copies # {} THEN Max(copies) ELSE 0
    BY DEF LastCopy, SelectLastInSeq
  <1>2. Len(bms) \in Nat
    OBVIOUS
  <1>3. CASE copies # {}
    <2> DEFINE down == {Len(bms) - i : i \in copies}
    <2>1. down \in SUBSET Nat /\ down # {}
      BY <1>2, <1>3
    <2>2. PICK d \in down : \A e \in down : d <= e
      BY <2>1, LeastElement
    <2>3. PICK m \in copies : d = Len(bms) - m
      BY <2>2
    <2>4. ASSUME NEW i \in copies PROVE i <= m
      <3>1. i \in Nat /\ m \in Nat /\ Len(bms) - i \in down
        BY <1>2
      <3>2. Len(bms) - m <= Len(bms) - i
        BY <2>2, <2>3, <3>1
      <3>3. QED
        BY <1>2, <3>1, <3>2
    <2>5. Max(copies) \in copies /\ \A i \in copies : Max(copies) >= i
      BY <2>4, <2>3 DEF Max
    <2>6. QED
      BY <1>1, <1>2, <1>3, <2>5
  <1>4. QED
    BY <1>1, <1>3

-----------------------------------------------------------------------------
(* The counters as numbers of places.                                      *)

\* The places in b that count for l: its tags, and 0 for its domain.
Places(b, l) ==
    {t \in 0 .. Len(TagsOf[b.v]) : IF t = 0 THEN Domain[b.url] = l ELSE TagsOf[b.v][t] = l}

\* The places in the first n bookmarks.
PlacesIn(bms, n, l) == {p \in (1 .. n) \X Nat : p[2] \in Places(bms[p[1]], l)}

LEMMA OccurrencesArePlaces ==
    ASSUME NEW b \in Bookmark, NEW l \in Labels
    PROVE  /\ IsFiniteSet(Places(b, l)) /\ Places(b, l) \subseteq Nat
           /\ Occurrences(b, l) = Cardinality(Places(b, l))
           /\ Occurrences(b, l) \in Nat
  <1> DEFINE tags == TagsOf[b.v]
             T == {i \in 1 .. Len(tags) : tags[i] = l}
             P == Places(b, l)
  <1>1. tags \in Seq(Labels) /\ Len(tags) \in Nat /\ DOMAIN tags = 1 .. Len(tags)
    <2>1. b.v \in Variants
      BY DEF Bookmark
    <2>2. tags \in Seq(Labels)
      BY <2>1, MarksAssumption
    <2> HIDE DEF tags
    <2>3. QED
      BY <2>2
  <1>2. P = IF Domain[b.url] = l THEN T \union {0} ELSE T
    BY <1>1 DEF Places
  <1>3. IsFiniteSet(T) /\ Cardinality(T) \in Nat
    <2>1. IsFiniteSet(1 .. Len(tags))
      BY <1>1, FS_Interval
    <2>2. QED
      BY <2>1, FS_Subset, FS_CardinalityType
  <1>4. IsFiniteSet(T \union {0}) /\ Cardinality(T \union {0}) = Cardinality(T) + 1
    <2>1. 0 \notin T
      BY <1>1
    <2>2. QED
      BY <1>3, <2>1, FS_AddElement
  <1>5. Occurrences(b, l) = Cardinality(T) + (IF Domain[b.url] = l THEN 1 ELSE 0)
    BY <1>1 DEF Occurrences
  <1> HIDE DEF T
  <1>6. IsFiniteSet(P) /\ Occurrences(b, l) = Cardinality(P) /\ Occurrences(b, l) \in Nat
    BY <1>2, <1>3, <1>4, <1>5
  <1>7. QED
    BY <1>1, <1>6 DEF Places

\* The places of bookmark k among those of a list.
PlacesOf(bms, k, l) == {k} \X Places(bms[k], l)

LEMMA PlacesOfOne ==
    ASSUME NEW b \in Bookmark, NEW k \in Nat, NEW l \in Labels
    PROVE  /\ IsFiniteSet({k} \X Places(b, l))
           /\ Cardinality({k} \X Places(b, l)) = Occurrences(b, l)
           /\ Occurrences(b, l) \in Nat
  <1>1. IsFiniteSet({k}) /\ Cardinality({k}) = 1
    BY FS_Singleton
  <1>2. /\ IsFiniteSet(Places(b, l)) /\ Occurrences(b, l) \in Nat
        /\ Occurrences(b, l) = Cardinality(Places(b, l))
    BY OccurrencesArePlaces
  <1>3. /\ IsFiniteSet({k} \X Places(b, l))
        /\ Cardinality({k} \X Places(b, l)) = Cardinality({k}) * Cardinality(Places(b, l))
    BY <1>1, <1>2, FS_Product
  <1>4. QED
    BY <1>1, <1>2, <1>3

\* One bookmark more has its own places and no others.
LEMMA PlacesGrow ==
    ASSUME NEW bms \in Seq(Bookmark), NEW k \in 1 .. Len(bms), NEW l \in Labels,
           IsFiniteSet(PlacesIn(bms, k - 1, l))
    PROVE  /\ IsFiniteSet(PlacesIn(bms, k, l))
           /\ Cardinality(PlacesIn(bms, k, l)) =
                 Cardinality(PlacesIn(bms, k - 1, l)) + Occurrences(bms[k], l)
  <1> DEFINE A == PlacesIn(bms, k - 1, l)
             B == {k} \X Places(bms[k], l)
  <1>1. bms[k] \in Bookmark /\ k \in Nat /\ k >= 1
    OBVIOUS
  <1>2. IsFiniteSet(B) /\ Cardinality(B) = Occurrences(bms[k], l) /\ Occurrences(bms[k], l) \in Nat
    BY <1>1, PlacesOfOne
  <1>3. Places(bms[k], l) \subseteq Nat
    BY <1>1, OccurrencesArePlaces
  <1>4. A \cap B = {}
    BY <1>1 DEF PlacesIn
  <1>5. PlacesIn(bms, k, l) = A \union B
    <2>1. 1 .. k = (1 .. k - 1) \union {k}
      BY <1>1
    <2>2. QED
      BY <1>3, <2>1 DEF PlacesIn
  <1> HIDE DEF A, B
  <1>6. /\ IsFiniteSet(A \union B)
        /\ Cardinality(A \union B) = Cardinality(A) + Cardinality(B) - Cardinality(A \cap B)
    BY <1>2, FS_Union DEF A
  <1>7. Cardinality(A \cap B) = 0 /\ Cardinality(A) \in Nat
    BY <1>4, FS_EmptySet, FS_CardinalityType DEF A
  <1>8. QED
    BY <1>2, <1>5, <1>6, <1>7 DEF A

LEMMA AdjustAt ==
    ASSUME NEW c \in Counters, NEW b \in Bookmark
    PROVE  /\ Adjust(c, b, 1) \in Counters /\ Adjust(c, b, -1) \in Counters
           /\ \A l \in Labels :
                 /\ Adjust(c, b, 1)[l] = c[l] + Occurrences(b, l)
                 /\ Adjust(c, b, -1)[l] =
                       IF c[l] >= Occurrences(b, l) THEN c[l] - Occurrences(b, l) ELSE 0
  <1>1. ASSUME NEW l \in Labels
        PROVE  /\ Max({0, c[l] + 1 * Occurrences(b, l)}) = c[l] + Occurrences(b, l)
               /\ Max({0, c[l] + (-1) * Occurrences(b, l)}) =
                     IF c[l] >= Occurrences(b, l) THEN c[l] - Occurrences(b, l) ELSE 0
               /\ c[l] \in Nat /\ Occurrences(b, l) \in Nat
    <2> DEFINE n == Occurrences(b, l)
    <2>1. c[l] \in Nat /\ n \in Nat
      BY OccurrencesArePlaces DEF Counters
    <2> HIDE DEF n
    <2>2. 0 \in Int /\ c[l] + 1 * n \in Int /\ c[l] + (-1) * n \in Int
      BY <2>1
    <2>3. /\ Max({0, c[l] + 1 * n}) = IF 0 >= c[l] + 1 * n THEN 0 ELSE c[l] + 1 * n
          /\ Max({0, c[l] + (-1) * n}) = IF 0 >= c[l] + (-1) * n THEN 0 ELSE c[l] + (-1) * n
      BY <2>2, GreaterOf
    <2>4. QED
      BY <2>1, <2>3 DEF n
  <1>2. ASSUME NEW l \in Labels
        PROVE  /\ Adjust(c, b, 1)[l] = c[l] + Occurrences(b, l)
               /\ Adjust(c, b, -1)[l] =
                     IF c[l] >= Occurrences(b, l) THEN c[l] - Occurrences(b, l) ELSE 0
    <2>1. /\ Adjust(c, b, 1)[l] = Max({0, c[l] + 1 * Occurrences(b, l)})
          /\ Adjust(c, b, -1)[l] = Max({0, c[l] + (-1) * Occurrences(b, l)})
      BY Zenon DEF Adjust
    <2>2. QED
      BY <1>1, <2>1, Zenon
  <1>3. Adjust(c, b, 1) \in Counters /\ Adjust(c, b, -1) \in Counters
    <2>1. ASSUME NEW l \in Labels
          PROVE  /\ Max({0, c[l] + 1 * Occurrences(b, l)}) \in Nat
                 /\ Max({0, c[l] + (-1) * Occurrences(b, l)}) \in Nat
      <3> DEFINE n == Occurrences(b, l)
                 m == c[l]
                 up == Max({0, c[l] + 1 * Occurrences(b, l)})
                 down == Max({0, c[l] + (-1) * Occurrences(b, l)})
      <3>1. m \in Nat /\ n \in Nat
        BY <1>1, Zenon
      <3>2. up = m + n /\ down = IF m >= n THEN m - n ELSE 0
        BY <1>1, Zenon
      <3> HIDE DEF n, m, up, down
      <3>3. up \in Nat /\ down \in Nat
        BY <3>1, <3>2
      <3>4. QED
        BY <3>3 DEF up, down
    <2>2. QED
      BY <2>1, Zenon DEF Adjust, Counters
  <1>4. QED
    BY <1>2, <1>3, Zenon

CountHistory(bms, f) ==
    f = [k \in 0 .. Len(bms) |->
            IF k = 0 THEN NoFile.counts ELSE Adjust(f[k - 1], bms[k], 1)]

LEMMA NoCounts == NoFile.counts = [l \in Labels |-> 0] /\ NoFile.counts \in Counters
  BY DEF NoFile, Counters

LEMMA RecountHasHistory ==
    ASSUME NEW bms \in Seq(Bookmark)
    PROVE  \E f : /\ Recount(bms) = f[Len(bms)]
                  /\ f[0] = NoFile.counts
                  /\ \A k \in 1 .. Len(bms) : f[k] = Adjust(f[k - 1], bms[k], 1)
  <1> DEFINE n == Len(bms)
             g == [k \in 1 .. n |-> [c \in Counters |-> Adjust(c, bms[k], 1)]]
             f == CHOOSE f : CountHistory(bms, f)
  <1>0. n \in Nat /\ \A k \in 1 .. n : bms[k] \in Bookmark
    OBVIOUS
  <1>1. \A k \in 1 .. n, c \in Counters : g[k][c] = Adjust(c, bms[k], 1)
    OBVIOUS
  <1>2. Steps(g, n, Counters)
    BY <1>0, <1>1, AdjustAt DEF Steps
  <1> HIDE DEF g
  <1>3. PICK h : IsHistory(h, g, n, Counters, NoFile.counts)
    BY <1>0, <1>2, NoCounts, Iteration
  <1>4. CountHistory(bms, h)
    <2>1. ASSUME NEW k \in 0 .. n, k # 0 PROVE h[k] = Adjust(h[k - 1], bms[k], 1)
      <3>1. k \in 1 .. n /\ k - 1 \in 0 .. n
        BY <1>0, <2>1
      <3>2. QED
        BY <1>1, <1>3, <3>1 DEF IsHistory
    <2>2. QED
      BY <1>3, <2>1 DEF IsHistory, CountHistory
  <1>5. CountHistory(bms, f)
    BY <1>4
  <1>6. Recount(bms) = f[n]
    BY DEF Recount, CountHistory
  <1> HIDE DEF f
  <1>7. f[0] = NoFile.counts
    BY <1>0, <1>5 DEF CountHistory
  <1>8. ASSUME NEW k \in 1 .. n PROVE f[k] = Adjust(f[k - 1], bms[k], 1)
    <2>1. k \in 0 .. n /\ k # 0
      BY <1>0
    <2>2. QED
      BY <1>5, <2>1 DEF CountHistory
  <1>9. QED
    BY <1>6, <1>7, <1>8

\* A recount gives the number of places.
LEMMA RecountIsPlaces ==
    ASSUME NEW bms \in Seq(Bookmark)
    PROVE  /\ Recount(bms) \in Counters
           /\ \A l \in Labels : /\ IsFiniteSet(PlacesIn(bms, Len(bms), l))
                                /\ Recount(bms)[l] = Cardinality(PlacesIn(bms, Len(bms), l))
  <1> DEFINE n == Len(bms)
  <1>1. n \in Nat /\ \A k \in 1 .. n : bms[k] \in Bookmark
    OBVIOUS
  <1>2. PICK f : /\ Recount(bms) = f[n]
                 /\ f[0] = NoFile.counts
                 /\ \A k \in 1 .. n : f[k] = Adjust(f[k - 1], bms[k], 1)
    BY RecountHasHistory
  <1> DEFINE Is(k) == /\ f[k] \in Counters
                      /\ \A l \in Labels : /\ IsFiniteSet(PlacesIn(bms, k, l))
                                           /\ f[k][l] = Cardinality(PlacesIn(bms, k, l))
             S == {k \in 0 .. n : Is(k)}
  <1>3. 0 \in S
    <2>1. \A l : PlacesIn(bms, 0, l) = {}
      BY DEF PlacesIn
    <2>2. ASSUME NEW l \in Labels
          PROVE  IsFiniteSet(PlacesIn(bms, 0, l)) /\ f[0][l] = Cardinality(PlacesIn(bms, 0, l))
      BY <1>2, <2>1, NoCounts, FS_EmptySet
    <2>3. f[0] \in Counters /\ 0 \in 0 .. n
      BY <1>1, <1>2, NoCounts
    <2>4. QED
      BY <2>2, <2>3
  <1>4. ASSUME NEW k \in 1 .. n, k - 1 \in S PROVE k \in S
    <2>1. f[k] = Adjust(f[k - 1], bms[k], 1) /\ f[k - 1] \in Counters /\ bms[k] \in Bookmark
      BY <1>1, <1>2, <1>4
    <2>2. f[k] \in Counters /\ \A l \in Labels : f[k][l] = f[k - 1][l] + Occurrences(bms[k], l)
      <3> DEFINE c == f[k - 1]
                 b == bms[k]
      <3>1. c \in Counters /\ b \in Bookmark /\ f[k] = Adjust(c, b, 1)
        BY <2>1
      <3> HIDE DEF c, b
      <3>2. Adjust(c, b, 1) \in Counters /\ \A l \in Labels : Adjust(c, b, 1)[l] = c[l] + Occurrences(b, l)
        BY <3>1, AdjustAt, Zenon
      <3>3. QED
        BY <3>1, <3>2, Zenon DEF c, b
    <2>3. ASSUME NEW l \in Labels
          PROVE  /\ IsFiniteSet(PlacesIn(bms, k, l))
                 /\ f[k][l] = Cardinality(PlacesIn(bms, k, l))
      <3>1. /\ IsFiniteSet(PlacesIn(bms, k - 1, l))
            /\ f[k - 1][l] = Cardinality(PlacesIn(bms, k - 1, l))
        BY <1>4
      <3>2. /\ IsFiniteSet(PlacesIn(bms, k, l))
            /\ Cardinality(PlacesIn(bms, k, l)) =
                  Cardinality(PlacesIn(bms, k - 1, l)) + Occurrences(bms[k], l)
        BY <3>1, PlacesGrow
      <3>3. QED
        BY <2>2, <3>1, <3>2
    <2>4. k \in 0 .. n
      BY <1>1
    <2>5. QED
      BY <2>2, <2>3, <2>4
  <1>5. n \in S
    <2> HIDE DEF S
    <2>1. 0 .. n \subseteq S
      BY <1>1, <1>3, <1>4, UpTo
    <2>2. QED
      BY <1>1, <2>1
  <1>6. QED
    BY <1>2, <1>5

LEMMA SameCounters ==
    ASSUME NEW c \in Counters, NEW d \in Counters, \A l \in Labels : c[l] = d[l]
    PROVE  c = d
  BY DEF Counters

\* Counting what is added is a recount.
LEMMA RecountAppend ==
    ASSUME NEW bms \in Seq(Bookmark), NEW b \in Bookmark
    PROVE  Recount(Append(bms, b)) = Adjust(Recount(bms), b, 1)
  <1> DEFINE more == Append(bms, b)
             n == Len(bms)
  <1>1. /\ more \in Seq(Bookmark) /\ Len(more) = n + 1 /\ n \in Nat /\ more[n + 1] = b
        /\ \A i \in 1 .. n : more[i] = bms[i]
    OBVIOUS
  <1> HIDE DEF more
  <1>2. \A l : PlacesIn(more, n, l) = PlacesIn(bms, n, l)
    BY <1>1 DEF PlacesIn
  <1>3. /\ Recount(bms) \in Counters /\ Recount(more) \in Counters
        /\ Adjust(Recount(bms), b, 1) \in Counters
    BY <1>1, RecountIsPlaces, AdjustAt
  <1>4. ASSUME NEW l \in Labels PROVE Recount(more)[l] = Adjust(Recount(bms), b, 1)[l]
    <2>1. /\ IsFiniteSet(PlacesIn(bms, n, l))
          /\ Recount(bms)[l] = Cardinality(PlacesIn(bms, n, l))
          /\ Recount(more)[l] = Cardinality(PlacesIn(more, n + 1, l))
      BY <1>1, RecountIsPlaces
    <2> DEFINE k == n + 1
    <2>2. k \in 1 .. Len(more) /\ k - 1 = n /\ more[k] = b
      BY <1>1
    <2> HIDE DEF k
    <2>3. Cardinality(PlacesIn(more, k, l)) =
             Cardinality(PlacesIn(more, k - 1, l)) + Occurrences(more[k], l)
      BY <1>1, <1>2, <2>1, <2>2, PlacesGrow
    <2>4. Adjust(Recount(bms), b, 1)[l] = Recount(bms)[l] + Occurrences(b, l)
      BY <1>3, AdjustAt
    <2>5. QED
      BY <1>2, <2>1, <2>2, <2>3, <2>4 DEF k
  <1>5. QED
    BY <1>3, <1>4, SameCounters DEF more

\* The places in all bookmarks but k.
PlacesBut(bms, k, l) ==
    {p \in (1 .. Len(bms)) \X Nat : p[1] # k /\ p[2] \in Places(bms[p[1]], l)}

LEMMA PlacesSplit ==
    ASSUME NEW bms \in Seq(Bookmark), NEW k \in 1 .. Len(bms), NEW l \in Labels
    PROVE  /\ IsFiniteSet(PlacesBut(bms, k, l)) /\ Cardinality(PlacesBut(bms, k, l)) \in Nat
           /\ Recount(bms)[l] = Cardinality(PlacesBut(bms, k, l)) + Occurrences(bms[k], l)
           /\ Occurrences(bms[k], l) \in Nat
  <1> DEFINE A == PlacesBut(bms, k, l)
             B == {k} \X Places(bms[k], l)
             W == PlacesIn(bms, Len(bms), l)
  <1>1. bms[k] \in Bookmark /\ k \in Nat
    OBVIOUS
  <1>2. IsFiniteSet(B) /\ Cardinality(B) = Occurrences(bms[k], l) /\ Occurrences(bms[k], l) \in Nat
    BY <1>1, PlacesOfOne
  <1>3. Places(bms[k], l) \subseteq Nat
    BY <1>1, OccurrencesArePlaces
  <1>4. W = A \union B /\ A \cap B = {} /\ A \subseteq W
    BY <1>3 DEF PlacesIn, PlacesBut
  <1>5. IsFiniteSet(W) /\ Recount(bms)[l] = Cardinality(W)
    BY RecountIsPlaces
  <1> HIDE DEF A, B, W
  <1>6. IsFiniteSet(A) /\ Cardinality(A) \in Nat
    BY <1>4, <1>5, FS_Subset, FS_CardinalityType
  <1>7. Cardinality(W) = Cardinality(A) + Cardinality(B) - Cardinality(A \cap B)
    BY <1>2, <1>4, <1>6, FS_Union
  <1>8. Cardinality(A \cap B) = 0
    BY <1>4, FS_EmptySet
  <1>9. QED
    BY <1>2, <1>5, <1>6, <1>7, <1>8 DEF A

\* Taking a bookmark out of the counters and its successor in is a recount.
LEMMA RecountReplaced ==
    ASSUME NEW bms \in Seq(Bookmark), NEW k \in 1 .. Len(bms), NEW new \in Bookmark
    PROVE  Recount([bms EXCEPT ![k] = new]) = Recounted(Recount(bms), bms[k], new)
  <1> DEFINE other == [bms EXCEPT ![k] = new]
  <1>1. /\ other \in Seq(Bookmark) /\ Len(other) = Len(bms) /\ other[k] = new
        /\ \A i \in 1 .. Len(bms) : i # k => other[i] = bms[i]
        /\ bms[k] \in Bookmark
    OBVIOUS
  <1> HIDE DEF other
  <1>2. \A l : PlacesBut(other, k, l) = PlacesBut(bms, k, l)
    BY <1>1 DEF PlacesBut
  <1> DEFINE without == Adjust(Recount(bms), bms[k], -1)
  <1>3. Recount(bms) \in Counters /\ Recount(other) \in Counters
    BY <1>1, RecountIsPlaces
  <1>4. without \in Counters
    BY <1>1, <1>3, AdjustAt
  <1>5. Adjust(without, new, 1) \in Counters
    BY <1>4, AdjustAt
  <1>6. ASSUME NEW l \in Labels PROVE Recount(other)[l] = Adjust(without, new, 1)[l]
    <2> DEFINE rest == Cardinality(PlacesBut(bms, k, l))
    <2>1. /\ rest \in Nat /\ Recount(bms)[l] = rest + Occurrences(bms[k], l)
          /\ Occurrences(bms[k], l) \in Nat
      BY PlacesSplit
    <2>2. Recount(other)[l] = rest + Occurrences(new, l)
      <3>1. k \in 1 .. Len(other)
        BY <1>1
      <3>2. Recount(other)[l] = Cardinality(PlacesBut(other, k, l)) + Occurrences(other[k], l)
        BY <1>1, <3>1, PlacesSplit
      <3>3. QED
        BY <1>1, <1>2, <3>2
    <2> HIDE DEF rest
    <2>3. without[l] = IF Recount(bms)[l] >= Occurrences(bms[k], l)
                       THEN Recount(bms)[l] - Occurrences(bms[k], l) ELSE 0
      BY <1>1, <1>3, AdjustAt
    <2>4. without[l] = rest
      BY <2>1, <2>3
    <2> HIDE DEF without
    <2>5. Adjust(without, new, 1)[l] = without[l] + Occurrences(new, l)
      BY <1>4, AdjustAt
    <2>6. QED
      BY <2>2, <2>4, <2>5
  <1>7. Recount(other) = Adjust(without, new, 1)
    BY <1>3, <1>5, <1>6, SameCounters
  <1>8. QED
    BY <1>7 DEF Recounted, other

-----------------------------------------------------------------------------
(* Sorting.                                                                *)

LEMMA PrecedesOrders ==
    ASSUME NEW bms \in Seq(Bookmark),
           NEW i \in 1 .. Len(bms), NEW j \in 1 .. Len(bms), NEW k \in 1 .. Len(bms)
    PROVE  /\ ~Precedes(bms, i, i)
           /\ i # j => Precedes(bms, i, j) \/ Precedes(bms, j, i)
           /\ Precedes(bms, i, j) /\ Precedes(bms, j, k) => Precedes(bms, i, k)
  <1>1. \A x \in 1 .. Len(bms) : bms[x] \in Bookmark
    OBVIOUS
  <1>2. \A x \in 1 .. Len(bms) : bms[x].cat \in Nat /\ bms[x].v \in Nat
    BY <1>1, MarksAssumption DEF Bookmark
  <1>3. i \in Nat /\ j \in Nat /\ k \in Nat
    OBVIOUS
  <1>4. QED
    BY <1>2, <1>3 DEF Precedes

Before(bms, i) == {j \in 1 .. Len(bms) : Precedes(bms, j, i)}

LEMMA PlaceCounts ==
    ASSUME NEW bms \in Seq(Bookmark), NEW i \in 1 .. Len(bms)
    PROVE  /\ IsFiniteSet(Before(bms, i)) /\ Cardinality(Before(bms, i)) \in Nat
           /\ Place(bms, i) = 1 + Cardinality(Before(bms, i))
           /\ Place(bms, i) \in 1 .. Len(bms)
  <1> DEFINE n == Len(bms)
             B == Before(bms, i)
  <1>1. n \in Nat /\ IsFiniteSet(1 .. n) /\ Cardinality(1 .. n) = n
    <2>1. n \in Nat
      OBVIOUS
    <2>2. IsFiniteSet(1 .. n) /\ Cardinality(1 .. n) = IF 1 > n THEN 0 ELSE n - 1 + 1
      BY <2>1, FS_Interval
    <2>3. QED
      BY <2>1, <2>2
  <1>2. B \in SUBSET (1 .. n) /\ i \notin B
    BY PrecedesOrders DEF Before
  <1>3. Place(bms, i) = 1 + Cardinality(B)
    BY DEF Place, Before
  <1> HIDE DEF B
  <1>4. IsFiniteSet(B) /\ Cardinality(B) <= Cardinality(1 .. n) /\ B # 1 .. n
        /\ (Cardinality(B) = Cardinality(1 .. n) => B = 1 .. n)
    BY <1>1, <1>2, FS_Subset
  <1>5. Cardinality(B) \in Nat
    BY <1>4, FS_CardinalityType
  <1>6. Place(bms, i) \in 1 .. n
    BY <1>1, <1>3, <1>4, <1>5
  <1>7. QED
    BY <1>3, <1>4, <1>5, <1>6 DEF B

\* Who precedes another has the smaller place.
LEMMA PlaceOrders ==
    ASSUME NEW bms \in Seq(Bookmark), NEW i \in 1 .. Len(bms), NEW j \in 1 .. Len(bms),
           Precedes(bms, i, j)
    PROVE  Place(bms, i) < Place(bms, j)
  <1> DEFINE A == Before(bms, i)
             B == Before(bms, j)
  <1>1. A \in SUBSET B /\ i \in B /\ i \notin A
    BY PrecedesOrders DEF Before
  <1>2. /\ IsFiniteSet(B) /\ Cardinality(A) \in Nat /\ Cardinality(B) \in Nat
        /\ Place(bms, i) = 1 + Cardinality(A) /\ Place(bms, j) = 1 + Cardinality(B)
    BY PlaceCounts
  <1> HIDE DEF A, B
  <1>3. Cardinality(A) <= Cardinality(B) /\ (Cardinality(A) = Cardinality(B) => B = A)
    BY <1>1, <1>2, FS_Subset
  <1>4. QED
    BY <1>1, <1>2, <1>3

\* Every place is taken by one.
LEMMA PlacesAreTaken ==
    ASSUME NEW bms \in Seq(Bookmark)
    PROVE  /\ \A i, j \in 1 .. Len(bms) : Place(bms, i) = Place(bms, j) => i = j
           /\ \A p \in 1 .. Len(bms) : \E i \in 1 .. Len(bms) : Place(bms, i) = p
  <1> DEFINE n == Len(bms)
             f == [i \in 1 .. n |-> Place(bms, i)]
  <1>1. ASSUME NEW i \in 1 .. n, NEW j \in 1 .. n, i # j PROVE Place(bms, i) # Place(bms, j)
    <2>1. Precedes(bms, i, j) \/ Precedes(bms, j, i)
      BY <1>1, PrecedesOrders
    <2>2. Place(bms, i) < Place(bms, j) \/ Place(bms, j) < Place(bms, i)
      BY <2>1, PlaceOrders
    <2>3. Place(bms, i) \in Nat /\ Place(bms, j) \in Nat
      BY PlaceCounts
    <2>4. QED
      BY <2>2, <2>3
  <1>2. f \in [1 .. n -> 1 .. n] /\ \A i \in 1 .. n : f[i] = Place(bms, i)
    BY PlaceCounts
  <1> HIDE DEF f
  <1>3. f \in Injection(1 .. n, 1 .. n)
    BY <1>1, <1>2 DEF Injection, IsInjective
  <1>4. n \in Nat /\ IsFiniteSet(1 .. n)
    BY FS_Interval
  <1>5. f \in Surjection(1 .. n, 1 .. n)
    BY <1>3, <1>4, FS_Injection
  <1>6. \A p \in 1 .. n : \E i \in 1 .. n : f[i] = p
    BY <1>5 DEF Surjection
  <1>7. QED
    BY <1>1, <1>2, <1>6

\* Sorting puts every bookmark in its place.
LEMMA SortedByPlace ==
    ASSUME NEW bms \in Seq(Bookmark)
    PROVE  /\ Sorted(bms) \in Seq(Bookmark) /\ Len(Sorted(bms)) = Len(bms)
           /\ \A i \in 1 .. Len(bms) : Sorted(bms)[Place(bms, i)] = bms[i]
  <1> DEFINE n == Len(bms)
             At(p) == CHOOSE i \in 1 .. n : Place(bms, i) = p
  <1>1. n \in Nat /\ \A i \in 1 .. n : bms[i] \in Bookmark
    OBVIOUS
  <1>2. \A p \in 1 .. n : At(p) \in 1 .. n /\ Place(bms, At(p)) = p
    BY PlacesAreTaken
  <1>3. Sorted(bms) = [p \in 1 .. n |-> bms[At(p)]]
    BY DEF Sorted
  <1> HIDE DEF At
  <1>4. Sorted(bms) \in [1 .. n -> Bookmark]
    BY <1>1, <1>2, <1>3
  <1>5. Sorted(bms) \in Seq(Bookmark) /\ Len(Sorted(bms)) = n
    BY <1>1, <1>4
  <1>6. ASSUME NEW i \in 1 .. n PROVE Sorted(bms)[Place(bms, i)] = bms[i]
    <2>1. Place(bms, i) \in 1 .. n
      BY PlaceCounts
    <2>2. At(Place(bms, i)) = i
      BY <1>2, <2>1, PlacesAreTaken
    <2>3. QED
      BY <1>3, <2>1, <2>2
  <1>7. QED
    BY <1>5, <1>6

\* Sorting does not change what a recount gives.
LEMMA RecountSorted ==
    ASSUME NEW bms \in Seq(Bookmark)
    PROVE  Recount(Sorted(bms)) = Recount(bms)
  <1> DEFINE n == Len(bms)
             srt == Sorted(bms)
  <1>1. srt \in Seq(Bookmark) /\ Len(srt) = n /\ \A i \in 1 .. n : srt[Place(bms, i)] = bms[i]
    BY SortedByPlace
  <1>2. /\ \A i \in 1 .. n : Place(bms, i) \in 1 .. n
        /\ \A i, j \in 1 .. n : Place(bms, i) = Place(bms, j) => i = j
        /\ \A p \in 1 .. n : \E i \in 1 .. n : Place(bms, i) = p
    BY PlaceCounts, PlacesAreTaken
  <1> HIDE DEF srt
  <1>3. ASSUME NEW l \in Labels PROVE Recount(srt)[l] = Recount(bms)[l]
    <2> DEFINE S == PlacesIn(bms, n, l)
               T == PlacesIn(srt, n, l)
               f == [p \in S |-> <<Place(bms, p[1]), p[2]>>]
    <2>1. /\ IsFiniteSet(S) /\ Recount(bms)[l] = Cardinality(S)
          /\ Recount(srt)[l] = Cardinality(T)
      BY <1>1, RecountIsPlaces
    <2>2. \A p \in S : p[1] \in 1 .. n /\ p[2] \in Nat /\ p[2] \in Places(bms[p[1]], l)
                       /\ p = <<p[1], p[2]>>
      BY DEF PlacesIn
    <2>3. \A i \in 1 .. n, t \in Nat : <<i, t>> \in S <=> t \in Places(bms[i], l)
      BY DEF PlacesIn
    <2>4. \A i \in 1 .. n, t \in Nat : <<i, t>> \in T <=> t \in Places(srt[i], l)
      BY DEF PlacesIn
    <2>5. \A p \in T : p[1] \in 1 .. n /\ p[2] \in Nat /\ p = <<p[1], p[2]>>
      BY DEF PlacesIn
    <2> HIDE DEF S, T
    <2>6. \A p \in S : f[p] = <<Place(bms, p[1]), p[2]>> /\ f[p] \in T
      BY <1>1, <1>2, <2>2, <2>4
    <2>7. f \in [S -> T]
      BY <2>6
    <2>8. ASSUME NEW p \in S, NEW q \in S, f[p] = f[q] PROVE p = q
      <3>1. Place(bms, p[1]) = Place(bms, q[1]) /\ p[2] = q[2]
        BY <2>6, <2>8
      <3>2. p[1] = q[1]
        BY <1>2, <2>2, <3>1
      <3>3. QED
        BY <2>2, <3>1, <3>2
    <2>9. ASSUME NEW q \in T PROVE \E p \in S : f[p] = q
      <3>1. PICK i \in 1 .. n : Place(bms, i) = q[1]
        BY <1>2, <2>5
      <3>2. srt[q[1]] = bms[i]
        BY <1>1, <3>1
      <3>3. q[2] \in Places(bms[i], l)
        BY <2>4, <2>5, <3>2
      <3>4. <<i, q[2]>> \in S
        BY <2>3, <2>5, <3>3
      <3>5. f[<<i, q[2]>>] = q
        BY <2>5, <2>6, <3>1, <3>4
      <3>6. QED
        BY <3>4, <3>5
    <2> HIDE DEF f
    <2>10. f \in Bijection(S, T)
      BY <2>7, <2>8, <2>9 DEF Bijection, Injection, Surjection, IsInjective
    <2>11. ExistsBijection(S, T)
      BY <2>10 DEF ExistsBijection
    <2>12. Cardinality(T) = Cardinality(S)
      BY <2>1, <2>11, FS_Bijection
    <2>13. QED
      BY <2>1, <2>12
  <1>4. Recount(srt) \in Counters /\ Recount(bms) \in Counters
    BY <1>1, RecountIsPlaces
  <1>5. QED
    BY <1>3, <1>4, SameCounters DEF srt

-----------------------------------------------------------------------------
(* Copies of a url.                                                        *)

LEMMA LastCopyIs ==
    ASSUME NEW bms \in Seq(Bookmark), NEW url, NEW k,
           \/ k = 0 /\ \A i \in 1 .. Len(bms) : bms[i].url # url
           \/ /\ k \in 1 .. Len(bms) /\ bms[k].url = url
              /\ \A i \in 1 .. Len(bms) : bms[i].url = url => i <= k
    PROVE  LastCopy(bms, url) = k
  <1> DEFINE copies == {i \in 1 .. Len(bms) : bms[i].url = url}
             last == LastCopy(bms, url)
  <1>1. IF copies = {} THEN last = 0 ELSE last \in copies /\ \A i \in copies : i <= last
    BY LastCopyIsLast
  <1>2. \A i \in copies : i \in Nat
    OBVIOUS
  <1>3. CASE copies = {}
    BY <1>1, <1>3
  <1>4. CASE copies # {}
    <2>1. last \in copies /\ (\A i \in copies : i <= last) /\ k \in copies /\ \A i \in copies : i <= k
      BY <1>1, <1>4
    <2> HIDE DEF copies, last
    <2>2. last = k
      BY <1>2, <2>1
    <2>3. QED
      BY <2>2 DEF last
  <1>5. QED
    BY <1>3, <1>4

LEMMA LastCopyOfSame ==
    ASSUME NEW bms \in Seq(Bookmark), NEW other \in Seq(Bookmark), Len(other) = Len(bms),
           \A i \in 1 .. Len(bms) : other[i].url = bms[i].url, NEW url
    PROVE  LastCopy(other, url) = LastCopy(bms, url)
  <1> DEFINE k == LastCopy(bms, url)
  <1>1. LET copies == {i \in 1 .. Len(bms) : bms[i].url = url}
        IN  IF copies = {} THEN k = 0 ELSE k \in copies /\ \A i \in copies : i <= k
    BY LastCopyIsLast
  <1> HIDE DEF k
  <1>2. \/ k = 0 /\ \A i \in 1 .. Len(other) : other[i].url # url
        \/ /\ k \in 1 .. Len(other) /\ other[k].url = url
           /\ \A i \in 1 .. Len(other) : other[i].url = url => i <= k
    BY <1>1
  <1>3. LastCopy(other, url) = k
    BY <1>2, LastCopyIs
  <1>4. QED
    BY <1>3 DEF k

LEMMA LastCopyOfMore ==
    ASSUME NEW bms \in Seq(Bookmark), NEW b \in Bookmark, NEW url
    PROVE  LastCopy(Append(bms, b), url) = IF b.url = url THEN Len(bms) + 1 ELSE LastCopy(bms, url)
  <1> DEFINE more == Append(bms, b)
             n == Len(bms)
             k == LastCopy(bms, url)
             m == IF b.url = url THEN n + 1 ELSE k
  <1>1. LET copies == {i \in 1 .. n : bms[i].url = url}
        IN  IF copies = {} THEN k = 0 ELSE k \in copies /\ \A i \in copies : i <= k
    BY LastCopyIsLast
  <1>2. /\ more \in Seq(Bookmark) /\ Len(more) = n + 1 /\ n \in Nat /\ more[n + 1] = b
        /\ \A i \in 1 .. n : more[i] = bms[i]
    OBVIOUS
  <1> HIDE DEF more, k
  <1>3. CASE b.url = url
    <2>1. n + 1 \in 1 .. Len(more) /\ more[n + 1].url = url
          /\ \A i \in 1 .. Len(more) : more[i].url = url => i <= n + 1
      BY <1>2, <1>3
    <2>2. LastCopy(more, url) = n + 1
      BY <1>2, <2>1, LastCopyIs
    <2>3. QED
      BY <1>3, <2>2 DEF more
  <1>4. CASE b.url # url
    <2>1. \A i \in 1 .. Len(more) : more[i].url = url => i \in 1 .. n /\ bms[i].url = url
      BY <1>2, <1>4
    <2>2. \/ k = 0 /\ \A i \in 1 .. Len(more) : more[i].url # url
          \/ /\ k \in 1 .. Len(more) /\ more[k].url = url
             /\ \A i \in 1 .. Len(more) : more[i].url = url => i <= k
      <3>1. CASE k = 0 /\ \A i \in 1 .. n : bms[i].url # url
        BY <2>1, <3>1
      <3>2. CASE k \in 1 .. n /\ bms[k].url = url /\ \A i \in 1 .. n : bms[i].url = url => i <= k
        BY <1>2, <2>1, <3>2
      <3>3. QED
        BY <1>1, <3>1, <3>2
    <2>3. LastCopy(more, url) = k
      BY <1>2, <2>2, LastCopyIs
    <2>4. QED
      BY <1>4, <2>3 DEF more, k
  <1>5. QED
    BY <1>3, <1>4

LEMMA CopiesCount ==
    ASSUME NEW bms \in Seq(Bookmark), NEW url
    PROVE  /\ IsFiniteSet({i \in 1 .. Len(bms) : bms[i].url = url})
           /\ Copies(bms, url) = Cardinality({i \in 1 .. Len(bms) : bms[i].url = url})
           /\ Copies(bms, url) \in Nat
  <1> DEFINE C == {i \in 1 .. Len(bms) : bms[i].url = url}
  <1>1. IsFiniteSet(1 .. Len(bms)) /\ C \in SUBSET (1 .. Len(bms))
    BY FS_Interval
  <1>2. Copies(bms, url) = Cardinality(C)
    <2>1. DOMAIN bms = 1 .. Len(bms)
      OBVIOUS
    <2>2. QED
      BY <2>1 DEF Copies
  <1> HIDE DEF C
  <1>3. IsFiniteSet(C) /\ Cardinality(C) \in Nat
    BY <1>1, FS_Subset, FS_CardinalityType
  <1>4. QED
    BY <1>2, <1>3 DEF C

LEMMA CopiesOfSame ==
    ASSUME NEW bms \in Seq(Bookmark), NEW other \in Seq(Bookmark), Len(other) = Len(bms),
           \A i \in 1 .. Len(bms) : other[i].url = bms[i].url, NEW url
    PROVE  Copies(other, url) = Copies(bms, url)
  <1>1. {i \in 1 .. Len(other) : other[i].url = url} = {i \in 1 .. Len(bms) : bms[i].url = url}
    OBVIOUS
  <1>2. /\ Copies(bms, url) = Cardinality({i \in 1 .. Len(bms) : bms[i].url = url})
        /\ Copies(other, url) = Cardinality({i \in 1 .. Len(other) : other[i].url = url})
    BY CopiesCount, Zenon
  <1>3. QED
    BY <1>1, <1>2, Zenon

LEMMA CopiesOfMore ==
    ASSUME NEW bms \in Seq(Bookmark), NEW b \in Bookmark, NEW url
    PROVE  Copies(Append(bms, b), url) = Copies(bms, url) + (IF b.url = url THEN 1 ELSE 0)
  <1> DEFINE more == Append(bms, b)
             n == Len(bms)
             C == {i \in 1 .. n : bms[i].url = url}
             D == {i \in 1 .. Len(more) : more[i].url = url}
  <1>1. /\ more \in Seq(Bookmark) /\ Len(more) = n + 1 /\ n \in Nat /\ more[n + 1] = b
        /\ \A i \in 1 .. n : more[i] = bms[i]
    OBVIOUS
  <1>2. /\ IsFiniteSet(C) /\ Copies(bms, url) = Cardinality(C) /\ Copies(bms, url) \in Nat
        /\ Copies(more, url) = Cardinality(D)
    BY <1>1, CopiesCount
  <1> HIDE DEF more
  <1>3. D = (IF b.url = url THEN C \union {n + 1} ELSE C) /\ n + 1 \notin C
    BY <1>1
  <1> HIDE DEF C, D
  <1>4. Cardinality(C \union {n + 1}) = Cardinality(C) + 1
    BY <1>2, <1>3, FS_AddElement
  <1>5. QED
    BY <1>2, <1>3, <1>4 DEF more

LEMMA NoCopyNoLast ==
    ASSUME NEW bms \in Seq(Bookmark), NEW url, LastCopy(bms, url) = 0
    PROVE  Copies(bms, url) = 0
  <1>1. {i \in 1 .. Len(bms) : bms[i].url = url} = {}
    <2> DEFINE copies == {i \in 1 .. Len(bms) : bms[i].url = url}
    <2>1. IF copies = {} THEN TRUE ELSE 0 \in copies
      BY LastCopyIsLast
    <2>2. QED
      BY <2>1
  <1>2. QED
    BY <1>1, CopiesCount, FS_EmptySet

\* The copy of a url that is looked up is one of its copies.
LEMMA OldIsACopy ==
    ASSUME NEW bms \in Seq(Bookmark), NEW url, LastCopy(bms, url) # 0
    PROVE  /\ LastCopy(bms, url) \in 1 .. Len(bms)
           /\ bms[LastCopy(bms, url)] \in Bookmark
           /\ bms[LastCopy(bms, url)].url = url
  <1>1. LastCopy(bms, url) \in {i \in 1 .. Len(bms) : bms[i].url = url}
    BY LastCopyIsLast
  <1>2. QED
    BY <1>1

-----------------------------------------------------------------------------
(* What find-dead keeps.                                                   *)

KeptHistory(bms, dead, f) ==
    f = [k \in 0 .. Len(bms) |->
            IF k = 0 THEN <<>>
            ELSE IF bms[k].url \in dead THEN f[k - 1]
            ELSE Append(f[k - 1], bms[k])]

LEMMA HealthyAreBookmarks ==
    ASSUME NEW bms \in Seq(Bookmark), NEW dead
    PROVE  Healthy(bms, dead) \in Seq(Bookmark)
  <1> DEFINE n == Len(bms)
             B == Seq(Bookmark)
             g == [k \in 1 .. n |->
                      [s \in B |-> IF bms[k].url \in dead THEN s ELSE Append(s, bms[k])]]
             f == CHOOSE f : KeptHistory(bms, dead, f)
  <1>1. n \in Nat /\ <<>> \in B
    OBVIOUS
  <1>2. \A k \in 1 .. n, s \in B :
           /\ g[k][s] = IF bms[k].url \in dead THEN s ELSE Append(s, bms[k])
           /\ g[k][s] \in B
    OBVIOUS
  <1> HIDE DEF g
  <1>3. Steps(g, n, B)
    BY <1>2 DEF Steps
  <1> HIDE DEF B
  <1>4. PICK h : IsHistory(h, g, n, B, <<>>)
    BY <1>1, <1>3, Iteration
  <1>5. KeptHistory(bms, dead, h)
    <2>1. ASSUME NEW k \in 0 .. n, k # 0
          PROVE  h[k] = IF bms[k].url \in dead THEN h[k - 1] ELSE Append(h[k - 1], bms[k])
      <3>1. k \in 1 .. n /\ k - 1 \in 0 .. n
        BY <1>1, <2>1
      <3>2. h[k] = g[k][h[k - 1]] /\ h[k - 1] \in B
        BY <1>4, <3>1 DEF IsHistory
      <3>3. QED
        BY <1>2, <3>1, <3>2
    <2>2. QED
      BY <1>4, <2>1 DEF IsHistory, KeptHistory
  <1>6. KeptHistory(bms, dead, f)
    BY <1>5
  <1>7. Healthy(bms, dead) = f[n]
    BY DEF Healthy, KeptHistory
  <1> HIDE DEF f
  <1> DEFINE S == {k \in 0 .. n : f[k] \in B}
  <1>8. 0 \in S
    BY <1>1, <1>6 DEF KeptHistory
  <1>9. ASSUME NEW k \in 1 .. n, k - 1 \in S PROVE k \in S
    <2>1. k \in 0 .. n /\ k # 0 /\ f[k - 1] \in B
      BY <1>1, <1>9
    <2>2. f[k] = IF bms[k].url \in dead THEN f[k - 1] ELSE Append(f[k - 1], bms[k])
      BY <1>6, <2>1 DEF KeptHistory
    <2>3. f[k] = g[k][f[k - 1]]
      BY <1>2, <2>1, <2>2
    <2>4. QED
      BY <1>2, <2>1, <2>3
  <1>10. n \in S
    <2> HIDE DEF S
    <2>1. 0 .. n \subseteq S
      BY <1>1, <1>8, <1>9, UpTo
    <2>2. QED
      BY <1>1, <2>1
  <1>11. QED
    BY <1>7, <1>10 DEF B

-----------------------------------------------------------------------------
(* The inductive invariant.                                                *)

\* A url that is stored, with the variant v or one that a line has given since.
Standing(m, r, url, v) ==
    LET k == LastCopy(m, url)
    IN  k # 0 /\ (m[k].v = v \/ \E j \in DOMAIN r : r[j] = <<url, m[k].v>>)

AllStand(m, keys, r) ==
    /\ \A key \in keys : Standing(m, r, key[1], key[2])
    /\ \A i \in DOMAIN r : Standing(m, r, r[i][1], r[i][2])

ReadOrKnown == (cmd = "update" /\ override) => AllStand(mem, known, read)

Idling == cmd = "idle" => mem = <<>> /\ counts = NoFile.counts /\ read = <<>>

MarksInv ==
    /\ TypeOK
    /\ CountersAreRecount
    /\ UpdateAddsNoCopies
    /\ UpdateKeeps
    /\ ReadOrKnown
    /\ Idling

Lines == Urls \X Variants

LEMMA AppendAt ==
    ASSUME NEW S, NEW s \in Seq(S), NEW x \in S
    PROVE  /\ Append(s, x) \in Seq(S) /\ Len(Append(s, x)) = Len(s) + 1
           /\ Len(s) \in Nat
           /\ DOMAIN s = 1 .. Len(s) /\ DOMAIN Append(s, x) = 1 .. Len(s) + 1
           /\ \A i \in 1 .. Len(s) : Append(s, x)[i] = s[i]
           /\ Append(s, x)[Len(s) + 1] = x
  OBVIOUS

LEMMA StandingWithMoreRead ==
    ASSUME NEW m, NEW r \in Seq(Lines), NEW l \in Lines, NEW url, NEW v, Standing(m, r, url, v)
    PROVE  Standing(m, Append(r, l), url, v)
  <1> DEFINE k == LastCopy(m, url)
  <1>1. k # 0 /\ (m[k].v = v \/ \E j \in DOMAIN r : r[j] = <<url, m[k].v>>)
    BY DEF Standing
  <1>2. ASSUME NEW j \in DOMAIN r, r[j] = <<url, m[k].v>>
        PROVE  \E i \in DOMAIN Append(r, l) : Append(r, l)[i] = <<url, m[k].v>>
    <2>1. j \in DOMAIN Append(r, l) /\ Append(r, l)[j] = r[j]
      BY AppendAt
    <2>2. QED
      BY <1>2, <2>1
  <1>3. QED
    BY <1>1, <1>2 DEF Standing

\* After a line everything that stood does, and the line and one key more.
LEMMA AllStandAfter ==
    ASSUME NEW m, NEW keys, NEW r \in Seq(Lines), NEW m2, NEW keys2, NEW l \in Lines,
           AllStand(m, keys, r),
           \A url, v : Standing(m, r, url, v) => Standing(m2, Append(r, l), url, v),
           Standing(m2, Append(r, l), l[1], l[2]),
           \A key \in keys2 : key \in keys \/ Standing(m2, Append(r, l), key[1], key[2])
    PROVE  AllStand(m2, keys2, Append(r, l))
  <1>1. ASSUME NEW key \in keys2 PROVE Standing(m2, Append(r, l), key[1], key[2])
    BY DEF AllStand
  <1>2. ASSUME NEW i \in DOMAIN Append(r, l)
        PROVE  Standing(m2, Append(r, l), Append(r, l)[i][1], Append(r, l)[i][2])
    <2>1. CASE i \in DOMAIN r
      <3>1. Append(r, l)[i] = r[i]
        BY <2>1, AppendAt
      <3>2. Standing(m, r, r[i][1], r[i][2])
        BY <2>1 DEF AllStand
      <3>3. QED
        BY <3>1, <3>2
    <2>2. CASE i \notin DOMAIN r
      <3>1. Append(r, l)[i] = l
        <4>1. /\ Len(r) \in Nat /\ DOMAIN r = 1 .. Len(r) /\ Append(r, l)[Len(r) + 1] = l
              /\ DOMAIN Append(r, l) = 1 .. Len(r) + 1
          BY AppendAt
        <4>2. i = Len(r) + 1
          BY <2>2, <4>1
        <4>3. QED
          BY <4>1, <4>2
      <3>2. QED
        BY <3>1
    <2>3. QED
      BY <2>1, <2>2
  <1>3. QED
    BY <1>1, <1>2 DEF AllStand

\* The line that has just been read is among those read.
LEMMA JustRead ==
    ASSUME NEW r \in Seq(Lines), NEW l \in Lines
    PROVE  \E j \in DOMAIN Append(r, l) : Append(r, l)[j] = l
  <1>1. /\ DOMAIN Append(r, l) = 1 .. Len(r) + 1 /\ Len(r) \in Nat
        /\ Append(r, l)[Len(r) + 1] = l
    BY AppendAt
  <1>2. Len(r) + 1 \in DOMAIN Append(r, l)
    BY <1>1
  <1>3. QED
    BY <1>1, <1>2

LEMMA StandingRefreshed ==
    ASSUME NEW m \in Seq(Bookmark), NEW r \in Seq(Lines), NEW b \in Bookmark,
           NEW new \in Bookmark, new.url = b.url, new.v = b.v, LastCopy(m, b.url) # 0
    PROVE  LET m2 == [m EXCEPT ![LastCopy(m, b.url)] = new]
               r2 == Append(r, <<b.url, b.v>>)
           IN  /\ \A v : Standing(m2, r2, b.url, v)
               /\ \A url, v : Standing(m, r, url, v) => Standing(m2, r2, url, v)
  <1> DEFINE k  == LastCopy(m, b.url)
             l  == <<b.url, b.v>>
             m2 == [m EXCEPT ![k] = new]
             r2 == Append(r, l)
  <1>1. k \in 1 .. Len(m) /\ m[k] \in Bookmark /\ m[k].url = b.url
    BY OldIsACopy
  <1>2. l \in Lines
    BY DEF Bookmark, Lines
  <1>3. k # 0
    OBVIOUS
  <1> HIDE DEF k, l
  <1>4. /\ m2 \in Seq(Bookmark) /\ Len(m2) = Len(m) /\ m2[k] = new
        /\ \A i \in 1 .. Len(m) : i # k => m2[i] = m[i]
    BY <1>1
  <1> HIDE DEF m2, r2
  <1>5. \A i \in 1 .. Len(m) : m2[i].url = m[i].url
    BY <1>1, <1>4
  <1>6. \A url : LastCopy(m2, url) = LastCopy(m, url)
    BY <1>4, <1>5, LastCopyOfSame
  <1>7. ASSUME NEW v PROVE Standing(m2, r2, b.url, v)
    <2>1. LastCopy(m2, b.url) = k
      BY <1>6 DEF k
    <2>2. \E j \in DOMAIN r2 : r2[j] = l
      BY <1>2, JustRead DEF r2
    <2>3. l = <<b.url, m2[k].v>>
      BY <1>4 DEF l
    <2>4. QED
      BY <1>3, <2>1, <2>2, <2>3 DEF Standing
  <1>8. ASSUME NEW url, NEW v, Standing(m, r, url, v) PROVE Standing(m2, r2, url, v)
    <2>1. CASE url = b.url
      BY <1>7, <2>1
    <2>2. CASE url # b.url
      <3> DEFINE o == LastCopy(m, url)
      <3>1. o # 0
        BY <1>8 DEF Standing
      <3>2. o \in 1 .. Len(m) /\ m[o].url = url
        BY <3>1, OldIsACopy
      <3>3. o # k /\ m2[o] = m[o]
        BY <1>1, <1>4, <2>2, <3>2
      <3>4. Standing(m, r2, url, v)
        BY <1>2, <1>8, StandingWithMoreRead DEF r2
      <3>5. LastCopy(m2, url) = o
        BY <1>6
      <3> HIDE DEF o
      <3>6. QED
        BY <3>3, <3>4, <3>5 DEF Standing, o
    <2>3. QED
      BY <2>1, <2>2
  <1>9. QED
    BY <1>7, <1>8 DEF m2, r2, k, l

LEMMA StandingAdded ==
    ASSUME NEW m \in Seq(Bookmark), NEW r \in Seq(Lines), NEW b \in Bookmark,
           LastCopy(m, b.url) = 0
    PROVE  LET m2 == Append(m, b)
               r2 == Append(r, <<b.url, b.v>>)
           IN  /\ Standing(m2, r2, b.url, b.v)
               /\ \A url, v : Standing(m, r, url, v) => Standing(m2, r2, url, v)
  <1> DEFINE l  == <<b.url, b.v>>
             m2 == Append(m, b)
             r2 == Append(r, l)
  <1>1. l \in Lines
    BY DEF Bookmark, Lines
  <1>2. \A url : LastCopy(m2, url) = IF b.url = url THEN Len(m) + 1 ELSE LastCopy(m, url)
    BY LastCopyOfMore
  <1>3. /\ Len(m) \in Nat /\ \A i \in 1 .. Len(m) : m2[i] = m[i]
        /\ m2[Len(m) + 1] = b
    BY AppendAt
  <1> HIDE DEF l, m2, r2
  <1>4. Standing(m2, r2, b.url, b.v)
    <2>1. LastCopy(m2, b.url) = Len(m) + 1 /\ Len(m) + 1 # 0
      BY <1>2, <1>3
    <2>2. m2[LastCopy(m2, b.url)].v = b.v
      BY <1>3, <2>1
    <2>3. QED
      BY <2>1, <2>2 DEF Standing
  <1>5. ASSUME NEW url, NEW v, Standing(m, r, url, v) PROVE Standing(m2, r2, url, v)
    <2> DEFINE o == LastCopy(m, url)
    <2>1. o # 0
      BY <1>5 DEF Standing
    <2>2. o \in 1 .. Len(m)
      BY <2>1, OldIsACopy
    <2>3. url # b.url
      BY <2>1
    <2>4. LastCopy(m2, url) = o /\ m2[o] = m[o]
      BY <1>2, <1>3, <2>2, <2>3
    <2>5. Standing(m, r2, url, v)
      BY <1>1, <1>5, StandingWithMoreRead DEF r2
    <2> HIDE DEF o
    <2>6. QED
      BY <2>4, <2>5 DEF Standing, o
  <1>6. QED
    BY <1>4, <1>5 DEF l, m2, r2

-----------------------------------------------------------------------------
(* The steps.                                                              *)

LEMMA RecountNothing == Recount(<<>>) = NoFile.counts
  <1>1. <<>> \in Seq(Bookmark) /\ Len(<<>>) = 0
    OBVIOUS
  <1>2. QED
    BY <1>1, RecountHasHistory

FileRight(file) ==
    /\ file.exists \in BOOLEAN /\ file.bms \in Seq(Bookmark) /\ file.counts \in Counters
    /\ file.counts = Recount(file.bms)

LEMMA WrittenRight ==
    ASSUME NEW bms \in Seq(Bookmark), NEW c, c = Recount(bms), Write(bms, c)
    PROVE  FileRight(disk')
  <1>1. disk' = [exists |-> TRUE, bms |-> Sorted(bms), counts |-> c]
    BY DEF Write
  <1>2. Sorted(bms) \in Seq(Bookmark) /\ Recount(Sorted(bms)) = c
    BY SortedByPlace, RecountSorted
  <1>3. c \in Counters
    BY RecountIsPlaces
  <1>4. QED
    BY <1>1, <1>2, <1>3 DEF FileRight

LEMMA InvIsFileRight == MarksInv => FileRight(disk) /\ counts \in Counters /\ mem \in Seq(Bookmark)
  BY DEF MarksInv, TypeOK, CountersAreRecount, FileRight

LEMMA IdleRight ==
    ASSUME FileRight(disk'), Idle
    PROVE  MarksInv'
  <1>1. /\ cmd' = "idle" /\ override' = FALSE /\ icons' = FALSE /\ changed' = FALSE /\ at' = 0
        /\ mem' = <<>> /\ counts' = NoFile.counts /\ known' = {} /\ iconCache' = {}
        /\ read' = <<>>
    BY DEF Idle
  <1>2. counts' \in Counters
    BY <1>1, NoCounts
  <1>3. mem' \in Seq(Bookmark) /\ read' \in Seq(Urls \X Variants)
    BY <1>1
  <1>4. TypeOK'
    <2>1. disk'.exists \in BOOLEAN /\ disk'.bms \in Seq(Bookmark) /\ disk'.counts \in Counters
      BY DEF FileRight
    <2>2. {override', icons', changed'} \subseteq BOOLEAN /\ at' \in Categories \union {0}
      BY <1>1
    <2>3. QED
      BY <1>1, <1>2, <1>3, <2>1, <2>2 DEF TypeOK
  <1>5. CountersAreRecount'
    BY <1>1 DEF CountersAreRecount, FileRight
  <1>6. UpdateAddsNoCopies' /\ UpdateKeeps' /\ ReadOrKnown'
    BY <1>1 DEF UpdateAddsNoCopies, UpdateKeeps, ReadOrKnown
  <1>7. Idling'
    BY <1>1 DEF Idling
  <1>8. QED
    BY <1>4, <1>5, <1>6, <1>7 DEF MarksInv

LEMMA MarksInvInit == Init => MarksInv
  <1> SUFFICES ASSUME Init PROVE MarksInv
    OBVIOUS
  <1>1. /\ disk = NoFile /\ cmd = "idle" /\ override = FALSE /\ icons = FALSE /\ changed = FALSE
        /\ at = 0 /\ mem = <<>> /\ counts = NoFile.counts /\ known = {} /\ iconCache = {}
        /\ read = <<>>
    BY DEF Init
  <1>2. counts \in Counters /\ NoFile.exists = FALSE /\ NoFile.bms = <<>>
    BY <1>1, NoCounts DEF NoFile
  <1>3. mem \in Seq(Bookmark) /\ read \in Seq(Urls \X Variants)
    BY <1>1
  <1>4. TypeOK
    <2>1. {override, icons, changed} \subseteq BOOLEAN /\ at \in Categories \union {0}
      BY <1>1
    <2>2. disk.exists \in BOOLEAN /\ disk.bms \in Seq(Bookmark) /\ disk.counts \in Counters
      BY <1>1, <1>2, <1>3
    <2>3. QED
      BY <1>1, <1>2, <1>3, <2>1, <2>2 DEF TypeOK
  <1>5. CountersAreRecount
    BY <1>1, <1>2, RecountNothing DEF CountersAreRecount
  <1>6. UpdateAddsNoCopies /\ UpdateKeeps /\ ReadOrKnown
    BY <1>1 DEF UpdateAddsNoCopies, UpdateKeeps, ReadOrKnown
  <1>7. Idling
    BY <1>1 DEF Idling
  <1>8. QED
    BY <1>4, <1>5, <1>6, <1>7 DEF MarksInv

LEMMA StartCreateKeeps ==
    ASSUME MarksInv, StartCreate
    PROVE  MarksInv'
  <1>1. /\ cmd = "idle" /\ cmd' = "create" /\ icons' \in BOOLEAN
        /\ UNCHANGED <<disk, override, mem, counts, known, changed, at, read>>
    BY DEF StartCreate
  <1>2. iconCache' \subseteq Channels
    BY DEF StartCreate
  <1>3. mem = <<>> /\ counts = NoFile.counts /\ read = <<>>
    BY <1>1 DEF MarksInv, Idling
  <1>4. TypeOK'
    BY <1>1, <1>2 DEF MarksInv, TypeOK
  <1>5. CountersAreRecount'
    BY <1>1, <1>3, RecountNothing DEF MarksInv, CountersAreRecount
  <1>6. UpdateAddsNoCopies' /\ UpdateKeeps' /\ ReadOrKnown' /\ Idling'
    BY <1>1 DEF UpdateAddsNoCopies, UpdateKeeps, ReadOrKnown, Idling
  <1>7. QED
    BY <1>4, <1>5, <1>6 DEF MarksInv

\* The keys at the start of an update stand.
LEMMA KnownStand ==
    ASSUME NEW bms \in Seq(Bookmark)
    PROVE  /\ Known(bms) \subseteq Urls \X Variants \X BOOLEAN
           /\ AllStand(bms, Known(bms), <<>>)
  <1>1. ASSUME NEW key \in Known(bms)
        PROVE  key \in Urls \X Variants \X BOOLEAN /\ Standing(bms, <<>>, key[1], key[2])
    <2>1. PICK url \in Urls : LastCopy(bms, url) # 0 /\ key = Key(bms[LastCopy(bms, url)])
      BY DEF Known
    <2> DEFINE b == bms[LastCopy(bms, url)]
    <2>2. b \in Bookmark /\ b.url = url
      BY <2>1, OldIsACopy
    <2>3. key = <<url, b.v, b.icon>>
      BY <2>1, <2>2 DEF Key
    <2> HIDE DEF b
    <2>4. key \in Urls \X Variants \X BOOLEAN /\ key[1] = url /\ key[2] = b.v
      BY <2>2, <2>3 DEF Bookmark
    <2>5. Standing(bms, <<>>, url, b.v)
      BY <2>1 DEF Standing, b
    <2>6. QED
      BY <2>4, <2>5
  <1>2. DOMAIN <<>> = {}
    OBVIOUS
  <1>3. QED
    BY <1>1, <1>2 DEF AllStand

LEMMA StartUpdateKeeps ==
    ASSUME MarksInv, StartUpdate
    PROVE  MarksInv'
  <1>1. /\ cmd = "idle" /\ cmd' = "update" /\ override' \in BOOLEAN /\ icons' \in BOOLEAN
        /\ mem' = disk.bms /\ counts' = disk.counts /\ known' = Known(disk.bms)
        /\ UNCHANGED <<disk, changed, at, read>>
    BY DEF StartUpdate
  <1>2. iconCache' \subseteq Channels
    BY DEF StartUpdate
  <1>3. FileRight(disk) /\ read = <<>>
    BY <1>1, InvIsFileRight DEF MarksInv, Idling
  <1>4. disk.bms \in Seq(Bookmark) /\ disk.counts \in Counters /\ disk.counts = Recount(disk.bms)
    BY <1>3 DEF FileRight
  <1>5. /\ Known(disk.bms) \subseteq Urls \X Variants \X BOOLEAN
        /\ AllStand(disk.bms, Known(disk.bms), <<>>)
    BY <1>4, KnownStand
  <1>6. TypeOK'
    BY <1>1, <1>2, <1>4, <1>5 DEF MarksInv, TypeOK
  <1>7. CountersAreRecount'
    BY <1>1, <1>4 DEF CountersAreRecount
  <1>8. UpdateAddsNoCopies'
    <2>1. ASSUME NEW url \in Urls PROVE Copies(mem', url) <= Max({1, Copies(disk'.bms, url)})
      <3> DEFINE n == Copies(disk.bms, url)
      <3>1. n \in Nat
        BY <1>4, CopiesCount
      <3> HIDE DEF n
      <3>2. Max({1, n}) = IF 1 >= n THEN 1 ELSE n
        BY <3>1, GreaterOf
      <3>3. n <= Max({1, n})
        BY <3>1, <3>2
      <3>4. QED
        BY <1>1, <3>3 DEF n
    <2>2. QED
      BY <2>1 DEF UpdateAddsNoCopies
  <1>9. UpdateKeeps'
    BY <1>1 DEF UpdateKeeps
  <1>10. ReadOrKnown' /\ Idling'
    BY <1>1, <1>3, <1>5 DEF ReadOrKnown, Idling
  <1>11. QED
    BY <1>6, <1>7, <1>8, <1>9, <1>10 DEF MarksInv

LEMMA TakeReads ==
    ASSUME MarksInv, NEW b \in Bookmark, Take(b)
    PROVE  /\ <<b.url, b.v>> \in Lines
           /\ read \in Seq(Lines) /\ read' = Append(read, <<b.url, b.v>>)
           /\ read' \in Seq(Urls \X Variants)
           /\ at' \in Categories \union {0} /\ iconCache' \subseteq Channels
           /\ UNCHANGED <<disk, cmd, override, icons>>
  <1>1. b.url \in Urls /\ b.v \in Variants /\ b.cat \in Categories
    BY DEF Bookmark
  <1>2. <<b.url, b.v>> \in Lines /\ read \in Seq(Lines) /\ iconCache \subseteq Channels
    BY <1>1 DEF MarksInv, TypeOK, Lines
  <1>3. /\ read' = Append(read, <<b.url, b.v>>) /\ at' = b.cat
        /\ UNCHANGED <<disk, cmd, override, icons>>
        /\ \E found \in IconFor(b.url, b.v) : iconCache' = found.cache
    BY DEF Take
  <1>4. \A found \in IconFor(b.url, b.v) : found.cache \subseteq Channels
    <2>1. CASE ~icons \/ b.url \notin Channels
      BY <1>2, <2>1 DEF IconFor
    <2>2. CASE icons /\ b.url \in Channels
      BY <1>2, <2>2 DEF IconFor
    <2>3. QED
      BY <2>1, <2>2
  <1>5. read' \in Seq(Urls \X Variants)
    BY <1>2, <1>3, AppendAt DEF Lines
  <1>6. QED
    BY <1>1, <1>2, <1>3, <1>4, <1>5

\* What a step that reads a line has to show.
LEMMA LineKeeps ==
    ASSUME MarksInv, NEW b \in Bookmark, Take(b), cmd \in {"create", "update"},
           mem' \in Seq(Bookmark), counts' = Recount(mem'),
           known' \subseteq Urls \X Variants \X BOOLEAN, changed' \in BOOLEAN,
           UpdateAddsNoCopies', UpdateKeeps', ReadOrKnown'
    PROVE  MarksInv'
  <1>1. /\ read' \in Seq(Urls \X Variants) /\ at' \in Categories \union {0}
        /\ iconCache' \subseteq Channels /\ UNCHANGED <<disk, cmd, override, icons>>
    BY TakeReads
  <1>2. counts' \in Counters
    BY RecountIsPlaces
  <1>3. TypeOK
    BY DEF MarksInv
  <1>4. TypeOK'
    BY <1>1, <1>2, <1>3 DEF TypeOK
  <1>5. CountersAreRecount'
    BY <1>1 DEF MarksInv, CountersAreRecount
  <1>6. Idling'
    BY <1>1 DEF Idling
  <1>7. QED
    BY <1>4, <1>5, <1>6 DEF MarksInv

LEMMA CreateLineKeeps ==
    ASSUME MarksInv, NEW b \in Bookmark, CreateLine(b)
    PROVE  MarksInv'
  <1>1. /\ cmd = "create" /\ Take(b) /\ UNCHANGED <<known, changed>>
        /\ mem' = Append(mem, b) /\ counts' = Adjust(counts, b, 1)
    BY DEF CreateLine
  <1>2. cmd' = "create"
    BY <1>1 DEF Take
  <1>3. mem \in Seq(Bookmark) /\ counts = Recount(mem)
    BY <1>1 DEF MarksInv, TypeOK, CountersAreRecount
  <1>4. mem' \in Seq(Bookmark) /\ counts' = Recount(mem')
    BY <1>1, <1>3, AppendAt, RecountAppend
  <1>5. known' \subseteq Urls \X Variants \X BOOLEAN /\ changed' \in BOOLEAN
    BY <1>1 DEF MarksInv, TypeOK
  <1>6. UpdateAddsNoCopies' /\ UpdateKeeps' /\ ReadOrKnown'
    BY <1>2 DEF UpdateAddsNoCopies, UpdateKeeps, ReadOrKnown
  <1>7. QED
    BY <1>1, <1>4, <1>5, <1>6, LineKeeps

\* A line that is passed over changes nothing; under --override, it gives a key that
\* is known.
LEMMA PassedOver ==
    ASSUME MarksInv, NEW b \in Bookmark, Take(b), cmd = "update",
           override => Key(b) \in known,
           UNCHANGED <<mem, counts, known, changed>>
    PROVE  MarksInv'
  <1>1. /\ <<b.url, b.v>> \in Lines /\ read \in Seq(Lines) /\ read' = Append(read, <<b.url, b.v>>)
        /\ UNCHANGED <<disk, cmd, override, icons>>
    BY TakeReads
  <1>2. mem' \in Seq(Bookmark) /\ counts' = Recount(mem')
    BY DEF MarksInv, TypeOK, CountersAreRecount
  <1>3. known' \subseteq Urls \X Variants \X BOOLEAN /\ changed' \in BOOLEAN
    BY DEF MarksInv, TypeOK
  <1>4. UpdateAddsNoCopies' /\ UpdateKeeps'
    BY <1>1 DEF MarksInv, UpdateAddsNoCopies, UpdateKeeps
  <1>5. ReadOrKnown'
    <2> SUFFICES ASSUME override PROVE AllStand(mem, known, read')
      BY <1>1 DEF ReadOrKnown
    <2> DEFINE l == <<b.url, b.v>>
    <2>1. l \in Lines /\ l[1] = b.url /\ l[2] = b.v
      BY <1>1
    <2>2. AllStand(mem, known, read)
      BY DEF MarksInv, ReadOrKnown
    <2>3. Standing(mem, read, b.url, b.v)
      <3>1. Key(b) \in known /\ Key(b)[1] = b.url /\ Key(b)[2] = b.v
        BY DEF Key
      <3>2. QED
        BY <2>2, <3>1 DEF AllStand
    <2> HIDE DEF l
    <2>4. \A url, v : Standing(mem, read, url, v) => Standing(mem, Append(read, l), url, v)
      BY <1>1, <2>1, StandingWithMoreRead
    <2>5. Standing(mem, Append(read, l), l[1], l[2])
      BY <2>1, <2>3, <2>4
    <2>6. AllStand(mem, known, Append(read, l))
      BY <1>1, <2>1, <2>2, <2>4, <2>5, AllStandAfter
    <2>7. QED
      BY <1>1, <2>6 DEF l
  <1>6. QED
    BY <1>2, <1>3, <1>4, <1>5, LineKeeps

LEMMA UpdatedIs ==
    ASSUME NEW old \in Bookmark, NEW b \in Bookmark
    PROVE  /\ Updated(old, b) \in Bookmark
           /\ Updated(old, b).url = b.url /\ Updated(old, b).v = b.v
           /\ Updated(old, b).cat = old.cat
           /\ old.icon => Updated(old, b).icon
  BY DEF Bookmark, Updated

LEMMA RefreshKeeps ==
    ASSUME MarksInv, NEW b \in Bookmark, Refresh(b)
    PROVE  MarksInv'
  <1> DEFINE k   == Old(b.url)
             old == mem[k]
             new == Updated(old, b)
  <1>1. /\ cmd = "update" /\ k # 0 /\ override /\ Take(b) /\ changed' = TRUE
        /\ mem' = [mem EXCEPT ![k] = new] /\ counts' = Recounted(counts, old, new)
        /\ known' = known \union {Key(new)}
    BY DEF Refresh
  <1>2. /\ <<b.url, b.v>> \in Lines /\ read \in Seq(Lines) /\ read' = Append(read, <<b.url, b.v>>)
        /\ UNCHANGED <<disk, cmd, override, icons>>
    BY <1>1, TakeReads
  <1>3. mem \in Seq(Bookmark) /\ counts = Recount(mem)
    BY <1>1 DEF MarksInv, TypeOK, CountersAreRecount
  <1>4. k \in 1 .. Len(mem) /\ old \in Bookmark /\ old.url = b.url
    BY <1>1, <1>3, OldIsACopy DEF Old
  <1>5. /\ new \in Bookmark /\ new.url = b.url /\ new.v = b.v /\ new.cat = old.cat
        /\ old.icon => new.icon
    BY <1>4, UpdatedIs
  <1>6. LastCopy(mem, b.url) = k
    BY DEF Old
  <1> HIDE DEF k, new
  <1>7. /\ mem' \in Seq(Bookmark) /\ Len(mem') = Len(mem) /\ mem'[k] = new
        /\ \A i \in 1 .. Len(mem) : i # k => mem'[i] = mem[i]
    BY <1>1, <1>3, <1>4, <1>5
  <1>8. \A i \in 1 .. Len(mem) : mem'[i].url = mem[i].url
    BY <1>4, <1>5, <1>7
  <1>9. counts' = Recount(mem')
    BY <1>1, <1>3, <1>4, <1>5, RecountReplaced
  <1>10. known' \subseteq Urls \X Variants \X BOOLEAN
    <2>1. Key(new) \in Urls \X Variants \X BOOLEAN
      BY <1>5 DEF Key, Bookmark
    <2>2. QED
      BY <1>1, <2>1 DEF MarksInv, TypeOK
  <1>11. UpdateAddsNoCopies'
    <2>1. \A url : Copies(mem', url) = Copies(mem, url)
      BY <1>3, <1>7, <1>8, CopiesOfSame
    <2>2. QED
      BY <1>1, <1>2, <2>1 DEF MarksInv, UpdateAddsNoCopies
  <1>12. UpdateKeeps'
    <2>1. ASSUME NEW i \in DOMAIN disk.bms
          PROVE  /\ i \in DOMAIN mem'
                 /\ mem'[i].url = disk.bms[i].url /\ mem'[i].cat = disk.bms[i].cat
                 /\ disk.bms[i].icon => mem'[i].icon
      <3>1. /\ i \in DOMAIN mem
            /\ mem[i].url = disk.bms[i].url /\ mem[i].cat = disk.bms[i].cat
            /\ disk.bms[i].icon => mem[i].icon
        BY <1>1 DEF MarksInv, UpdateKeeps
      <3>2. DOMAIN mem = 1 .. Len(mem) /\ DOMAIN mem' = 1 .. Len(mem)
        BY <1>3, <1>7
      <3>3. mem'[i].cat = mem[i].cat /\ mem'[i].url = mem[i].url /\ (mem[i].icon => mem'[i].icon)
        BY <1>5, <1>7, <1>8, <3>1, <3>2
      <3>4. QED
        BY <3>1, <3>2, <3>3
    <2>2. QED
      BY <1>1, <1>2, <2>1 DEF UpdateKeeps
  <1>13. ReadOrKnown'
    <2> DEFINE l == <<b.url, b.v>>
    <2>1. l \in Lines /\ l[1] = b.url /\ l[2] = b.v /\ read' = Append(read, l)
      BY <1>2
    <2>2. /\ \A v : Standing(mem', read', b.url, v)
          /\ \A url, v : Standing(mem, read, url, v) => Standing(mem', read', url, v)
      <3>1. /\ mem' = [mem EXCEPT ![LastCopy(mem, b.url)] = new]
            /\ LastCopy(mem, b.url) # 0
        BY <1>1, <1>6
      <3>2. QED
        BY <1>2, <1>3, <1>5, <3>1, StandingRefreshed, Zenon
    <2>3. AllStand(mem, known, read)
      BY <1>1 DEF MarksInv, ReadOrKnown
    <2>4. Key(new)[1] = b.url
      BY <1>5 DEF Key
    <2>5. \A key \in known' : key \in known \/ Standing(mem', read', key[1], key[2])
      BY <1>1, <2>2, <2>4
    <2> HIDE DEF l
    <2>6. AllStand(mem', known', Append(read, l))
      <3>1. \A url, v : Standing(mem, read, url, v) => Standing(mem', Append(read, l), url, v)
        BY <2>1, <2>2
      <3>2. Standing(mem', Append(read, l), l[1], l[2])
        BY <2>1, <2>2
      <3>3. \A key \in known' : key \in known \/ Standing(mem', Append(read, l), key[1], key[2])
        BY <2>1, <2>5
      <3>4. read \in Seq(Lines) /\ l \in Lines
        BY <1>2, <2>1
      <3>5. QED
        BY <2>3, <3>1, <3>2, <3>3, <3>4, AllStandAfter, Zenon
    <2>7. QED
      BY <2>1, <2>6 DEF ReadOrKnown
  <1>14. QED
    BY <1>1, <1>7, <1>9, <1>10, <1>11, <1>12, <1>13, LineKeeps

LEMMA AddNewKeeps ==
    ASSUME MarksInv, NEW b \in Bookmark, AddNew(b)
    PROVE  MarksInv'
  <1>1. /\ cmd = "update" /\ Old(b.url) = 0 /\ Take(b) /\ changed' = TRUE
        /\ mem' = Append(mem, b) /\ counts' = Adjust(counts, b, 1)
        /\ known' = known \union {Key(b)}
    BY DEF AddNew
  <1>2. /\ <<b.url, b.v>> \in Lines /\ read \in Seq(Lines) /\ read' = Append(read, <<b.url, b.v>>)
        /\ UNCHANGED <<disk, cmd, override, icons>>
    BY <1>1, TakeReads
  <1>3. mem \in Seq(Bookmark) /\ counts = Recount(mem) /\ LastCopy(mem, b.url) = 0
    BY <1>1 DEF MarksInv, TypeOK, CountersAreRecount, Old
  <1>4. /\ mem' \in Seq(Bookmark) /\ DOMAIN mem \subseteq DOMAIN mem'
        /\ \A i \in DOMAIN mem : mem'[i] = mem[i]
    BY <1>1, <1>3, AppendAt
  <1>5. counts' = Recount(mem')
    BY <1>1, <1>3, RecountAppend
  <1>6. known' \subseteq Urls \X Variants \X BOOLEAN
    <2>1. Key(b) \in Urls \X Variants \X BOOLEAN
      BY DEF Key, Bookmark
    <2>2. QED
      BY <1>1, <2>1 DEF MarksInv, TypeOK
  <1>7. UpdateAddsNoCopies'
    <2>1. ASSUME NEW url \in Urls PROVE Copies(mem', url) <= Max({1, Copies(disk.bms, url)})
      <3>1. Copies(mem', url) = Copies(mem, url) + (IF b.url = url THEN 1 ELSE 0)
        BY <1>1, <1>3, CopiesOfMore
      <3>2. CASE b.url # url
        <4>1. Copies(mem, url) \in Nat
          BY <1>3, CopiesCount
        <4>2. Copies(mem', url) = Copies(mem, url)
          BY <3>1, <3>2, <4>1
        <4>3. QED
          BY <1>1, <4>2 DEF MarksInv, UpdateAddsNoCopies
      <3>3. CASE b.url = url
        <4> DEFINE n == Copies(disk.bms, url)
        <4>1. Copies(mem', url) = 1
          BY <1>3, <3>1, <3>3, NoCopyNoLast
        <4>2. n \in Nat
          <5>1. disk.bms \in Seq(Bookmark)
            BY DEF MarksInv, TypeOK
          <5>2. QED
            BY <5>1, CopiesCount
        <4> HIDE DEF n
        <4>3. Max({1, n}) = IF 1 >= n THEN 1 ELSE n
          BY <4>2, GreaterOf
        <4>4. 1 <= Max({1, n})
          BY <4>2, <4>3
        <4>5. QED
          BY <4>1, <4>4 DEF n
      <3>4. QED
        BY <3>2, <3>3
    <2>2. QED
      BY <1>2, <2>1 DEF UpdateAddsNoCopies
  <1>8. UpdateKeeps'
    <2>1. ASSUME NEW i \in DOMAIN disk.bms PROVE i \in DOMAIN mem /\ i \in DOMAIN mem' /\ mem'[i] = mem[i]
      <3>1. i \in DOMAIN mem
        BY <1>1 DEF MarksInv, UpdateKeeps
      <3>2. QED
        BY <1>4, <3>1
    <2>2. QED
      BY <1>1, <1>2, <2>1 DEF MarksInv, UpdateKeeps
  <1>9. ReadOrKnown'
    <2> SUFFICES ASSUME override PROVE AllStand(mem', known', read')
      BY <1>2 DEF ReadOrKnown
    <2> DEFINE l == <<b.url, b.v>>
    <2>1. l \in Lines /\ l[1] = b.url /\ l[2] = b.v /\ read' = Append(read, l)
      BY <1>2
    <2>2. /\ Standing(mem', read', b.url, b.v)
          /\ \A url, v : Standing(mem, read, url, v) => Standing(mem', read', url, v)
      BY <1>1, <1>2, <1>3, StandingAdded
    <2>3. AllStand(mem, known, read)
      BY <1>1 DEF MarksInv, ReadOrKnown
    <2>4. Key(b)[1] = b.url /\ Key(b)[2] = b.v
      BY DEF Key
    <2>5. \A key \in known' : key \in known \/ Standing(mem', read', key[1], key[2])
      BY <1>1, <2>2, <2>4
    <2> HIDE DEF l
    <2>6. AllStand(mem', known', Append(read, l))
      <3>1. \A url, v : Standing(mem, read, url, v) => Standing(mem', Append(read, l), url, v)
        BY <2>1, <2>2
      <3>2. Standing(mem', Append(read, l), l[1], l[2])
        BY <2>1, <2>2
      <3>3. \A key \in known' : key \in known \/ Standing(mem', Append(read, l), key[1], key[2])
        BY <2>1, <2>5
      <3>4. read \in Seq(Lines) /\ l \in Lines
        BY <1>2, <2>1
      <3>5. QED
        BY <2>3, <3>1, <3>2, <3>3, <3>4, AllStandAfter, Zenon
    <2>7. QED
      BY <2>1, <2>6
  <1>10. QED
    BY <1>1, <1>4, <1>5, <1>6, <1>7, <1>8, <1>9, LineKeeps

LEMMA FindDeadKeeps ==
    ASSUME MarksInv, FindDead
    PROVE  MarksInv'
  <1>1. PICK dead \in SUBSET Urls :
           Write(Healthy(disk.bms, dead), Recount(Healthy(disk.bms, dead)))
    BY DEF FindDead
  <1>2. cmd = "idle" /\ UNCHANGED run
    BY DEF FindDead
  <1>3. disk.bms \in Seq(Bookmark)
    BY DEF MarksInv, TypeOK
  <1>4. FileRight(disk')
    BY <1>1, <1>3, HealthyAreBookmarks, WrittenRight
  <1>5. UNCHANGED <<cmd, override, icons, mem, counts, known, iconCache, changed, at, read>>
    BY <1>2 DEF run
  <1>6. TypeOK'
    BY <1>4, <1>5 DEF MarksInv, TypeOK, FileRight
  <1>7. CountersAreRecount'
    BY <1>2, <1>4, <1>5 DEF CountersAreRecount, FileRight
  <1>8. UpdateAddsNoCopies' /\ UpdateKeeps' /\ ReadOrKnown'
    BY <1>2, <1>5 DEF UpdateAddsNoCopies, UpdateKeeps, ReadOrKnown
  <1>9. Idling'
    BY <1>5 DEF MarksInv, Idling
  <1>10. QED
    BY <1>6, <1>7, <1>8, <1>9 DEF MarksInv

LEMMA MarksInvNext == MarksInv /\ [Next]_vars => MarksInv'
  <1> SUFFICES ASSUME MarksInv, [Next]_vars PROVE MarksInv'
    OBVIOUS
  <1>1. FileRight(disk) /\ mem \in Seq(Bookmark)
    BY InvIsFileRight
  <1>2. cmd # "idle" => counts = Recount(mem)
    BY DEF MarksInv, CountersAreRecount
  <1>3. CASE StartCreate
    BY <1>3, StartCreateKeeps
  <1>4. CASE StartUpdate
    BY <1>4, StartUpdateKeeps
  <1>5. ASSUME NEW b \in Bookmark, CreateLine(b) PROVE MarksInv'
    BY <1>5, CreateLineKeeps
  <1>6. ASSUME NEW b \in Bookmark, SkipExact(b) PROVE MarksInv'
    BY <1>6, PassedOver DEF SkipExact
  <1>7. ASSUME NEW b \in Bookmark, SkipUrl(b) PROVE MarksInv'
    BY <1>7, PassedOver DEF SkipUrl
  <1>8. ASSUME NEW b \in Bookmark, Refresh(b) PROVE MarksInv'
    BY <1>8, RefreshKeeps
  <1>9. ASSUME NEW b \in Bookmark, AddNew(b) PROVE MarksInv'
    BY <1>9, AddNewKeeps
  <1>10. CASE FinishCreate \/ FinishUpdate
    <2>1. cmd # "idle" /\ Write(mem, counts) /\ Idle
      BY <1>10 DEF FinishCreate, FinishUpdate
    <2>2. FileRight(disk')
      BY <1>1, <1>2, <2>1, WrittenRight
    <2>3. QED
      BY <2>1, <2>2, IdleRight
  <1>11. CASE FinishNothing \/ Interrupt
    <2>1. UNCHANGED disk /\ Idle
      BY <1>11 DEF FinishNothing, Interrupt
    <2>2. FileRight(disk')
      BY <1>1, <2>1
    <2>3. QED
      BY <2>1, <2>2, IdleRight
  <1>12. CASE FindDead
    BY <1>12, FindDeadKeeps
  <1>13. CASE UNCHANGED vars
    BY <1>13 DEF vars, run, MarksInv, TypeOK, CountersAreRecount, UpdateAddsNoCopies,
                 UpdateKeeps, ReadOrKnown, Idling, Old
  <1>14. QED
    BY <1>3, <1>4, <1>5, <1>6, <1>7, <1>8, <1>9, <1>10, <1>11, <1>12, <1>13 DEF Next, ReadLine

-----------------------------------------------------------------------------

\* The invariant holds throughout: for any categories, urls and variants.
THEOREM MarksInvariant == Spec => []MarksInv
  <1>1. Init => MarksInv
    BY MarksInvInit
  <1>2. MarksInv /\ [Next]_vars => MarksInv'
    BY MarksInvNext
  <1>3. QED
    BY <1>1, <1>2, PTL DEF Spec

\* Every variable keeps its type; a refreshed bookmark is a bookmark, and what sorting
\* and find-dead write is a database.
THEOREM MarksTypeOK == Spec => []TypeOK
  <1>1. MarksInv => TypeOK
    BY DEF MarksInv
  <1>2. QED
    BY <1>1, MarksInvariant, PTL

\* The counters that create, update and --override keep by adding and taking away
\* (adjust_counters), and those that a sorted or thinned out file carries, are what
\* recalc_counters would give, however long the database and the commands.
THEOREM MarksCountersAreRecount == Spec => []CountersAreRecount
  <1>1. MarksInv => CountersAreRecount
    BY DEF MarksInv
  <1>2. QED
    BY <1>1, MarksInvariant, PTL

\* cmd_update never makes a second copy of a url.
THEOREM MarksUpdateAddsNoCopies == Spec => []UpdateAddsNoCopies
  <1>1. MarksInv => UpdateAddsNoCopies
    BY DEF MarksInv
  <1>2. QED
    BY <1>1, MarksInvariant, PTL

\* An update loses no bookmark, no category and no icon of the file, and without
\* --override it changes none.
THEOREM MarksUpdateKeeps == Spec => []UpdateKeeps
  <1>1. MarksInv => UpdateKeeps
    BY DEF MarksInv
  <1>2. QED
    BY <1>1, MarksInvariant, PTL

\* With --override, the copy of a url that an update compares with has what one of the
\* lines read for that url says, whether the lines refreshed it, added it or were
\* passed over as known.
THEOREM MarksOverrideTakesALine == Spec => []OverrideTakesALine
  <1>1. MarksInv => OverrideTakesALine
    <2> SUFFICES ASSUME MarksInv, cmd = "update", override, NEW i \in DOMAIN read
                 PROVE  \E j \in DOMAIN read : read[j] = <<read[i][1], mem[Old(read[i][1])].v>>
      BY DEF OverrideTakesALine
    <2> DEFINE url == read[i][1]
               v   == read[i][2]
    <2>1. Standing(mem, read, url, v)
      BY DEF MarksInv, ReadOrKnown, AllStand
    <2>2. read[i] = <<url, v>>
      <3>1. read \in Seq(Urls \X Variants)
        BY DEF MarksInv, TypeOK
      <3>2. read[i] \in Urls \X Variants
        BY <3>1
      <3>3. QED
        BY <3>2
    <2> HIDE DEF url, v
    <2>3. mem[Old(url)].v = v \/ \E j \in DOMAIN read : read[j] = <<url, mem[Old(url)].v>>
      BY <2>1 DEF Standing, Old
    <2>4. \E j \in DOMAIN read : read[j] = <<url, mem[Old(url)].v>>
      BY <2>2, <2>3
    <2>5. QED
      BY <2>4 DEF url
  <1>2. QED
    BY <1>1, MarksInvariant, PTL

=============================================================================
