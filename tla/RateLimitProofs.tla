--------------------------- MODULE RateLimitProofs ---------------------------
(***************************************************************************)
(* The properties of the rate limiter, for every number of addresses, any  *)
(* hash function, any limit, and any size the table grows to.              *)
(***************************************************************************)
EXTENDS RateLimit, Lemmas, FiniteSetTheorems

-----------------------------------------------------------------------------
(* The inductive invariant.                                                *)

\* The table of n slots is one: an unused entry counts nothing, none counts too much.
Sound(t, n) ==
    /\ n \in Nat \ {0}
    /\ t \in [Slots(n) -> Entry]
    /\ \A s \in Slots(n) : t[s].ip = NoIP => t[s].count = 0
    /\ \A s \in Slots(n) : t[s].count <= MaxPerIp

Named(t, n) == {s \in Slots(n) : t[s].ip # NoIP}
Live(t, n)  == {s \in Slots(n) : t[s].count > 0}

\* The entry with which ip is counted, if there is one, is what a probe for ip finds.
Foremost(t, n, ip) ==
    \A e \in Live(t, n) : t[e].ip = ip =>
        \A s \in Slots(n) : Before(n, ip, s, e) => t[s].ip \notin {NoIP, ip}

\* The table t of n slots, with u for `used', is right for a[ip] connections of each
\* ip, if B are the addresses that were cut off.
Right(t, n, u, B, a) ==
    /\ Sound(t, n)
    /\ u \in Nat /\ u >= Cardinality(Named(t, n))
    /\ \A ip \in IPs : a[ip] = Cardinality(Counted(t, n, ip))
    /\ \A ip \in IPs \ B : Foremost(t, n, ip)

RateLimitInv == TypeOK /\ Right(table, size, used, bypassed, active)

-----------------------------------------------------------------------------
(* Linear probing.                                                         *)

\* A probe of n steps looks at each of n slots once.
LEMMA ProbeIsBijection ==
    ASSUME NEW n \in Nat \ {0}, NEW ip \in IPs, hash \in [IPs -> HashValues]
    PROVE  /\ \A i \in Slots(n) : Probe(n, ip, i) \in Slots(n)
           /\ \A i, j \in Slots(n) : Probe(n, ip, i) = Probe(n, ip, j) => i = j
           /\ \A s \in Slots(n) : \E i \in Slots(n) : Probe(n, ip, i) = s
  BY RateLimitAssumption, ProbesMeetAll DEF Probe, Slots

\* FirstOf is in the set, and nothing before it on the path is.
LEMMA FirstOfIsFirst ==
    ASSUME NEW n \in Nat \ {0}, NEW ip \in IPs, hash \in [IPs -> HashValues],
           NEW S \in SUBSET Slots(n), S # {}
    PROVE  /\ FirstOf(n, ip, S) \in S
           /\ \A s \in S : s # FirstOf(n, ip, S) => Before(n, ip, FirstOf(n, ip, S), s)
           /\ \A s \in S : ~Before(n, ip, s, FirstOf(n, ip, S))
  <1> DEFINE Hits == {i \in Slots(n) : Probe(n, ip, i) \in S}
             IsFirst(i) == /\ Probe(n, ip, i) \in S
                           /\ \A j \in 0 .. i - 1 : Probe(n, ip, j) \notin S
             f == CHOOSE i \in Slots(n) : IsFirst(i)
  <1>1. Hits \in SUBSET Nat /\ Hits # {}
    <2>1. PICK s \in S : TRUE
      OBVIOUS
    <2>2. \E i \in Slots(n) : Probe(n, ip, i) = s
      BY ProbeIsBijection
    <2>3. QED
      BY <2>2 DEF Slots
  <1>2. PICK m \in Hits : \A i \in Hits : m <= i
    <2> HIDE DEF Hits
    <2> QED BY <1>1, LeastElement
  <1>3. m \in Slots(n) /\ IsFirst(m)
    BY <1>2 DEF Slots
  <1>4. f \in Slots(n) /\ IsFirst(f)
    <2> HIDE DEF IsFirst
    <2> QED BY <1>3
  <1>5. FirstOf(n, ip, S) = Probe(n, ip, f)
    BY DEF FirstOf
  <1> HIDE DEF f, Hits
  <1>6. ASSUME NEW s \in S, s # FirstOf(n, ip, S) PROVE Before(n, ip, FirstOf(n, ip, S), s)
    <2>1. PICK i \in Slots(n) : Probe(n, ip, i) = s
      BY ProbeIsBijection
    <2>2. f < i
      BY <1>4, <1>5, <1>6, <2>1 DEF Slots
    <2>3. QED
      BY <1>4, <1>5, <2>1, <2>2 DEF Before
  <1>7. ASSUME NEW s \in S PROVE ~Before(n, ip, s, FirstOf(n, ip, S))
    <2>1. SUFFICES ASSUME NEW i \in Slots(n), NEW j \in Slots(n), i < j,
                          Probe(n, ip, i) = s, Probe(n, ip, j) = Probe(n, ip, f)
                   PROVE  FALSE
      BY <1>5 DEF Before
    <2>2. j = f
      BY <1>4, <2>1, ProbeIsBijection
    <2>3. i \in 0 .. f - 1
      BY <2>1, <2>2 DEF Slots
    <2>4. QED
      BY <1>4, <2>1, <2>3
  <1>8. QED
    BY <1>4, <1>5, <1>6, <1>7

\* Two slots are in one order on a path.
LEMMA BeforeIsOrder ==
    ASSUME NEW n \in Nat \ {0}, NEW ip \in IPs, hash \in [IPs -> HashValues]
    PROVE  /\ \A s, e \in Slots(n) : s # e => Before(n, ip, s, e) \/ Before(n, ip, e, s)
           /\ \A s \in Slots(n) : ~Before(n, ip, s, s)
           /\ \A s, e : Before(n, ip, s, e) => s \in Slots(n) /\ e \in Slots(n) /\ s # e
  <1>1. ASSUME NEW s \in Slots(n), NEW e \in Slots(n), s # e
        PROVE  Before(n, ip, s, e) \/ Before(n, ip, e, s)
    <2>1. PICK i \in Slots(n), j \in Slots(n) : Probe(n, ip, i) = s /\ Probe(n, ip, j) = e
      BY ProbeIsBijection
    <2>2. i < j \/ j < i
      BY <1>1, <2>1 DEF Slots
    <2>3. QED
      BY <2>1, <2>2 DEF Before
  <1>2. ASSUME NEW s, NEW e, Before(n, ip, s, e)
        PROVE  s \in Slots(n) /\ e \in Slots(n) /\ s # e
    <2>1. PICK i \in Slots(n), j \in Slots(n) :
                  i < j /\ Probe(n, ip, i) = s /\ Probe(n, ip, j) = e
      BY <1>2 DEF Before
    <2>2. i # j
      BY <2>1 DEF Slots
    <2>3. QED
      BY <2>1, <2>2, ProbeIsBijection
  <1>3. QED
    BY <1>1, <1>2

-----------------------------------------------------------------------------
(* ratelimit_grow.                                                         *)

\* T is the table of 2 * n slots after the first k slots of t, which has n: m says
\* where the live ones are now, and there is nothing else.
Rehashed(t, n, k, T, m) ==
    /\ m \in [Live(t, n) \intersect Slots(k) -> Slots(2 * n)]
    /\ \A x, y \in DOMAIN m : m[x] = m[y] => x = y
    /\ \A x \in DOMAIN m : T[m[x]] = t[x]
    /\ \A d \in Slots(2 * n) : (\A x \in DOMAIN m : m[x] # d) => T[d] = Empty

\* A probe that ends at a live entry has passed live ones only.
Packed(T, n) ==
    \A e \in Live(T, n), s \in Slots(n) : Before(n, T[e].ip, s, e) => T[s].count > 0

\* The values that the recursion of Rehash goes through.
RehashHistory(f, t, n) ==
    f = [k \in 0 .. n |-> IF k = 0 THEN [s \in Slots(2 * n) |-> Empty]
                          ELSE Reinserted(f[k - 1], 2 * n, t[k - 1])]

LEMMA EmptyIsEntry == Empty \in Entry
  BY DEF Empty, Entry

LEMMA ReinsertedType ==
    ASSUME NEW n, NEW t \in [Slots(n) -> Entry], NEW e \in Entry
    PROVE  Reinserted(t, n, e) \in [Slots(n) -> Entry]
  BY DEF Reinserted

LEMMA RehashHasHistory ==
    ASSUME NEW n \in Nat \ {0}, NEW t \in [Slots(n) -> Entry]
    PROVE  \E f : /\ RehashHistory(f, t, n)
                  /\ \A k \in 0 .. n : f[k] \in [Slots(2 * n) -> Entry]
                  /\ Rehash(t, n) = f[n]
  <1> DEFINE V == [Slots(2 * n) -> Entry]
             base == [s \in Slots(2 * n) |-> Empty]
             g == [k \in 1 .. n |-> [T \in V |-> Reinserted(T, 2 * n, t[k - 1])]]
  <1>1. base \in V
    BY EmptyIsEntry
  <1>2. \A k \in 1 .. n, T \in V : g[k][T] = Reinserted(T, 2 * n, t[k - 1])
    OBVIOUS
  <1>3. Steps(g, n, V)
    <2> SUFFICES ASSUME NEW k \in 1 .. n, NEW T \in V
                 PROVE  Reinserted(T, 2 * n, t[k - 1]) \in V
      BY <1>2 DEF Steps
    <2>1. t[k - 1] \in Entry
      BY DEF Slots
    <2>2. QED
      BY <2>1, ReinsertedType
  <1> HIDE DEF V, base, g
  <1>4. PICK h : IsHistory(h, g, n, V, base)
    <2>1. n \in Nat
      OBVIOUS
    <2>2. QED
      BY <1>1, <1>3, <2>1, Iteration
  <1>5. RehashHistory(h, t, n)
    <2>1. ASSUME NEW k \in 0 .. n, k # 0 PROVE h[k] = Reinserted(h[k - 1], 2 * n, t[k - 1])
      <3>1. k \in 1 .. n /\ k - 1 \in 0 .. n
        BY <2>1
      <3>2. QED
        BY <3>1, <1>2, <1>4 DEF IsHistory
    <2>2. h = [k \in 0 .. n |-> IF k = 0 THEN base ELSE Reinserted(h[k - 1], 2 * n, t[k - 1])]
      BY <1>4, <2>1 DEF IsHistory
    <2>3. QED
      BY <2>2 DEF RehashHistory, base
  <1> DEFINE f == CHOOSE f : RehashHistory(f, t, n)
  <1>6. RehashHistory(f, t, n)
    BY <1>5
  <1>7. Rehash(t, n) = f[n]
    BY DEF Rehash, RehashHistory
  <1> HIDE DEF f
  <1> DEFINE S == {k \in 0 .. n : f[k] \in V}
  <1>8. f[0] = base /\ \A k \in 1 .. n : f[k] = Reinserted(f[k - 1], 2 * n, t[k - 1])
    BY <1>6 DEF RehashHistory, base
  <1>9. 0 .. n \subseteq S
    <2>1. 0 \in S
      BY <1>1, <1>8
    <2>2. ASSUME NEW k \in 1 .. n, k - 1 \in S PROVE k \in S
      <3>1. t[k - 1] \in Entry
        BY DEF Slots
      <3>2. Reinserted(f[k - 1], 2 * n, t[k - 1]) \in V
        BY <2>2, <3>1, ReinsertedType DEF V
      <3>3. QED
        BY <1>8, <3>2
    <2> HIDE DEF S
    <2>3. QED
      BY <2>1, <2>2, UpTo
  <1>10. QED
    BY <1>6, <1>7, <1>9 DEF V

LEMMA SlotsFinite ==
    ASSUME NEW n \in Nat
    PROVE  IsFiniteSet(Slots(n)) /\ Cardinality(Slots(n)) = n
  BY FS_Interval DEF Slots

\* The new table always has room: it is larger than the old one.
LEMMA RoomLeft ==
    ASSUME NEW n \in Nat \ {0}, NEW k \in 0 .. n, NEW t, NEW T, NEW m,
           Rehashed(t, n, k, T, m)
    PROVE  \E d \in Slots(2 * n) : T[d].count = 0
  <1> SUFFICES ASSUME \A d \in Slots(2 * n) : T[d].count # 0 PROVE FALSE
    OBVIOUS
  <1> DEFINE D == Live(t, n) \intersect Slots(k)
  <1>1. \A d \in Slots(2 * n) : \E x \in D : m[x] = d
    BY DEF Rehashed, Empty
  <1>2. m \in Surjection(D, Slots(2 * n))
    BY <1>1 DEF Rehashed, Surjection
  <1>3. IsFiniteSet(Slots(k)) /\ Cardinality(Slots(k)) = k /\ D \in SUBSET Slots(k)
    BY SlotsFinite
  <1>4. IsFiniteSet(D) /\ Cardinality(D) <= k
    BY <1>3, FS_Subset
  <1>5. Cardinality(Slots(2 * n)) <= Cardinality(D)
    BY <1>2, <1>4, FS_Surjection
  <1>6. Cardinality(Slots(2 * n)) = 2 * n /\ Cardinality(D) \in Nat
    BY <1>4, SlotsFinite, FS_CardinalityType
  <1>7. QED
    BY <1>4, <1>5, <1>6

LEMMA RehashStep ==
    ASSUME NEW n \in Nat \ {0}, NEW t, Sound(t, n), hash \in [IPs -> HashValues],
           NEW k \in 1 .. n, NEW T \in [Slots(2 * n) -> Entry], NEW m,
           Rehashed(t, n, k - 1, T, m), Packed(T, 2 * n)
    PROVE  LET T2 == Reinserted(T, 2 * n, t[k - 1])
           IN  Packed(T2, 2 * n) /\ \E m2 : Rehashed(t, n, k, T2, m2)
  <1> DEFINE e == t[k - 1]
             T2 == Reinserted(T, 2 * n, e)
             N == 2 * n
  <1>0. /\ k - 1 \in Slots(n) /\ e \in Entry /\ k - 1 \in 0 .. n /\ N \in Nat \ {0}
        /\ Slots(k) = Slots(k - 1) \union {k - 1} /\ k - 1 \notin Slots(k - 1)
    BY DEF Slots, Sound
  <1>1. CASE e.count = 0
    <2>1. T2 = T
      BY <1>1 DEF Reinserted
    <2>2. Live(t, n) \intersect Slots(k) = Live(t, n) \intersect Slots(k - 1)
      BY <1>0, <1>1 DEF Live
    <2>3. Rehashed(t, n, k, T, m)
      BY <2>2 DEF Rehashed
    <2>4. QED
      BY <2>1, <2>3
  <1>2. CASE e.count # 0
    <2> DEFINE free == {s \in Slots(N) : T[s].count = 0}
               d == FirstOf(N, e.ip, free)
               m2 == [x \in Live(t, n) \intersect Slots(k) |-> IF x = k - 1 THEN d ELSE m[x]]
    <2>1. T2 = [T EXCEPT ![d] = e]
      BY <1>2 DEF Reinserted
    <2>2. free # {} /\ free \in SUBSET Slots(N)
      BY <1>0, RoomLeft
    <2>3. e.ip \in IPs /\ e.count \in Nat /\ e.count > 0
      BY <1>0, <1>2 DEF Sound, Entry
    <2> HIDE DEF free, d, T2, e, N
    <2>4. /\ d \in free
          /\ \A s \in free : ~Before(N, e.ip, s, d)
      BY <1>0, <2>2, <2>3, FirstOfIsFirst DEF d
    <2>5. d \in Slots(N) /\ T[d].count = 0
      BY <2>4 DEF free
    <2>6. T2[d] = e /\ \A s \in Slots(N) : s # d => T2[s] = T[s]
      BY <2>1, <2>5 DEF N
    <2>7. Packed(T2, N)
      <3> SUFFICES ASSUME NEW x \in Live(T2, N), NEW s \in Slots(N), Before(N, T2[x].ip, s, x)
                   PROVE  T2[s].count > 0
        BY DEF Packed
      <3>1. CASE s = d
        BY <2>3, <2>6, <3>1
      <3>2. CASE s # d /\ x = d
        <4>1. s \notin free
          BY <2>4, <2>6, <3>2
        <4>2. T[s] \in Entry
          BY DEF N
        <4>3. QED
          BY <2>6, <3>2, <4>1, <4>2 DEF free, Entry
      <3>3. CASE s # d /\ x # d
        <4>1. x \in Live(T, N) /\ T2[x] = T[x]
          BY <2>6, <3>3 DEF Live
        <4>2. T[s].count > 0
          BY <4>1 DEF Packed, N
        <4>3. QED
          BY <2>6, <3>3, <4>2
      <3>4. QED
        BY <3>1, <3>2, <3>3
    <2>8. Rehashed(t, n, k, T2, m2)
      <3> DEFINE D == Live(t, n) \intersect Slots(k)
                 Old == Live(t, n) \intersect Slots(k - 1)
      <3>1. D = Old \union {k - 1} /\ k - 1 \notin Old
        BY <1>0, <2>3 DEF Live, e
      <3>2. m \in [Old -> Slots(N)] /\ DOMAIN m = Old
        BY DEF Rehashed, N
      <3>3. DOMAIN m2 = D /\ m2[k - 1] = d /\ \A x \in Old : m2[x] = m[x]
        BY <3>1
      <3> HIDE DEF m2, D, Old
      <3>4. \A x \in Old : m[x] # d
        <4>1. \A x \in Old : T[m[x]] = t[x] /\ t[x].count > 0
          BY <3>2 DEF Rehashed, Live, Old
        <4>2. QED
          BY <2>5, <4>1
      <3>5. m2 \in [D -> Slots(N)]
        BY <2>5, <3>1, <3>2, <3>3 DEF m2, D, Old
      <3>6. \A x, y \in D : m2[x] = m2[y] => x = y
        <4>1. \A x, y \in Old : m[x] = m[y] => x = y
          BY <3>2 DEF Rehashed
        <4>2. QED
          BY <3>1, <3>3, <3>4, <4>1
      <3>7. \A x \in D : T2[m2[x]] = t[x]
        <4>1. \A x \in Old : T2[m2[x]] = t[x]
          BY <2>6, <3>2, <3>3, <3>4 DEF Rehashed
        <4>2. T2[m2[k - 1]] = t[k - 1]
          BY <2>6, <3>3 DEF e
        <4>3. QED
          BY <3>1, <4>1, <4>2
      <3>8. \A s \in Slots(N) : (\A x \in D : m2[x] # s) => T2[s] = Empty
        <4> SUFFICES ASSUME NEW s \in Slots(N), \A x \in D : m2[x] # s
                     PROVE  T2[s] = Empty
          OBVIOUS
        <4>1. s # d
          BY <3>1, <3>3
        <4>2. \A x \in Old : m[x] # s
          BY <3>1, <3>3
        <4>3. T[s] = Empty
          BY <3>2, <4>2 DEF Rehashed, N
        <4>4. QED
          BY <2>6, <4>1, <4>3
      <3>9. QED
        BY <3>3, <3>5, <3>6, <3>7, <3>8 DEF Rehashed, N, D
    <2>9. QED
      BY <2>7, <2>8 DEF N, T2, e
  <1>3. QED
    BY <1>1, <1>2

\* What ratelimit_grow makes of a table.
LEMMA RehashResult ==
    ASSUME NEW n \in Nat \ {0}, NEW t, Sound(t, n), hash \in [IPs -> HashValues]
    PROVE  /\ Rehash(t, n) \in [Slots(2 * n) -> Entry]
           /\ Packed(Rehash(t, n), 2 * n)
           /\ \E m : Rehashed(t, n, n, Rehash(t, n), m)
  <1>0. t \in [Slots(n) -> Entry]
    BY DEF Sound
  <1>1. PICK f : /\ RehashHistory(f, t, n)
                 /\ \A k \in 0 .. n : f[k] \in [Slots(2 * n) -> Entry]
                 /\ Rehash(t, n) = f[n]
    BY <1>0, RehashHasHistory
  <1>2. /\ f[0] = [s \in Slots(2 * n) |-> Empty]
        /\ \A k \in 1 .. n : f[k] = Reinserted(f[k - 1], 2 * n, t[k - 1])
    BY <1>1 DEF RehashHistory
  <1> DEFINE S == {k \in 0 .. n : Packed(f[k], 2 * n) /\ \E m : Rehashed(t, n, k, f[k], m)}
  <1>3. 0 \in S
    <2>1. Live(t, n) \intersect Slots(0) = {}
      BY DEF Slots
    <2>2. Rehashed(t, n, 0, f[0], [x \in {} |-> 0])
      BY <1>2, <2>1 DEF Rehashed
    <2>3. Packed(f[0], 2 * n)
      BY <1>2 DEF Packed, Live, Empty
    <2>4. QED
      BY <2>2, <2>3
  <1>4. ASSUME NEW k \in 1 .. n, k - 1 \in S PROVE k \in S
    <2>1. k - 1 \in 0 .. n /\ f[k - 1] \in [Slots(2 * n) -> Entry]
      BY <1>1
    <2>2. PICK m : Rehashed(t, n, k - 1, f[k - 1], m)
      BY <1>4
    <2>3. Packed(f[k - 1], 2 * n)
      BY <1>4
    <2>4. Packed(f[k], 2 * n) /\ \E m2 : Rehashed(t, n, k, f[k], m2)
      BY <1>2, <2>1, <2>2, <2>3, RehashStep
    <2>5. QED
      BY <2>4
  <1>5. n \in S
    <2> HIDE DEF S
    <2>1. 0 .. n \subseteq S
      BY <1>3, <1>4, UpTo
    <2>2. QED
      BY <2>1
  <1>6. QED
    BY <1>1, <1>5

-----------------------------------------------------------------------------
(* Counting.                                                               *)

LEMMA CountedElements ==
    ASSUME NEW t, NEW n, NEW ip
    PROVE  \A x : x \in Counted(t, n, ip) <=>
              \E s \in Slots(n) : \E k : k \in 1 .. t[s].count /\ t[s].ip = ip /\ x = <<s, k>>
  BY DEF Counted

LEMMA CountedFinite ==
    ASSUME NEW t, NEW n, Sound(t, n), NEW ip
    PROVE  IsFiniteSet(Counted(t, n, ip))
  <1>1. IsFiniteSet(Slots(n)) /\ IsFiniteSet(1 .. MaxPerIp)
    BY RateLimitAssumption, SlotsFinite, FS_Interval DEF Sound
  <1>2. IsFiniteSet(Slots(n) \X (1 .. MaxPerIp))
    BY <1>1, FS_Product
  <1>3. Counted(t, n, ip) \subseteq Slots(n) \X (1 .. MaxPerIp)
    <2> SUFFICES ASSUME NEW s \in Slots(n), NEW k \in 1 .. t[s].count
                 PROVE  k \in 1 .. MaxPerIp
      BY CountedElements
    <2>1. t[s].count \in Nat /\ t[s].count <= MaxPerIp
      BY DEF Sound, Entry
    <2>2. QED
      BY <2>1, RateLimitAssumption
  <1>4. QED
    BY <1>2, <1>3, FS_Subset

LEMMA NamedFinite ==
    ASSUME NEW t, NEW n \in Nat
    PROVE  IsFiniteSet(Named(t, n)) /\ Cardinality(Named(t, n)) \in Nat
  <1>1. Named(t, n) \in SUBSET Slots(n)
    BY DEF Named
  <1>2. QED
    BY <1>1, SlotsFinite, FS_Subset, FS_CardinalityType

\* Entries that move keep what they count.
LEMMA CountedMoved ==
    ASSUME NEW t, NEW n, Sound(t, n), NEW t2, NEW n2, NEW ip \in IPs,
           NEW m \in [Live(t, n) -> Slots(n2)],
           \A x, y \in Live(t, n) : m[x] = m[y] => x = y,
           \A x \in Live(t, n) : t2[m[x]] = t[x],
           \A d \in Slots(n2) : (\A x \in Live(t, n) : m[x] # d) => t2[d] = Empty
    PROVE  Cardinality(Counted(t2, n2, ip)) = Cardinality(Counted(t, n, ip))
  <1> DEFINE A == Counted(t, n, ip)
             B == Counted(t2, n2, ip)
             f == [x \in A |-> <<m[x[1]], x[2]>>]
  <1>1. \A x : x \in A <=>
            \E s \in Live(t, n) : \E k : k \in 1 .. t[s].count /\ t[s].ip = ip /\ x = <<s, k>>
    <2>1. \A s \in Slots(n) : t[s].count \in Nat
      BY DEF Sound, Entry
    <2>2. \A s \in Slots(n) : 1 .. t[s].count # {} => s \in Live(t, n)
      BY <2>1 DEF Live
    <2>3. QED
      BY <2>2, CountedElements DEF Live
  <1>2. \A y : y \in B <=>
            \E s \in Live(t, n) : \E k : k \in 1 .. t[s].count /\ t[s].ip = ip /\ y = <<m[s], k>>
    <2>1. ASSUME NEW y \in B
          PROVE  \E s \in Live(t, n) : \E k : k \in 1 .. t[s].count /\ t[s].ip = ip /\ y = <<m[s], k>>
      <3>1. PICK d \in Slots(n2) : \E k : k \in 1 .. t2[d].count /\ t2[d].ip = ip /\ y = <<d, k>>
        BY CountedElements
      <3> PICK k : k \in 1 .. t2[d].count /\ t2[d].ip = ip /\ y = <<d, k>>
        BY <3>1
      <3>2. t2[d] # Empty
        BY RateLimitAssumption DEF Empty
      <3>3. PICK s \in Live(t, n) : m[s] = d
        BY <3>2
      <3>4. QED
        BY <3>3
    <2>2. QED
      BY <2>1, CountedElements
  <1> HIDE DEF A, B
  <1>3. \A x \in A : x = <<x[1], x[2]>> /\ x[1] \in Live(t, n)
    BY <1>1
  <1>4. f \in [A -> B]
    BY <1>1, <1>2
  <1>5. \A x, y \in A : f[x] = f[y] => x = y
    <2> SUFFICES ASSUME NEW x \in A, NEW y \in A, f[x] = f[y] PROVE x = y
      OBVIOUS
    <2>1. m[x[1]] = m[y[1]] /\ x[2] = y[2]
      OBVIOUS
    <2>2. x[1] = y[1]
      BY <1>3, <2>1
    <2>3. QED
      BY <1>3, <2>1, <2>2
  <1>6. \A y \in B : \E x \in A : f[x] = y
    <2> SUFFICES ASSUME NEW y \in B PROVE \E x \in A : f[x] = y
      OBVIOUS
    <2>1. PICK s \in Live(t, n) : \E k : k \in 1 .. t[s].count /\ t[s].ip = ip /\ y = <<m[s], k>>
      BY <1>2
    <2> PICK k : k \in 1 .. t[s].count /\ t[s].ip = ip /\ y = <<m[s], k>>
      BY <2>1
    <2>2. <<s, k>> \in A
      BY <1>1
    <2>3. f[<<s, k>>] = y
      BY <2>2
    <2>4. QED
      BY <2>2, <2>3
  <1> HIDE DEF f
  <1>7. f \in Bijection(A, B)
    BY <1>4, <1>5, <1>6 DEF Bijection, Injection, Surjection, IsInjective
  <1>8. IsFiniteSet(A)
    BY CountedFinite DEF A
  <1>9. Cardinality(B) = Cardinality(A)
    BY <1>7, <1>8, FS_Bijection DEF ExistsBijection
  <1>10. QED
    BY <1>9 DEF A, B

-----------------------------------------------------------------------------
(* The table ratelimit_accept searches.                                    *)

\* ratelimit_sweep_stale leaves the table right, for fewer addresses.
LEMMA SweptIsRight ==
    ASSUME RateLimitInv
    PROVE  Right(Swept.table, Swept.size, Swept.used, bypassed \union CutOff, active)
  <1> DEFINE t == Swept.table
  <1>1. /\ Swept.size = size /\ Swept.used = used - Cardinality(Freed)
        /\ t = [s \in Slots(size) |-> IF s \in Freed THEN Empty ELSE table[s]]
    BY DEF Swept
  <1>2. /\ size \in Nat \ {0} /\ used \in Nat /\ Sound(table, size)
        /\ table \in [Slots(size) -> Entry]
    BY DEF RateLimitInv, TypeOK, Right
  <1>3. /\ Freed \in SUBSET Slots(size)
        /\ \A s \in Freed : table[s].count = 0 /\ table[s].ip # NoIP
    BY DEF Freed, Stale
  <1> HIDE DEF t
  <1>4. Sound(t, size)
    BY <1>1, <1>2, <1>3, EmptyIsEntry, RateLimitAssumption DEF Sound, Empty
  <1>5. /\ used - Cardinality(Freed) \in Nat
        /\ used - Cardinality(Freed) >= Cardinality(Named(t, size))
    <2>1. Named(t, size) = Named(table, size) \ Freed
      BY <1>1 DEF Named, Empty
    <2>2. Freed \subseteq Named(table, size)
      BY <1>3 DEF Named
    <2>3. IsFiniteSet(Named(table, size)) /\ Cardinality(Named(table, size)) \in Nat
      BY <1>2, NamedFinite
    <2>4. /\ Cardinality(Named(t, size)) = Cardinality(Named(table, size)) - Cardinality(Freed)
          /\ Cardinality(Freed) \in Nat
      <3>1. Named(table, size) \intersect Freed = Freed
        BY <2>2
      <3>2. QED
        BY <2>1, <2>2, <2>3, <3>1, FS_Difference, FS_Subset, FS_CardinalityType
    <2>5. used >= Cardinality(Named(table, size)) /\ Cardinality(Named(t, size)) \in Nat
      BY <1>2, NamedFinite DEF RateLimitInv, Right
    <2>6. QED
      BY <1>2, <2>3, <2>4, <2>5
  <1>6. ASSUME NEW ip \in IPs PROVE active[ip] = Cardinality(Counted(t, size, ip))
    <2>1. Counted(t, size, ip) = Counted(table, size, ip)
      <3>1. \A s \in Freed : 1 .. t[s].count = {} /\ 1 .. table[s].count = {}
        BY <1>1, <1>3 DEF Empty
      <3>2. \A s \in Slots(size) : s \notin Freed => t[s] = table[s]
        BY <1>1
      <3>3. \A x : x \in Counted(t, size, ip) <=> x \in Counted(table, size, ip)
        BY <3>1, <3>2, CountedElements
      <3>4. QED
        BY <3>3
    <2>2. QED
      BY <2>1 DEF RateLimitInv, Right
  <1>7. ASSUME NEW ip \in IPs \ (bypassed \union CutOff) PROVE Foremost(t, size, ip)
    <2> SUFFICES ASSUME NEW e \in Live(t, size), t[e].ip = ip,
                        NEW s \in Slots(size), Before(size, ip, s, e)
                 PROVE  t[s].ip \notin {NoIP, ip}
      BY DEF Foremost
    <2>1. e \in Live(table, size) /\ t[e] = table[e]
      BY <1>1, <1>3 DEF Live, Empty
    <2>2. table[s].ip \notin {NoIP, ip}
      BY <1>7, <2>1 DEF RateLimitInv, Right, Foremost
    <2>3. s \notin Freed
      BY <1>7, <2>1 DEF CutOff, Live
    <2>4. QED
      BY <1>1, <2>2, <2>3
  <1>8. QED
    BY <1>1, <1>4, <1>5, <1>6, <1>7 DEF Right, t

\* ratelimit_grow leaves it right.
LEMMA GrowIsRight ==
    ASSUME hash \in [IPs -> HashValues], NEW t, NEW n, NEW u, NEW B, NEW a,
           Right(t, n, u, B, a)
    PROVE  Right(Rehash(t, n), 2 * n, u, B, a)
  <1> DEFINE T == Rehash(t, n)
             N == 2 * n
  <1>1. n \in Nat \ {0} /\ N \in Nat \ {0} /\ Sound(t, n) /\ t \in [Slots(n) -> Entry]
    BY DEF Right, Sound
  <1>2. PICK m : Rehashed(t, n, n, T, m)
    BY <1>1, RehashResult
  <1>3. T \in [Slots(N) -> Entry] /\ Packed(T, N)
    BY <1>1, RehashResult
  <1> HIDE DEF T
  <1>4. Live(t, n) \intersect Slots(n) = Live(t, n)
    BY DEF Live
  <1>5. /\ m \in [Live(t, n) -> Slots(N)]
        /\ \A x, y \in Live(t, n) : m[x] = m[y] => x = y
        /\ \A x \in Live(t, n) : T[m[x]] = t[x]
        /\ \A d \in Slots(N) : (\A x \in Live(t, n) : m[x] # d) => T[d] = Empty
    BY <1>2, <1>4 DEF Rehashed
  <1> HIDE DEF N
  <1>6. \A x \in Live(t, n) : t[x].ip \in IPs /\ t[x].count \in Nat /\ t[x].count > 0
    BY <1>1 DEF Live, Sound, Entry
  <1>7. \A d \in Slots(N) : T[d] = Empty \/ \E x \in Live(t, n) : m[x] = d /\ T[d] = t[x]
    BY <1>5
  <1>8. Sound(T, N)
    <2>1. \A d \in Slots(N) : T[d].ip = NoIP => T[d].count = 0
      BY <1>6, <1>7, RateLimitAssumption DEF Empty
    <2>2. \A d \in Slots(N) : T[d].count <= MaxPerIp
      <3>1. \A x \in Live(t, n) : t[x].count <= MaxPerIp
        BY <1>1 DEF Sound, Live
      <3>2. Empty.count <= MaxPerIp
        BY RateLimitAssumption DEF Empty
      <3>3. QED
        BY <1>7, <3>1, <3>2
    <2>3. QED
      BY <1>1, <1>3, <2>1, <2>2 DEF Sound
  <1>9. u >= Cardinality(Named(T, N))
    <2>1. m \in Surjection(Live(t, n), Named(T, N))
      <3>1. \A x \in Live(t, n) : m[x] \in Named(T, N)
        BY <1>5, <1>6, RateLimitAssumption DEF Named
      <3>2. \A d \in Named(T, N) : \E x \in Live(t, n) : m[x] = d
        BY <1>7 DEF Named, Empty
      <3>3. m \in [Live(t, n) -> Named(T, N)]
        BY <1>5, <3>1
      <3>4. QED
        BY <3>2, <3>3 DEF Surjection
    <2>2. Live(t, n) \in SUBSET Named(t, n)
      BY <1>6, RateLimitAssumption DEF Live, Named
    <2>3. /\ IsFiniteSet(Live(t, n)) /\ Cardinality(Live(t, n)) \in Nat
          /\ Cardinality(Live(t, n)) <= Cardinality(Named(t, n))
      BY <1>1, <2>2, NamedFinite, FS_Subset, FS_CardinalityType
    <2>4. Cardinality(Named(T, N)) <= Cardinality(Live(t, n))
      BY <2>1, <2>3, FS_Surjection
    <2>5. Cardinality(Named(t, n)) \in Nat /\ Cardinality(Named(T, N)) \in Nat
      BY <1>1, NamedFinite
    <2>6. u \in Nat /\ u >= Cardinality(Named(t, n))
      BY DEF Right
    <2>7. QED
      BY <2>3, <2>4, <2>5, <2>6
  <1>10. ASSUME NEW ip \in IPs PROVE a[ip] = Cardinality(Counted(T, N, ip))
    <2>1. Cardinality(Counted(T, N, ip)) = Cardinality(Counted(t, n, ip))
      BY <1>1, <1>5, CountedMoved
    <2>2. QED
      BY <2>1 DEF Right
  <1>11. ASSUME NEW ip \in IPs \ B PROVE Foremost(T, N, ip)
    <2>1. \A x, y \in Live(t, n) : t[x].ip = ip /\ t[y].ip = ip => x = y
      <3>1. Foremost(t, n, ip)
        BY <1>11 DEF Right
      <3> SUFFICES ASSUME NEW x \in Live(t, n), NEW y \in Live(t, n),
                          t[x].ip = ip, t[y].ip = ip, x # y
                   PROVE  FALSE
        OBVIOUS
      <3>2. Before(n, ip, x, y) \/ Before(n, ip, y, x)
        BY <1>1, BeforeIsOrder DEF Live
      <3>3. QED
        BY <3>1, <3>2 DEF Foremost, Live
    <2> SUFFICES ASSUME NEW e \in Live(T, N), T[e].ip = ip,
                        NEW s \in Slots(N), Before(N, ip, s, e)
                 PROVE  T[s].ip \notin {NoIP, ip}
      BY DEF Foremost
    <2>2. T[s].count > 0
      BY <1>3 DEF Packed
    <2>3. s \in Live(T, N) /\ s # e
      BY <1>1, <2>2, BeforeIsOrder DEF Live
    <2>4. PICK x \in Live(t, n) : m[x] = s /\ T[s] = t[x]
      BY <1>7, <2>2 DEF Empty
    <2>5. PICK y \in Live(t, n) : m[y] = e /\ T[e] = t[y]
      BY <1>7 DEF Empty, Live
    <2>6. t[x].ip # ip
      BY <2>1, <2>3, <2>4, <2>5
    <2>7. QED
      BY <1>6, <2>4, <2>6, RateLimitAssumption
  <1>12. QED
    BY <1>8, <1>9, <1>10, <1>11 DEF Right, T, N

LEMMA PreparedIsRight ==
    ASSUME RateLimitInv, NEW r \in Prepared
    PROVE  Right(r.table, r.size, r.used, bypassed \union CutOff, active)
  <1>1. CASE r = Swept
    BY <1>1, SweptIsRight
  <1>2. CASE r = Grow(Swept)
    <2>1. /\ r.table = Rehash(Swept.table, Swept.size) /\ r.size = 2 * Swept.size
          /\ r.used = Swept.used
      BY <1>2 DEF Grow
    <2>2. QED
      BY <2>1, SweptIsRight, GrowIsRight DEF RateLimitInv, TypeOK
  <1>3. QED
    BY <1>1, <1>2 DEF Prepared

-----------------------------------------------------------------------------
(* One entry is changed.                                                   *)

\* One more connection of ip, in the slot at which a probe for ip ends.
LEMMA UpIsRight ==
    ASSUME hash \in [IPs -> HashValues],
           NEW t, NEW n, NEW u, NEW B, NEW a, Right(t, n, u, B, a),
           NEW ip \in IPs, NEW s \in Slots(n),
           t[s].ip \in {NoIP, ip}, t[s].count < MaxPerIp,
           \A e \in Slots(n) : Before(n, ip, e, s) => t[e].ip \notin {NoIP, ip},
           NEW t2 \in [Slots(n) -> Entry],
           t2[s].ip = ip, t2[s].count = t[s].count + 1,
           \A x \in Slots(n) : x # s => t2[x] = t[x],
           NEW a2, a2[ip] = a[ip] + 1, \A x \in IPs : x # ip => a2[x] = a[x]
    PROVE  Right(t2, n, IF t[s].ip = NoIP THEN u + 1 ELSE u, B, a2)
  <1> USE RateLimitAssumption
  <1>1. /\ n \in Nat \ {0} /\ Sound(t, n) /\ t \in [Slots(n) -> Entry]
        /\ t[s].count \in Nat /\ (t[s].ip = NoIP => t[s].count = 0)
        /\ u \in Nat /\ u >= Cardinality(Named(t, n))
    BY DEF Right, Sound, Entry
  <1>2. Sound(t2, n)
    <2>1. \A x \in Slots(n) : t2[x].ip = NoIP => t2[x].count = 0
      BY <1>1 DEF Sound
    <2>2. \A x \in Slots(n) : t2[x].count <= MaxPerIp
      BY <1>1 DEF Sound
    <2>3. QED
      BY <1>1, <2>1, <2>2 DEF Sound
  <1>3. /\ (IF t[s].ip = NoIP THEN u + 1 ELSE u) \in Nat
        /\ (IF t[s].ip = NoIP THEN u + 1 ELSE u) >= Cardinality(Named(t2, n))
    <2>1. Named(t2, n) = Named(t, n) \union {s}
      BY DEF Named
    <2>2. s \in Named(t, n) <=> t[s].ip # NoIP
      BY DEF Named
    <2>3. IsFiniteSet(Named(t, n)) /\ Cardinality(Named(t, n)) \in Nat
      BY <1>1, NamedFinite
    <2>4. Cardinality(Named(t2, n)) = IF t[s].ip # NoIP THEN Cardinality(Named(t, n))
                                      ELSE Cardinality(Named(t, n)) + 1
      <3> DEFINE N == Named(t, n)
      <3>1. Cardinality(N \union {s}) =
               IF s \in N THEN Cardinality(N) ELSE Cardinality(N) + 1
        <4> HIDE DEF N
        <4>1. IsFiniteSet(N)
          BY <2>3 DEF N
        <4>2. QED
          BY <4>1, FS_AddElement
      <3>2. QED
        BY <2>1, <2>2, <3>1, Zenon
    <2>5. QED
      BY <1>1, <2>3, <2>4
  <1>4. ASSUME NEW x \in IPs PROVE a2[x] = Cardinality(Counted(t2, n, x))
    <2>1. CASE x = ip
      <3> DEFINE one == <<s, t[s].count + 1>>
      <3>1. /\ \A k : k \in 1 .. t2[s].count <=> k \in 1 .. t[s].count \/ k = t[s].count + 1
            /\ t[s].ip # ip => 1 .. t[s].count = {}
            /\ t[s].count + 1 \notin 1 .. t[s].count
        BY <1>1
      <3>2. \A y : y \in Counted(t2, n, ip) <=> y \in Counted(t, n, ip) \/ y = one
        BY <3>1, CountedElements
      <3>3. one \notin Counted(t, n, ip)
        BY <3>1, CountedElements
      <3> HIDE DEF one
      <3>4. Counted(t2, n, ip) = Counted(t, n, ip) \union {one}
        BY <3>2
      <3>5. Cardinality(Counted(t2, n, ip)) = Cardinality(Counted(t, n, ip)) + 1
        <4>1. IsFiniteSet(Counted(t, n, ip))
          BY <1>1, CountedFinite
        <4>2. Cardinality(Counted(t, n, ip) \union {one}) = Cardinality(Counted(t, n, ip)) + 1
          BY <3>3, <4>1, FS_AddElement
        <4>3. QED
          BY <3>4, <4>2
      <3>6. QED
        BY <2>1, <3>5 DEF Right
    <2>2. CASE x # ip
      <3>1. t[s].ip # x /\ t2[s].ip # x
        BY <2>2
      <3>2. \A y : y \in Counted(t2, n, x) <=> y \in Counted(t, n, x)
        BY <3>1, CountedElements
      <3>3. Counted(t2, n, x) = Counted(t, n, x)
        BY <3>2
      <3>4. QED
        BY <2>2, <3>3 DEF Right
    <2>3. QED
      BY <2>1, <2>2
  <1>5. ASSUME NEW x \in IPs \ B PROVE Foremost(t2, n, x)
    <2> SUFFICES ASSUME NEW e \in Live(t2, n), t2[e].ip = x,
                        NEW y \in Slots(n), Before(n, x, y, e)
                 PROVE  t2[y].ip \notin {NoIP, x}
      BY DEF Foremost
    <2>1. y # e
      BY <1>1, BeforeIsOrder
    <2>2. CASE e = s
      BY <2>1, <2>2
    <2>3. CASE e # s
      <3>1. e \in Live(t, n) /\ t[e].ip = x
        BY <2>3 DEF Live
      <3>2. t[y].ip \notin {NoIP, x}
        BY <1>5, <3>1 DEF Right, Foremost
      <3>3. QED
        BY <3>2
    <2>4. QED
      BY <2>2, <2>3
  <1>6. QED
    BY <1>2, <1>3, <1>4, <1>5 DEF Right

\* One entry counts less or the same, for the same address.
LEMMA DownIsRight ==
    ASSUME hash \in [IPs -> HashValues],
           NEW t, NEW n, NEW u, NEW B, NEW a, Right(t, n, u, B, a),
           NEW ip \in IPs, NEW s \in Slots(n), t[s].ip = ip,
           NEW t2 \in [Slots(n) -> Entry], t2[s].ip = ip,
           t2[s].count = t[s].count \/ (t[s].count > 0 /\ t2[s].count = t[s].count - 1),
           \A x \in Slots(n) : x # s => t2[x] = t[x],
           NEW a2, a2[ip] = a[ip] - (t[s].count - t2[s].count),
           \A x \in IPs : x # ip => a2[x] = a[x]
    PROVE  Right(t2, n, u, B, a2)
  <1> USE RateLimitAssumption
  <1>1. /\ n \in Nat \ {0} /\ Sound(t, n) /\ t \in [Slots(n) -> Entry]
        /\ t[s].count \in Nat /\ t2[s].count \in Nat
    BY DEF Right, Sound, Entry
  <1>2. Sound(t2, n)
    <2>1. \A x \in Slots(n) : t2[x].ip = NoIP => t2[x].count = 0
      BY <1>1 DEF Sound
    <2>2. \A x \in Slots(n) : t2[x].count <= MaxPerIp
      <3>1. t[s].count <= MaxPerIp
        BY <1>1 DEF Sound
      <3>2. t2[s].count <= MaxPerIp
        BY <1>1, <3>1
      <3>3. QED
        BY <1>1, <3>2 DEF Sound
    <2>3. QED
      BY <1>1, <2>1, <2>2 DEF Sound
  <1>3. Named(t2, n) = Named(t, n)
    BY DEF Named
  <1>4. ASSUME NEW x \in IPs PROVE a2[x] = Cardinality(Counted(t2, n, x))
    <2>1. CASE x # ip
      <3>1. t[s].ip # x /\ t2[s].ip # x
        BY <2>1
      <3>2. \A y : y \in Counted(t2, n, x) <=> y \in Counted(t, n, x)
        BY <3>1, CountedElements
      <3>3. Counted(t2, n, x) = Counted(t, n, x)
        BY <3>2
      <3>4. QED
        BY <2>1, <3>3 DEF Right
    <2>2. IsFiniteSet(Counted(t, n, ip)) /\ Cardinality(Counted(t, n, ip)) \in Nat
      BY <1>1, CountedFinite, FS_CardinalityType
    <2>3. CASE x = ip /\ t2[s].count = t[s].count
      <3>1. \A y : y \in Counted(t2, n, ip) <=> y \in Counted(t, n, ip)
        BY <2>3, CountedElements
      <3>2. Counted(t2, n, ip) = Counted(t, n, ip)
        BY <3>1
      <3>3. a[ip] \in Nat /\ a2[ip] = a[ip]
        BY <1>1, <2>2, <2>3 DEF Right
      <3>4. QED
        BY <2>3, <3>2, <3>3 DEF Right
    <2>4. CASE x = ip /\ t2[s].count # t[s].count
      <3> DEFINE one == <<s, t[s].count>>
      <3>1. /\ \A k : k \in 1 .. t2[s].count <=> k \in 1 .. t[s].count /\ k # t[s].count
            /\ t[s].count \in 1 .. t[s].count
        BY <1>1, <2>4
      <3>2. \A y : y \in Counted(t2, n, ip) <=> y \in Counted(t, n, ip) /\ y # one
        BY <3>1, CountedElements
      <3>3. one \in Counted(t, n, ip)
        BY <3>1, CountedElements
      <3> HIDE DEF one
      <3>4. Counted(t2, n, ip) = Counted(t, n, ip) \ {one}
        BY <3>2
      <3>5. Cardinality(Counted(t2, n, ip)) = Cardinality(Counted(t, n, ip)) - 1
        <4>1. Cardinality(Counted(t, n, ip) \ {one})
                = IF one \in Counted(t, n, ip) THEN Cardinality(Counted(t, n, ip)) - 1
                  ELSE Cardinality(Counted(t, n, ip))
          BY <2>2, FS_RemoveElement
        <4>2. QED
          BY <3>3, <3>4, <4>1
      <3>6. a2[ip] = Cardinality(Counted(t, n, ip)) - 1
        BY <1>1, <2>2, <2>4 DEF Right
      <3>7. QED
        BY <2>4, <3>5, <3>6
    <2>5. QED
      BY <2>1, <2>3, <2>4
  <1>5. ASSUME NEW x \in IPs \ B PROVE Foremost(t2, n, x)
    <2> SUFFICES ASSUME NEW e \in Live(t2, n), t2[e].ip = x,
                        NEW y \in Slots(n), Before(n, x, y, e)
                 PROVE  t2[y].ip \notin {NoIP, x}
      BY DEF Foremost
    <2>1. e \in Live(t, n) /\ t[e].ip = x
      BY <1>1 DEF Live
    <2>2. t[y].ip \notin {NoIP, x}
      BY <1>5, <2>1 DEF Right, Foremost
    <2>3. QED
      BY <2>2
  <1>6. QED
    BY <1>2, <1>3, <1>4, <1>5 DEF Right

-----------------------------------------------------------------------------
(* The steps.                                                              *)

LEMMA InvFrom ==
    ASSUME TypeOK', hash' = hash, Right(table', size', used', bypassed', active')
    PROVE  RateLimitInv'
  BY DEF RateLimitInv, Right, Sound, Named, Live, Counted, Foremost, Before, Probe, Slots, Entry

LEMMA RateLimitInvInit == Init => RateLimitInv
  <1> SUFFICES ASSUME Init PROVE RateLimitInv
    OBVIOUS
  <1> USE RateLimitAssumption DEF Init
  <1>1. size \in Nat \ {0} /\ table \in [Slots(size) -> Entry] /\ \A s \in Slots(size) : table[s] = Empty
    BY EmptyIsEntry
  <1>2. TypeOK
    BY <1>1 DEF TypeOK
  <1>3. Sound(table, size)
    BY <1>1 DEF Sound, Empty
  <1>4. Named(table, size) = {}
    BY <1>1 DEF Named, Empty
  <1>5. \A ip \in IPs : Counted(table, size, ip) = {}
    BY <1>1 DEF Counted, Empty
  <1>6. \A ip \in IPs : Foremost(table, size, ip)
    BY <1>1 DEF Foremost, Live, Empty
  <1>7. Cardinality(Named(table, size)) = 0 /\ used = 0
    BY <1>4, FS_EmptySet
  <1>8. \A ip \in IPs : active[ip] = Cardinality(Counted(table, size, ip))
    BY <1>5, FS_EmptySet
  <1>9. QED
    BY <1>2, <1>3, <1>6, <1>7, <1>8 DEF RateLimitInv, Right

\* What every outcome of ratelimit_accept has in common.
LEMMA Settled ==
    ASSUME RateLimitInv, NEW r \in Prepared, NEW ip \in IPs, Ends(r, ip) # {}
    PROVE  LET s == FirstOf(r.size, ip, Ends(r, ip))
           IN  /\ s \in Slots(r.size) /\ r.table[s] \in Entry
               /\ r.table[s].ip \in {NoIP, ip}
               /\ r.table[s].ip = NoIP <=> Unused(r.table[s])
               /\ \A e \in Slots(r.size) :
                     Before(r.size, ip, e, s) => r.table[e].ip \notin {NoIP, ip}
  <1> DEFINE s == FirstOf(r.size, ip, Ends(r, ip))
  <1>1. Sound(r.table, r.size) /\ hash \in [IPs -> HashValues]
    BY PreparedIsRight DEF Right, RateLimitInv, TypeOK
  <1>2. r.size \in Nat \ {0} /\ Ends(r, ip) \in SUBSET Slots(r.size)
    BY <1>1 DEF Sound, Ends
  <1>3. s \in Ends(r, ip) /\ \A e \in Ends(r, ip) : ~Before(r.size, ip, e, s)
    BY <1>1, <1>2, FirstOfIsFirst
  <1>4. \A e \in Slots(r.size) : r.table[e].ip = NoIP => Unused(r.table[e])
    BY <1>1 DEF Sound, Unused
  <1> HIDE DEF s
  <1>5. s \in Slots(r.size) /\ r.table[s] \in Entry
    BY <1>1, <1>3 DEF Ends, Sound
  <1>6. r.table[s].ip \in {NoIP, ip}
    BY <1>3 DEF Ends, Unused
  <1>7. r.table[s].ip = NoIP <=> Unused(r.table[s])
    BY <1>4, <1>5 DEF Unused
  <1>8. \A e \in Slots(r.size) : Before(r.size, ip, e, s) => r.table[e].ip \notin {NoIP, ip}
    BY <1>3, <1>4 DEF Ends
  <1>9. QED
    BY <1>5, <1>6, <1>7, <1>8 DEF s

LEMMA SettleTypes ==
    ASSUME RateLimitInv, NEW r \in Prepared, NEW t \in [Slots(r.size) -> Entry], NEW n \in Nat,
           Settle(r, t, n), active' \in [IPs -> Nat]
    PROVE  TypeOK' /\ hash' = hash
  <1>1. r.size \in Nat \ {0}
    BY PreparedIsRight DEF Right, Sound
  <1>2. CutOff \subseteq IPs
    BY DEF CutOff
  <1>3. QED
    BY <1>1, <1>2 DEF Settle, TypeOK, RateLimitInv, Slots, Entry

\* The entry with its count set to c and its time to the clock.
LEMMA TouchedEntry ==
    ASSUME RateLimitInv, NEW r \in Prepared, NEW s \in Slots(r.size), NEW c \in Nat
    PROVE  /\ Touched(r, s, c) \in [Slots(r.size) -> Entry]
           /\ Touched(r, s, c)[s].ip = r.table[s].ip /\ Touched(r, s, c)[s].count = c
           /\ \A x \in Slots(r.size) : x # s => Touched(r, s, c)[x] = r.table[x]
  <1>1. r.table \in [Slots(r.size) -> Entry]
    BY PreparedIsRight DEF Right, Sound
  <1>2. clock \in Nat
    BY RateLimitAssumption DEF RateLimitInv, TypeOK
  <1>3. r.table[s] \in Entry
    BY <1>1
  <1> DEFINE e == [r.table[s] EXCEPT !.count = c, !.last = clock]
  <1>4. e \in Entry /\ e.ip = r.table[s].ip /\ e.count = c
    BY <1>2, <1>3 DEF Entry
  <1>5. Touched(r, s, c) = [r.table EXCEPT ![s] = e]
    BY <1>1 DEF Touched
  <1> HIDE DEF e
  <1>6. QED
    BY <1>1, <1>4, <1>5

LEMMA AcceptNewInv ==
    ASSUME RateLimitInv, NEW ip \in IPs, AcceptNew(ip)
    PROVE  RateLimitInv'
  <1>1. PICK r \in Prepared :
          /\ Ends(r, ip) # {}
          /\ Unused(r.table[FirstOf(r.size, ip, Ends(r, ip))])
          /\ LET s == FirstOf(r.size, ip, Ends(r, ip))
             IN  Settle(r, [Touched(r, s, 1) EXCEPT ![s].ip = ip], r.used + 1)
    BY DEF AcceptNew
  <1> DEFINE s == FirstOf(r.size, ip, Ends(r, ip))
             t2 == [Touched(r, s, 1) EXCEPT ![s].ip = ip]
  <1>2. /\ s \in Slots(r.size) /\ r.table[s].ip = NoIP
        /\ \A e \in Slots(r.size) : Before(r.size, ip, e, s) => r.table[e].ip \notin {NoIP, ip}
    BY <1>1, Settled
  <1>3. r.table[s].count = 0
    BY <1>1 DEF Unused
  <1>4. active \in [IPs -> Nat] /\ hash \in [IPs -> HashValues]
    BY DEF RateLimitInv, TypeOK
  <1>5. active' = [active EXCEPT ![ip] = @ + 1]
    BY DEF AcceptNew
  <1>6. Settle(r, t2, r.used + 1)
    BY <1>1
  <1>7. Right(r.table, r.size, r.used, bypassed \union CutOff, active)
    BY PreparedIsRight
  <1> HIDE DEF s
  <1>8. /\ t2 \in [Slots(r.size) -> Entry] /\ t2[s].ip = ip /\ t2[s].count = 1
        /\ \A x \in Slots(r.size) : x # s => t2[x] = r.table[x]
    <2> DEFINE t1 == Touched(r, s, 1)
    <2>1. /\ t1 \in [Slots(r.size) -> Entry] /\ t1[s].count = 1
          /\ \A x \in Slots(r.size) : x # s => t1[x] = r.table[x]
      BY <1>2, TouchedEntry
    <2> HIDE DEF t1
    <2>2. t1[s] \in Entry
      BY <1>2, <2>1
    <2>3. [t1[s] EXCEPT !.ip = ip] \in Entry /\ [t1[s] EXCEPT !.ip = ip].ip = ip
          /\ [t1[s] EXCEPT !.ip = ip].count = 1
      BY <2>1, <2>2 DEF Entry
    <2>4. t2 = [t1 EXCEPT ![s] = [t1[s] EXCEPT !.ip = ip]]
      BY <1>2, <2>1 DEF t1
    <2>5. QED
      BY <1>2, <2>1, <2>3, <2>4
  <1> HIDE DEF t2
  <1>9. r.used \in Nat /\ active' \in [IPs -> Nat]
    BY <1>4, <1>5, <1>7 DEF Right
  <1>10. TypeOK' /\ hash' = hash
    BY <1>6, <1>8, <1>9, SettleTypes
  <1>11. Right(t2, r.size, r.used + 1, bypassed \union CutOff, active')
    <2>1. active'[ip] = active[ip] + 1 /\ \A x \in IPs : x # ip => active'[x] = active[x]
      BY <1>4, <1>5
    <2>2. r.table[s].count < MaxPerIp /\ t2[s].count = r.table[s].count + 1
      BY <1>3, <1>8, RateLimitAssumption
    <2>3. Right(t2, r.size, IF r.table[s].ip = NoIP THEN r.used + 1 ELSE r.used,
                bypassed \union CutOff, active')
      BY <1>2, <1>4, <1>7, <1>8, <2>1, <2>2, UpIsRight, SMTT(60)
    <2>4. QED
      BY <1>2, <2>3
  <1>12. QED
    BY <1>6, <1>10, <1>11, InvFrom DEF Settle

LEMMA AcceptKnownInv ==
    ASSUME RateLimitInv, NEW ip \in IPs, AcceptKnown(ip)
    PROVE  RateLimitInv'
  <1>1. PICK r \in Prepared :
          /\ Ends(r, ip) # {}
          /\ LET s == FirstOf(r.size, ip, Ends(r, ip))
             IN  /\ r.table[s].ip = ip /\ r.table[s].count < MaxPerIp
                 /\ Settle(r, Touched(r, s, r.table[s].count + 1), r.used)
    BY DEF AcceptKnown
  <1> DEFINE s == FirstOf(r.size, ip, Ends(r, ip))
             t2 == Touched(r, s, r.table[s].count + 1)
  <1>2. /\ s \in Slots(r.size) /\ r.table[s] \in Entry
        /\ \A e \in Slots(r.size) : Before(r.size, ip, e, s) => r.table[e].ip \notin {NoIP, ip}
    BY <1>1, Settled
  <1>3. r.table[s].ip = ip /\ r.table[s].count < MaxPerIp /\ Settle(r, t2, r.used)
    BY <1>1
  <1>4. active \in [IPs -> Nat] /\ hash \in [IPs -> HashValues]
    BY DEF RateLimitInv, TypeOK
  <1>5. active' = [active EXCEPT ![ip] = @ + 1]
    BY DEF AcceptKnown
  <1>6. Right(r.table, r.size, r.used, bypassed \union CutOff, active)
    BY PreparedIsRight
  <1> HIDE DEF s
  <1>7. r.table[s].count + 1 \in Nat
    BY <1>2 DEF Entry
  <1>8. /\ t2 \in [Slots(r.size) -> Entry] /\ t2[s].ip = ip
        /\ t2[s].count = r.table[s].count + 1
        /\ \A x \in Slots(r.size) : x # s => t2[x] = r.table[x]
    BY <1>2, <1>3, <1>7, TouchedEntry
  <1> HIDE DEF t2
  <1>9. r.used \in Nat /\ active' \in [IPs -> Nat]
    BY <1>4, <1>5, <1>6 DEF Right
  <1>10. TypeOK' /\ hash' = hash
    BY <1>3, <1>8, <1>9, SettleTypes
  <1>11. Right(t2, r.size, r.used, bypassed \union CutOff, active')
    <2>1. active'[ip] = active[ip] + 1 /\ \A x \in IPs : x # ip => active'[x] = active[x]
      BY <1>4, <1>5
    <2>2. r.table[s].ip \in {NoIP, ip} /\ r.table[s].count < MaxPerIp
      BY <1>3
    <2>3. Right(t2, r.size, IF r.table[s].ip = NoIP THEN r.used + 1 ELSE r.used,
                bypassed \union CutOff, active')
      BY <1>2, <1>4, <1>6, <1>8, <2>1, <2>2, UpIsRight, SMTT(60)
    <2>4. QED
      BY <1>3, <2>3, RateLimitAssumption
  <1>12. QED
    BY <1>3, <1>10, <1>11, InvFrom DEF Settle

\* A refusal changes no count.
LEMMA RejectInv ==
    ASSUME RateLimitInv, NEW ip \in IPs,
           RejectOverLimit(ip) \/ RejectNoMemory(ip) \/ RejectFull(ip)
    PROVE  RateLimitInv'
  <1>1. active' = active /\ active \in [IPs -> Nat] /\ hash \in [IPs -> HashValues]
    BY DEF RejectOverLimit, RejectNoMemory, RejectFull, RateLimitInv, TypeOK
  <1>2. CASE RejectNoMemory(ip) \/ RejectFull(ip)
    <2>1. PICK r \in Prepared : Settle(r, r.table, r.used)
      BY <1>2 DEF RejectNoMemory, RejectFull
    <2>2. Right(r.table, r.size, r.used, bypassed \union CutOff, active)
      BY PreparedIsRight
    <2>3. r.table \in [Slots(r.size) -> Entry] /\ r.used \in Nat
      BY <2>2 DEF Right, Sound
    <2>4. TypeOK' /\ hash' = hash
      BY <1>1, <2>1, <2>3, SettleTypes
    <2>5. QED
      BY <1>1, <2>1, <2>2, <2>4, InvFrom DEF Settle
  <1>3. CASE RejectOverLimit(ip)
    <2>1. PICK r \in Prepared :
            /\ Ends(r, ip) # {}
            /\ LET s == FirstOf(r.size, ip, Ends(r, ip))
               IN  r.table[s].ip = ip /\ Settle(r, Touched(r, s, r.table[s].count), r.used)
      BY <1>3 DEF RejectOverLimit
    <2> DEFINE s == FirstOf(r.size, ip, Ends(r, ip))
               t2 == Touched(r, s, r.table[s].count)
    <2>2. s \in Slots(r.size) /\ r.table[s] \in Entry
      BY <2>1, Settled
    <2>3. r.table[s].ip = ip /\ Settle(r, t2, r.used)
      BY <2>1
    <2>4. Right(r.table, r.size, r.used, bypassed \union CutOff, active) /\ r.used \in Nat
      BY PreparedIsRight DEF Right
    <2> HIDE DEF s
    <2>5. r.table[s].count \in Nat
      BY <2>2 DEF Entry
    <2>6. /\ t2 \in [Slots(r.size) -> Entry] /\ t2[s].ip = ip
          /\ t2[s].count = r.table[s].count
          /\ \A x \in Slots(r.size) : x # s => t2[x] = r.table[x]
      BY <2>2, <2>3, <2>5, TouchedEntry
    <2> HIDE DEF t2
    <2>7. TypeOK' /\ hash' = hash
      BY <1>1, <2>3, <2>4, <2>6, SettleTypes
    <2>8. active[ip] = active[ip] - (r.table[s].count - t2[s].count)
      BY <1>1, <2>5, <2>6
    <2>9. Right(t2, r.size, r.used, bypassed \union CutOff, active)
      BY <1>1, <2>2, <2>3, <2>4, <2>6, <2>8, DownIsRight
    <2>10. QED
      BY <1>1, <2>3, <2>7, <2>9, InvFrom DEF Settle
  <1>4. QED
    BY <1>2, <1>3

LEMMA LeaveInv ==
    ASSUME RateLimitInv, NEW ip \in IPs, Leave(ip)
    PROVE  RateLimitInv'
  <1>1. /\ active \in [IPs -> Nat] /\ hash \in [IPs -> HashValues] /\ size \in Nat \ {0}
        /\ table \in [Slots(size) -> Entry] /\ clock \in Nat
        /\ Right(table, size, used, bypassed, active)
    BY RateLimitAssumption DEF RateLimitInv, TypeOK
  <1>2. /\ active[ip] > 0 /\ active' = [active EXCEPT ![ip] = @ - 1]
        /\ UNCHANGED <<size, used, lastSweep, clock, hash, bypassed>>
    BY DEF Leave
  \* The worker's connection is counted somewhere.
  <1>3. Held(ip) # {}
    <2>1. Counted(table, size, ip) # {}
      <3>1. active[ip] = Cardinality(Counted(table, size, ip))
        BY <1>1 DEF Right
      <3>2. QED
        BY <1>1, <1>2, <3>1, FS_EmptySet
    <2>2. PICK s \in Slots(size) : \E k : k \in 1 .. table[s].count /\ table[s].ip = ip
      BY <2>1, CountedElements
    <2>3. table[s].count \in Nat
      BY <1>1 DEF Entry
    <2>4. QED
      BY <2>2, <2>3 DEF Held
  <1> DEFINE s == FirstOf(size, ip, Held(ip))
             e == [table[s] EXCEPT !.count = @ - 1, !.last = clock]
  <1>4. Held(ip) \in SUBSET Slots(size)
    BY DEF Held
  <1>5. s \in Held(ip)
    BY <1>1, <1>3, <1>4, FirstOfIsFirst
  <1>6. table' = [table EXCEPT ![s].count = @ - 1, ![s].last = clock]
    BY <1>3 DEF Leave
  <1> HIDE DEF s
  <1>7. /\ s \in Slots(size) /\ table[s].ip = ip /\ table[s].count > 0
        /\ table[s] \in Entry /\ table[s].count \in Nat
    BY <1>1, <1>5 DEF Held, Entry
  <1>8. table' = [table EXCEPT ![s] = e]
    BY <1>1, <1>6, <1>7
  <1>9. e \in Entry /\ e.ip = ip /\ e.count = table[s].count - 1
    <2>1. table[s].count - 1 \in Nat
      BY <1>7
    <2>2. QED
      BY <1>1, <1>7, <2>1 DEF Entry
  <1> HIDE DEF e
  <1>10. /\ table' \in [Slots(size) -> Entry] /\ table'[s].ip = ip
         /\ table'[s].count = table[s].count - 1
         /\ \A x \in Slots(size) : x # s => table'[x] = table[x]
    BY <1>1, <1>7, <1>8, <1>9
  <1>11. /\ active' \in [IPs -> Nat]
         /\ active'[ip] = active[ip] - (table[s].count - table'[s].count)
         /\ \A x \in IPs : x # ip => active'[x] = active[x]
    BY <1>1, <1>2, <1>7, <1>10
  <1>12. Right(table', size, used, bypassed, active')
    BY <1>1, <1>7, <1>10, <1>11, DownIsRight
  <1>13. TypeOK'
    BY <1>2, <1>10, <1>11 DEF RateLimitInv, TypeOK, Slots, Entry
  <1>14. QED
    BY <1>2, <1>12, <1>13, InvFrom

LEMMA RateLimitInvNext == RateLimitInv /\ [Next]_vars => RateLimitInv'
  <1> SUFFICES ASSUME RateLimitInv, [Next]_vars PROVE RateLimitInv'
    OBVIOUS
  <1>1. CASE Tick \/ UNCHANGED vars
    <2>1. UNCHANGED <<rl, hash, active, bypassed>> /\ clock' \in {clock, clock + 1}
          /\ clock' \in 0 .. MaxTime
      BY <1>1, RateLimitAssumption DEF Tick, vars, RateLimitInv, TypeOK
    <2>2. TypeOK'
      <3>1. UNCHANGED <<table, size, used, lastSweep, hash, active, bypassed>>
        BY <2>1 DEF rl
      <3>2. TypeOK
        BY DEF RateLimitInv
      <3>3. Slots(size)' = Slots(size)
        BY <3>1 DEF Slots
      <3>4. lastSweep' \in 0 .. clock'
        BY <2>1, <3>1, <3>2, RateLimitAssumption DEF TypeOK
      <3>5. QED
        BY <2>1, <3>1, <3>2, <3>3, <3>4, Zenon DEF TypeOK
    <2>3. QED
      BY <2>1, <2>2, InvFrom DEF RateLimitInv, rl
  <1>2. ASSUME NEW ip \in IPs, AcceptNew(ip) PROVE RateLimitInv'
    BY <1>2, AcceptNewInv
  <1>3. ASSUME NEW ip \in IPs, AcceptKnown(ip) PROVE RateLimitInv'
    BY <1>3, AcceptKnownInv
  <1>4. ASSUME NEW ip \in IPs, RejectOverLimit(ip) \/ RejectNoMemory(ip) \/ RejectFull(ip)
        PROVE  RateLimitInv'
    BY <1>4, RejectInv
  <1>5. ASSUME NEW ip \in IPs, Leave(ip) PROVE RateLimitInv'
    BY <1>5, LeaveInv
  <1>6. QED
    BY <1>1, <1>2, <1>3, <1>4, <1>5 DEF Next

LEMMA RateLimitAlways == Spec => []RateLimitInv
  BY RateLimitInvInit, RateLimitInvNext, PTL DEF Spec

-----------------------------------------------------------------------------
(* Theorems.                                                               *)

\* Type correctness of the rate limiter.
THEOREM RateLimitTypeOK == Spec => []TypeOK
  <1>1. RateLimitInv => TypeOK
    BY DEF RateLimitInv
  <1>2. QED
    BY <1>1, RateLimitAlways, PTL

\* ratelimit_leave always finds the entry that ratelimit_accept counted in, whatever
\* sweeps and growths came between: an address whose connections are gone is free.
THEOREM RateLimitCountsAreConnections == Spec => []CountsAreConnections
  <1>1. RateLimitInv => CountsAreConnections
    BY DEF RateLimitInv, Right, CountsAreConnections
  <1>2. QED
    BY <1>1, RateLimitAlways, PTL

\* `used' never says less than what the table holds, although a growth forgets to
\* count it anew: no sweep makes it wrap around.
THEOREM RateLimitUsedCoversTable == Spec => []UsedCoversTable
  <1>1. RateLimitInv => UsedCoversTable
    BY DEF RateLimitInv, Right, UsedCoversTable, Named, Occupied
  <1>2. QED
    BY <1>1, RateLimitAlways, PTL

\* The units of one entry are as many as its count.
LEMMA RowOfUnits ==
  ASSUME NEW s, NEW c \in Nat
  PROVE  IsFiniteSet({s} \X (1 .. c)) /\ Cardinality({s} \X (1 .. c)) = c
  <1>1. IsFiniteSet({s}) /\ Cardinality({s}) = 1
    BY FS_Singleton
  <1>2. IsFiniteSet(1 .. c) /\ Cardinality(1 .. c) = c
    BY FS_Interval
  <1>3. /\ IsFiniteSet({s} \X (1 .. c))
        /\ Cardinality({s} \X (1 .. c)) = Cardinality({s}) * Cardinality(1 .. c)
    BY <1>1, <1>2, FS_Product
  <1>4. 1 * c = c
    OBVIOUS
  <1>5. QED
    BY <1>1, <1>2, <1>3, <1>4, Zenon

\* The limit holds for every address that no sweep has cut off from its entry.
THEOREM RateLimitLimitUnlessBypassed == Spec => []LimitUnlessBypassed
  <1>1. ASSUME RateLimitInv PROVE LimitUnlessBypassed
    <2> SUFFICES ASSUME NEW ip \in IPs \ bypassed PROVE active[ip] <= MaxPerIp
      BY DEF LimitUnlessBypassed
    <2>1. /\ size \in Nat \ {0} /\ Sound(table, size) /\ hash \in [IPs -> HashValues]
          /\ table \in [Slots(size) -> Entry] /\ MaxPerIp \in Nat
          /\ active[ip] = Cardinality(Counted(table, size, ip))
          /\ Foremost(table, size, ip)
      BY <1>1, RateLimitAssumption DEF RateLimitInv, TypeOK, Right
    <2>2. CASE Counted(table, size, ip) = {}
      BY <2>1, <2>2, FS_EmptySet
    <2>3. CASE Counted(table, size, ip) # {}
      <3>1. PICK s \in Slots(size) : \E k : k \in 1 .. table[s].count /\ table[s].ip = ip
        BY <2>3, CountedElements
      <3>2. s \in Live(table, size) /\ table[s].ip = ip
        BY <2>1, <3>1 DEF Live, Entry
      <3>3. \A e \in Live(table, size) : table[e].ip = ip => e = s
        <4> SUFFICES ASSUME NEW e \in Live(table, size), table[e].ip = ip, e # s PROVE FALSE
          OBVIOUS
        <4>1. Before(size, ip, s, e) \/ Before(size, ip, e, s)
          BY <2>1, BeforeIsOrder DEF Live
        <4>2. QED
          BY <2>1, <3>2, <4>1 DEF Foremost, Live
      <3>4. Counted(table, size, ip) \subseteq {s} \X (1 .. MaxPerIp)
        <4> SUFFICES ASSUME NEW e \in Slots(size), NEW k,
                            k \in 1 .. table[e].count, table[e].ip = ip
                     PROVE  e = s /\ k \in 1 .. MaxPerIp
          BY CountedElements
        <4>1. table[e].count \in Nat /\ table[e].count <= MaxPerIp
          BY <2>1 DEF Sound, Entry
        <4>2. e \in Live(table, size)
          BY <4>1 DEF Live
        <4>3. QED
          BY <2>1, <3>3, <4>1, <4>2
      <3>5. /\ IsFiniteSet({s} \X (1 .. MaxPerIp))
            /\ Cardinality({s} \X (1 .. MaxPerIp)) = MaxPerIp
        BY <2>1, RowOfUnits
      <3>6. QED
        BY <2>1, <3>4, <3>5, FS_Subset
    <2>4. QED
      BY <2>2, <2>3
  <1>2. QED
    BY <1>1, RateLimitAlways, PTL

\* Nobody is refused for a number of connections it does not have.
THEOREM RateLimitRejectionsJustified == Spec => RejectionsJustified
  <1> DEFINE Justified == \A ip \in IPs : RejectOverLimit(ip) => active[ip] >= MaxPerIp
  <1>1. ASSUME RateLimitInv PROVE Justified
    <2> SUFFICES ASSUME NEW ip \in IPs, RejectOverLimit(ip) PROVE active[ip] >= MaxPerIp
      OBVIOUS
    <2>1. PICK r \in Prepared :
            /\ Ends(r, ip) # {}
            /\ LET s == FirstOf(r.size, ip, Ends(r, ip))
               IN  r.table[s].ip = ip /\ r.table[s].count >= MaxPerIp
      BY DEF RejectOverLimit
    <2> DEFINE s == FirstOf(r.size, ip, Ends(r, ip))
    <2>2. s \in Slots(r.size) /\ r.table[s] \in Entry
      BY <1>1, <2>1, Settled
    <2>3. r.table[s].ip = ip /\ r.table[s].count >= MaxPerIp
      BY <2>1
    <2>4. Right(r.table, r.size, r.used, bypassed \union CutOff, active)
      BY <1>1, PreparedIsRight
    <2> HIDE DEF s
    <2>5. {s} \X (1 .. r.table[s].count) \subseteq Counted(r.table, r.size, ip)
      BY <2>2, <2>3, CountedElements
    <2>6. /\ IsFiniteSet({s} \X (1 .. r.table[s].count))
          /\ Cardinality({s} \X (1 .. r.table[s].count)) = r.table[s].count
          /\ r.table[s].count \in Nat
      <3>1. r.table[s].count \in Nat
        BY <2>2 DEF Entry
      <3>2. QED
        BY <3>1, RowOfUnits
    <2>7. IsFiniteSet(Counted(r.table, r.size, ip))
      BY <2>4, CountedFinite DEF Right
    <2>8. r.table[s].count <= Cardinality(Counted(r.table, r.size, ip))
      BY <2>5, <2>6, <2>7, FS_Subset
    <2>9. active[ip] = Cardinality(Counted(r.table, r.size, ip)) /\ active[ip] \in Nat
      BY <1>1, <2>4 DEF Right, RateLimitInv, TypeOK
    <2>10. QED
      BY <2>3, <2>6, <2>8, <2>9, RateLimitAssumption
  <1>2. RateLimitInv /\ [Next]_vars => [Justified]_vars
    BY <1>1
  <1>3. QED
    BY <1>2, RateLimitAlways, PTL DEF Spec, RejectionsJustified

-----------------------------------------------------------------------------
(* The table implements the counts that Server uses.                       *)

\* The table's counts are the connections, one function of the addresses.
LEMMA CountsAreActive ==
    ASSUME RateLimitInv
    PROVE  [ip \in IPs |-> Cardinality(Counted(table, size, ip))] = active
  BY DEF RateLimitInv, TypeOK, Right

\* What one call does to the counts.
LEMMA CallByCall ==
    ASSUME RateLimitInv, RateLimitInv', NEW ip \in IPs
    PROVE  /\ AcceptNew(ip) \/ AcceptKnown(ip) => Counts!Admit(ip)
           /\ RejectOverLimit(ip) \/ RejectNoMemory(ip) \/ RejectFull(ip) => Counts!Refuse(ip)
           /\ Leave(ip) => Counts!Leave(ip)
  <1> DEFINE counts == [a \in IPs |-> Cardinality(Counted(table, size, a))]
  <1>1. counts = active /\ counts' = active' /\ active \in [IPs -> Nat]
    <2>1. counts = active
      BY CountsAreActive
    <2>2. counts' = active'
      BY DEF RateLimitInv, TypeOK, Right
    <2>3. QED
      BY <2>1, <2>2 DEF RateLimitInv, TypeOK
  <1> HIDE DEF counts
  <1>2. AcceptNew(ip) \/ AcceptKnown(ip) => counts' = [counts EXCEPT ![ip] = @ + 1]
    BY <1>1 DEF AcceptNew, AcceptKnown
  <1>3. RejectOverLimit(ip) \/ RejectNoMemory(ip) \/ RejectFull(ip) => counts' = counts
    BY <1>1 DEF RejectOverLimit, RejectNoMemory, RejectFull
  <1>4. Leave(ip) => counts' = [counts EXCEPT ![ip] = IF @ > 0 THEN @ - 1 ELSE 0]
    BY <1>1 DEF Leave
  <1>5. QED
    BY <1>2, <1>3, <1>4 DEF counts, Counts!Admit, Counts!Refuse, Counts!Leave

\* Every call has the effect on the counts that Server gives it: no sweep, growth or
\* failed allocation inside ratelimit_accept, and no dormant or second entry that
\* ratelimit_leave walks past, changes what is counted for anybody else.
THEOREM RateLimitCallsAsPromised == Spec => CallsAsPromised
  <1> DEFINE Promised ==
        \A ip \in IPs :
          /\ AcceptNew(ip) \/ AcceptKnown(ip) => Counts!Admit(ip)
          /\ RejectOverLimit(ip) \/ RejectNoMemory(ip) \/ RejectFull(ip) => Counts!Refuse(ip)
          /\ Leave(ip) => Counts!Leave(ip)
  <1>1. RateLimitInv /\ RateLimitInv' /\ [Next]_vars => [Promised]_vars
    BY CallByCall
  <1>2. QED
    BY <1>1, RateLimitAlways, PTL DEF Spec, CallsAsPromised

\* The limiter implements the counts that Server uses by INSTANCE.
THEOREM RateLimitImplementsLimiter == Spec => ImplementsLimiter
  <1> DEFINE counts == [ip \in IPs |-> Cardinality(Counted(table, size, ip))]
  <1>1. Init => Counts!Init
    <2> SUFFICES ASSUME Init PROVE Counts!Init
      OBVIOUS
    <2>1. counts = active
      BY RateLimitInvInit, CountsAreActive
    <2>2. counts = [ip \in IPs |-> 0]
      BY <2>1 DEF Init
    <2>3. QED
      BY <2>2 DEF Counts!Init
  <1>2. RateLimitInv /\ RateLimitInv' /\ [Next]_vars => [Counts!Next]_counts
    <2> SUFFICES ASSUME RateLimitInv, RateLimitInv', [Next]_vars
                 PROVE  Counts!Next \/ UNCHANGED counts
      OBVIOUS
    <2>1. CASE Tick \/ UNCHANGED vars
      BY <2>1 DEF Tick, vars, rl
    <2>2. CASE \E ip \in IPs :
                  \/ AcceptNew(ip) \/ AcceptKnown(ip)
                  \/ RejectOverLimit(ip) \/ RejectNoMemory(ip) \/ RejectFull(ip)
                  \/ Leave(ip)
      BY <2>2, CallByCall DEF Counts!Next
    <2>3. QED
      BY <2>1, <2>2 DEF Next
  <1>3. QED
    BY <1>1, <1>2, RateLimitAlways, PTL DEF Spec, ImplementsLimiter, Counts!Spec

=============================================================================
