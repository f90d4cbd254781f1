-------------------------- MODULE ConnectionProofs ---------------------------
(***************************************************************************)
(* What a client may believe of the answers on its connection, for every   *)
(* set of requests, every embedded file and database, and any size of the  *)
(* buffer.                                                                 *)
(***************************************************************************)
EXTENDS Connection, Lemmas, FiniteSetTheorems

-----------------------------------------------------------------------------
(* vfs_hash.c: what is embedded is found, and nothing else.                *)

Blanks == [s \in Probes |-> Blank]

VfsHistory(f) ==
    f = [k \in 0 .. Len(vfs_table) |->
            IF k = 0 THEN Blanks ELSE Inserted(f[k - 1], vfs_table[k][1])]

LEMMA VfsFiles ==
    /\ Len(vfs_table) \in Nat /\ Len(vfs_table) <= Slots
    /\ DOMAIN vfs_table = 1 .. Len(vfs_table)
    /\ \A k \in 1 .. Len(vfs_table) :
          vfs_table[k][1] \in Paths /\ vfs_table[k][2] \in Nat \ {0}
  BY RequestsAssumption

LEMMA PathProbes ==
    ASSUME NEW path \in Paths
    PROVE  /\ \A p \in Probes : Probe(path, p) \in Probes
           /\ \A p, p2 \in Probes : Probe(path, p) = Probe(path, p2) => p = p2
           /\ \A s \in Probes : \E p \in Probes : Probe(path, p) = s
  BY RequestsAssumption, ProbesMeetAll DEF Probe, Probes

\* The slots are those of a sequence of insertions.
LEMMA VfsSlotsHasHistory ==
    \E f : /\ VfsSlots = f[Len(vfs_table)]
          /\ f[0] = Blanks
          /\ \A k \in 1 .. Len(vfs_table) : f[k] = Inserted(f[k - 1], vfs_table[k][1])
  <1> DEFINE n == Len(vfs_table)
             V == [Probes -> Paths \union {Blank}]
             g == [k \in 1 .. n |-> [T \in V |-> Inserted(T, vfs_table[k][1])]]
             f == CHOOSE f : VfsHistory(f)
  <1>1. \A k \in 1 .. n, T \in V : g[k][T] = Inserted(T, vfs_table[k][1])
    OBVIOUS
  <1>2. Steps(g, n, V)
    <2> SUFFICES ASSUME NEW k \in 1 .. n, NEW T \in V
                 PROVE  Inserted(T, vfs_table[k][1]) \in V
      BY <1>1 DEF Steps
    <2>1. vfs_table[k][1] \in Paths
      BY VfsFiles
    <2>2. QED
      BY <2>1 DEF Inserted
  <1>3. Blanks \in V
    BY DEF Blanks
  <1> HIDE DEF V, g
  <1>4. PICK h : IsHistory(h, g, n, V, Blanks)
    BY <1>2, <1>3, VfsFiles, Iteration
  <1>5. VfsHistory(h)
    <2>1. ASSUME NEW k \in 0 .. n, k # 0 PROVE h[k] = Inserted(h[k - 1], vfs_table[k][1])
      <3>1. k \in 1 .. n /\ k - 1 \in 0 .. n
        BY <2>1, VfsFiles
      <3>2. QED
        BY <3>1, <1>1, <1>4 DEF IsHistory
    <2>2. QED
      BY <1>4, <2>1 DEF IsHistory, VfsHistory
  <1>6. VfsHistory(f)
    BY <1>5
  <1>7. VfsSlots = f[n]
    BY DEF VfsSlots, VfsHistory, Blanks
  <1> HIDE DEF f
  <1>8. QED
    BY <1>6, <1>7, VfsFiles DEF VfsHistory

\* A probe for a path ends at the first slot that holds a stop.
LEMMA FirstSlotIsFirst ==
    ASSUME NEW slots, NEW path \in Paths, NEW stops,
           NEW p0 \in Probes, slots[Probe(path, p0)] \in stops
    PROVE  \E p \in Probes :
              /\ FirstSlot(slots, path, stops) = Probe(path, p)
              /\ slots[Probe(path, p)] \in stops
              /\ \A p2 \in 0 .. p - 1 : slots[Probe(path, p2)] \notin stops
  <1> DEFINE Hits == {p \in Probes : slots[Probe(path, p)] \in stops}
             IsFirst(p) == /\ slots[Probe(path, p)] \in stops
                           /\ \A p2 \in 0 .. p - 1 : slots[Probe(path, p2)] \notin stops
             c == CHOOSE p \in Probes : IsFirst(p)
  <1>1. Hits \in SUBSET Nat /\ Hits # {}
    <2>1. Probes \subseteq Nat
      BY RequestsAssumption DEF Probes
    <2>2. p0 \in Hits
      OBVIOUS
    <2>3. QED
      BY <2>1, <2>2
  <1>2. PICK m \in Hits : \A i \in Hits : m <= i
    <2> HIDE DEF Hits
    <2> QED BY <1>1, LeastElement
  <1>3. m \in Probes /\ IsFirst(m)
    BY <1>2, RequestsAssumption DEF Probes
  <1>4. c \in Probes /\ IsFirst(c)
    <2> HIDE DEF IsFirst
    <2> QED BY <1>3
  <1>5. FirstSlot(slots, path, stops) = Probe(path, c)
    BY DEF FirstSlot
  <1> HIDE DEF c
  <1>6. QED
    BY <1>4, <1>5

\* The slots hold the first k files: nothing else, as many as there are, and each
\* where a probe for it gets.
Used(slots) == {s \in Probes : slots[s] # Blank}

Reached(slots, path) ==
    \E p \in Probes : /\ slots[Probe(path, p)] = path
                      /\ \A p2 \in 0 .. p - 1 : slots[Probe(path, p2)] # Blank

Holds(slots, k) ==
    /\ slots \in [Probes -> Paths \union {Blank}]
    /\ \A s \in Used(slots) : \E i \in 1 .. k : slots[s] = vfs_table[i][1]
    /\ Cardinality(Used(slots)) = k
    /\ \A i \in 1 .. k : Reached(slots, vfs_table[i][1])

LEMMA UsedFinite ==
    ASSUME NEW slots
    PROVE  /\ IsFiniteSet(Used(slots)) /\ IsFiniteSet(Probes)
           /\ Cardinality(Probes) = Slots
  <1>1. IsFiniteSet(Probes) /\ Cardinality(Probes) = Slots
    BY RequestsAssumption, FS_Interval DEF Probes
  <1>2. QED
    BY <1>1, FS_Subset DEF Used

LEMMA InsertedHolds ==
    ASSUME NEW k \in 1 .. Len(vfs_table), NEW slots, Holds(slots, k - 1)
    PROVE  Holds(Inserted(slots, vfs_table[k][1]), k)
  <1> DEFINE path == vfs_table[k][1]
             d == FirstSlot(slots, path, {Blank})
             new == Inserted(slots, path)
  <1>1. path \in Paths /\ k - 1 \in Nat /\ k - 1 < Slots /\ k \in Nat /\ Blank \notin Paths
        /\ \A i \in 1 .. k : vfs_table[i][1] \in Paths
    BY VfsFiles, RequestsAssumption
  <1> HIDE DEF path
  <1>2. PICK s0 \in Probes : slots[s0] = Blank
    <2> SUFFICES ASSUME \A s \in Probes : slots[s] # Blank PROVE FALSE
      OBVIOUS
    <2>1. Used(slots) = Probes
      BY DEF Used
    <2>2. QED
      BY <1>1, <2>1, UsedFinite, RequestsAssumption DEF Holds
  <1>3. PICK p0 \in Probes : Probe(path, p0) = s0
    BY <1>1, <1>2, PathProbes
  <1>4. PICK p \in Probes : /\ d = Probe(path, p) /\ slots[d] = Blank
                            /\ \A p2 \in 0 .. p - 1 : slots[Probe(path, p2)] # Blank
    <2>1. slots[Probe(path, p0)] \in {Blank}
      BY <1>2, <1>3
    <2>2. \E p \in Probes : /\ d = Probe(path, p)
                            /\ slots[Probe(path, p)] \in {Blank}
                            /\ \A p2 \in 0 .. p - 1 : slots[Probe(path, p2)] \notin {Blank}
      BY <1>1, <2>1, FirstSlotIsFirst
    <2>3. QED
      BY <2>2
  <1>5. d \in Probes
    BY <1>1, <1>4, PathProbes
  <1>6. /\ new \in [Probes -> Paths \union {Blank}] /\ new[d] = path
        /\ \A s \in Probes : s # d => new[s] = slots[s]
    BY <1>1, <1>5 DEF Holds, Inserted
  <1> HIDE DEF d, new
  <1>7. Used(new) = Used(slots) \union {d} /\ d \notin Used(slots)
    BY <1>1, <1>4, <1>5, <1>6 DEF Used
  <1>8. Cardinality(Used(new)) = k
    <2>1. Cardinality(Used(slots) \union {d}) = Cardinality(Used(slots)) + 1
      BY <1>7, UsedFinite, FS_AddElement
    <2>2. Cardinality(Used(slots)) = k - 1
      BY DEF Holds
    <2>3. QED
      BY <1>1, <1>7, <2>1, <2>2
  <1>9. ASSUME NEW s \in Used(new) PROVE \E i \in 1 .. k : new[s] = vfs_table[i][1]
    <2>1. CASE s = d
      BY <1>1, <1>6, <2>1 DEF path
    <2>2. CASE s # d
      <3>1. s \in Used(slots) /\ new[s] = slots[s]
        BY <1>6, <1>7, <2>2 DEF Used
      <3>2. PICK i \in 1 .. k - 1 : slots[s] = vfs_table[i][1]
        BY <3>1 DEF Holds
      <3>3. QED
        BY <1>1, <3>1, <3>2
    <2>3. QED
      BY <2>1, <2>2
  \* A blank that is filled ends no probe before the slot it led to.
  <1>10. ASSUME NEW i \in 1 .. k PROVE Reached(new, vfs_table[i][1])
    <2>1. CASE i = k
      <3>1. \A p2 \in 0 .. p - 1 : new[Probe(path, p2)] # Blank
        <4> SUFFICES ASSUME NEW p2 \in 0 .. p - 1 PROVE new[Probe(path, p2)] # Blank
          OBVIOUS
        <4>1. p2 \in Probes
          BY RequestsAssumption DEF Probes
        <4>2. Probe(path, p2) \in Probes /\ slots[Probe(path, p2)] # Blank
          BY <1>1, <1>4, <4>1, PathProbes
        <4>3. QED
          BY <1>1, <1>6, <4>2
      <3>2. QED
        BY <1>4, <1>6, <2>1, <3>1 DEF Reached, path
    <2>2. CASE i # k
      <3> DEFINE old == vfs_table[i][1]
      <3>1. i \in 1 .. k - 1 /\ old \in Paths
        BY <1>1, <2>2
      <3> HIDE DEF old
      <3>2. PICK po \in Probes : /\ slots[Probe(old, po)] = old
                                 /\ \A p2 \in 0 .. po - 1 : slots[Probe(old, p2)] # Blank
        BY <3>1 DEF Holds, Reached, old
      <3>3. new[Probe(old, po)] = old
        BY <1>1, <1>4, <1>6, <3>1, <3>2, PathProbes
      <3>4. ASSUME NEW p2 \in 0 .. po - 1 PROVE new[Probe(old, p2)] # Blank
        <4>1. p2 \in Probes
          BY RequestsAssumption DEF Probes
        <4>2. Probe(old, p2) \in Probes /\ slots[Probe(old, p2)] # Blank
          BY <3>1, <3>2, <4>1, PathProbes
        <4>3. QED
          BY <1>1, <1>6, <4>2
      <3>5. QED
        BY <3>3, <3>4 DEF Reached, old
    <2>3. QED
      BY <2>1, <2>2
  <1>11. QED
    BY <1>6, <1>8, <1>9, <1>10 DEF Holds, new, path

LEMMA VfsSlotsHold == Holds(VfsSlots, Len(vfs_table))
  <1> DEFINE n == Len(vfs_table)
  <1>1. PICK f : /\ VfsSlots = f[n]
                 /\ f[0] = Blanks
                 /\ \A k \in 1 .. n : f[k] = Inserted(f[k - 1], vfs_table[k][1])
    BY VfsSlotsHasHistory
  <1> DEFINE S == {k \in 0 .. n : Holds(f[k], k)}
  <1>2. 0 \in S
    <2>1. Used(Blanks) = {}
      BY DEF Used, Blanks
    <2>2. Cardinality(Used(Blanks)) = 0
      BY <2>1, FS_EmptySet
    <2>3. Holds(Blanks, 0)
      BY <2>1, <2>2 DEF Holds, Blanks
    <2>4. QED
      BY <1>1, <2>3, VfsFiles
  <1>3. ASSUME NEW k \in 1 .. n, k - 1 \in S PROVE k \in S
    <2>1. Holds(Inserted(f[k - 1], vfs_table[k][1]), k)
      BY <1>3, InsertedHolds
    <2>2. QED
      BY <1>1, <2>1
  <1>4. 0 .. n \subseteq S
    <2> HIDE DEF S
    <2> QED BY <1>2, <1>3, VfsFiles, UpTo
  <1>5. QED
    BY <1>1, <1>4, VfsFiles

Embedded(path) == path \in {e[1] : e \in ToSet(vfs_table)}

\* vfs_lookup, in spite of collisions and in a table that is full.
LEMMA VfsLookupFinds ==
    ASSUME NEW path \in Paths
    PROVE  /\ VfsLookup(path) = Blank \/ VfsLookup(path) = path
           /\ VfsLookup(path) = path <=> Embedded(path)
  <1> DEFINE n == Len(vfs_table)
             stops == {Blank, path}
  <1>1. path # Blank /\ Holds(VfsSlots, n)
    BY RequestsAssumption, VfsSlotsHold
  <1>2. Embedded(path) <=> \E i \in 1 .. n : vfs_table[i][1] = path
    BY VfsFiles DEF Embedded, ToSet
  <1>3. CASE \A p \in Probes : VfsSlots[Probe(path, p)] \notin stops
    <2>1. VfsLookup(path) = Blank
      BY <1>3 DEF VfsLookup
    <2>2. ~Embedded(path)
      BY <1>1, <1>2, <1>3 DEF Holds, Reached
    <2>3. QED
      BY <1>1, <2>1, <2>2
  <1>4. CASE \E p \in Probes : VfsSlots[Probe(path, p)] \in stops
    <2> HIDE DEF stops
    <2>1. PICK p \in Probes :
              /\ FirstSlot(VfsSlots, path, stops) = Probe(path, p)
              /\ VfsSlots[Probe(path, p)] \in stops
              /\ \A p2 \in 0 .. p - 1 : VfsSlots[Probe(path, p2)] \notin stops
      BY <1>4, FirstSlotIsFirst
    <2>2. VfsLookup(path) = VfsSlots[Probe(path, p)] /\ VfsLookup(path) \in stops
      BY <1>4, <2>1 DEF VfsLookup, stops
    <2>3. ASSUME VfsLookup(path) = path PROVE Embedded(path)
      <3>1. Probe(path, p) \in Used(VfsSlots)
        BY <1>1, <2>2, <2>3, PathProbes DEF Used
      <3>2. QED
        BY <1>1, <1>2, <2>2, <2>3, <3>1 DEF Holds
    <2>4. ASSUME Embedded(path) PROVE VfsLookup(path) = path
      <3>1. PICK po \in Probes : /\ VfsSlots[Probe(path, po)] = path
                                 /\ \A p2 \in 0 .. po - 1 : VfsSlots[Probe(path, p2)] # Blank
        BY <1>1, <1>2, <2>4 DEF Holds, Reached
      <3>2. p <= po
        <4> SUFFICES ASSUME po < p PROVE FALSE
          BY RequestsAssumption DEF Probes
        <4>1. po \in 0 .. p - 1
          BY RequestsAssumption DEF Probes
        <4>2. QED
          BY <2>1, <3>1, <4>1 DEF stops
      <3>3. CASE p = po
        BY <2>2, <3>1, <3>3
      <3>4. CASE p < po
        <4>1. p \in 0 .. po - 1
          BY <3>4, RequestsAssumption DEF Probes
        <4>2. QED
          BY <2>1, <2>2, <3>1, <4>1 DEF stops
      <3>5. QED
        BY <3>2, <3>3, <3>4, RequestsAssumption DEF Probes
    <2>5. QED
      BY <1>1, <2>2, <2>3, <2>4 DEF stops
  <1>5. QED
    BY <1>3, <1>4

-----------------------------------------------------------------------------
(* file.c: what is served of a file, and databases_meta.c: which database  *)
(* an index means.                                                         *)

Ranges == {<<>>} \union (Number \X Number)

LEMMA RangeCases ==
    ASSUME NEW range \in Ranges
    PROVE  \/ range = <<>>
           \/ \E a, b \in Number : range = <<a, b>> /\ ToSet(range) = {a, b}
  <1>1. ASSUME NEW a \in Number, NEW b \in Number, range = <<a, b>> PROVE ToSet(range) = {a, b}
    BY <1>1 DEF ToSet
  <1>2. QED
    BY <1>1 DEF Ranges

\* How far the end of a slice may reach, and that what is sent lies in the file.
LEMMA SliceInFile ==
    ASSUME NEW range \in Ranges, NEW len \in Nat \ {0}
    PROVE  \/ Slice(range, len) = <<>>
           \/ \E first \in Nat, last \in Int :
                Slice(range, len) = <<first, last>> /\ last < len
  <1> DEFINE start == RangeStart(range)
             end   == RangeEnd(range)
  <1>1. start \in Int /\ end \in Int
    <2>1. CASE range = <<>>
      BY <2>1 DEF RangeStart, RangeEnd
    <2>2. ASSUME NEW a \in Number, NEW b \in Number, range = <<a, b>>, ToSet(range) = {a, b}
          PROVE  start \in Int /\ end \in Int
      <3>1. range # <<>> /\ range[1] = a /\ range[2] = b
        BY <2>2
      <3>2. (a = Blank \/ a = Huge \/ a \in Nat) /\ (b = Blank \/ b = Huge \/ b \in Nat)
        BY DEF Number
      <3>3. start \in Int
        BY <3>1, <3>2 DEF RangeStart
      <3>4. end \in Int
        BY <2>2, <3>1, <3>2 DEF RangeEnd
      <3>5. QED
        BY <3>3, <3>4
    <2>3. QED
      BY <2>1, <2>2, RangeCases
  <1> HIDE DEF start, end
  <1> DEFINE first == IF start < 0 THEN len + start ELSE start
             last  == IF start < 0 \/ end < 0 THEN len - 1 ELSE end
  <1>2. CASE start = -1
    BY <1>2 DEF Slice, start
  <1>3. CASE start # -1
    <2>1. Slice(range, len) = <<IF first < 0 THEN 0 ELSE first, Least(last, len - 1)>>
      BY <1>3 DEF Slice, start, end
    <2>2. /\ (IF first < 0 THEN 0 ELSE first) \in Nat
          /\ Least(last, len - 1) \in Int /\ Least(last, len - 1) < len
      BY <1>1 DEF Least
    <2>3. QED
      BY <2>1, <2>2
  <1>4. QED
    BY <1>2, <1>3

Odd(range, wanted) ==
    \/ range \in {<<Blank, 0>>, <<Blank, 1>>, <<Blank, Blank>>}
    \/ range # <<>> /\ (range[1] = Huge \/ range = <<Blank, Huge>>)
    \/ range # <<>> /\ wanted = <<>>

\* But for the odd cases, what RFC 7233 says: all, the same part, or none.
LEMMA SliceAsWanted ==
    ASSUME NEW range \in Ranges, NEW len \in Nat \ {0}, ~Odd(range, Wanted(range, len))
    PROVE  \/ Slice(range, len) = <<>> /\ Wanted(range, len) = <<>>
           \/ Slice(range, len) # <<>> /\ Wanted(range, len) = Slice(range, len)
  <1>1. CASE range = <<>>
    BY <1>1 DEF Slice, RangeStart, Wanted
  <1>2. ASSUME NEW a \in Number, NEW b \in Number, range = <<a, b>>, ToSet(range) = {a, b}
        PROVE  Slice(range, len) # <<>> /\ Wanted(range, len) = Slice(range, len)
    <2>0. range # <<>> /\ Len(range) = 2 /\ range[1] = a /\ range[2] = b
      BY <1>2
    <2>1. a # Huge /\ ~(a = Blank /\ b \in {0, 1, Blank, Huge})
      BY <1>2, <2>0 DEF Odd
    <2>2. CASE a = Blank
      <3>1. b \in Nat /\ b > 1
        BY <2>1, <2>2, RequestsAssumption DEF Number
      <3>2. RangeStart(range) = -b
        BY <2>0, <2>2, <3>1, RequestsAssumption DEF RangeStart
      <3>3. Slice(range, len) = <<IF len - b < 0 THEN 0 ELSE len - b, len - 1>>
        BY <3>1, <3>2 DEF Slice, Least
      <3>4. Wanted(range, len) = IF b > len THEN <<0, len - 1>> ELSE <<len - b, len - 1>>
        BY <1>2, <2>0, <2>2, <3>1, RequestsAssumption DEF Wanted
      <3>5. QED
        BY <3>1, <3>3, <3>4
    <2>3. CASE a # Blank
      <3>1. a \in Nat
        BY <2>1, <2>3 DEF Number
      <3>2. RangeStart(range) = a
        BY <2>0, <2>1, <2>3 DEF RangeStart
      <3>3. Wanted(range, len) = IF b \in {Blank, Huge} THEN <<a, len - 1>>
                                 ELSE IF b < a THEN <<>> ELSE <<a, Least(b, len - 1)>>
        BY <1>2, <2>0, <2>1, <2>3 DEF Wanted
      <3>4. CASE b \in {Blank, Huge}
        <4>1. RangeEnd(range) = -1
          BY <1>2, <2>0, <3>4 DEF RangeEnd
        <4>2. Slice(range, len) = <<a, len - 1>>
          BY <3>1, <3>2, <4>1 DEF Slice, Least
        <4>3. QED
          BY <3>3, <3>4, <4>2
      <3>5. CASE b \notin {Blank, Huge}
        <4>1. b \in Nat
          BY <3>5 DEF Number
        <4>2. b >= a
          BY <1>2, <2>0, <3>1, <3>3, <3>5, <4>1 DEF Odd
        <4>3. RangeEnd(range) = b
          BY <1>2, <2>0, <2>3, <3>5 DEF RangeEnd
        <4>4. Slice(range, len) = <<a, Least(b, len - 1)>>
          BY <3>1, <3>2, <4>1, <4>3 DEF Slice
        <4>5. QED
          BY <3>1, <3>3, <3>5, <4>1, <4>2, <4>4
      <3>6. QED
        BY <3>4, <3>5
    <2>4. QED
      BY <2>2, <2>3
  <1>3. QED
    BY <1>1, <1>2, RangeCases

LEMMA EmbeddedLength ==
    ASSUME NEW path, Embedded(path)
    PROVE  Length(path) \in Nat \ {0}
  <1>1. \A e \in ToSet(vfs_table) : e[2] \in Nat \ {0}
    BY VfsFiles DEF ToSet
  <1>2. QED
    BY <1>1 DEF Embedded, Length

LEMMA FileServeAsAsked ==
    ASSUME NEW q \in Request, q.method \in {"GET", "HEAD"}, ~q.match
    PROVE  LET r == FileServe(q)
               wanted == Wanted(q.range, Length(q.path))
           IN  /\ r.status = 404 <=> ~Embedded(q.path)
               /\ Embedded(q.path) /\ ~Odd(q.range, wanted) =>
                     CASE r.status = 200 -> wanted = <<>>
                       [] r.status = 206 -> wanted = r.of
                       [] r.status = 416 -> wanted[1] > wanted[2]
               /\ r.status \in {200, 206} => /\ 0 <= r.of[1] /\ r.of[1] <= r.of[2]
                                             /\ r.of[2] < Length(q.path)
  <1> DEFINE r == FileServe(q)
             len == Length(q.path)
             slice == Slice(q.range, len)
             wanted == Wanted(q.range, len)
  <1>1. q.path \in Paths /\ q.range \in Ranges /\ q.path # Blank
    BY RequestsAssumption DEF Request, Ranges
  <1> USE DEF ResponseSend, ResponseError
  <1>2. CASE ~Embedded(q.path)
    <2>1. VfsLookup(q.path) = Blank
      BY <1>1, <1>2, VfsLookupFinds
    <2>2. r.status = 404
      BY <2>1 DEF FileServe
    <2> HIDE DEF r
    <2>3. r.status = 404 /\ r.status \notin {200, 206} /\ ~Embedded(q.path)
      BY <1>2, <2>2
    <2>4. QED
      BY <2>3 DEF r
  <1>3. CASE Embedded(q.path)
    <2>1. VfsLookup(q.path) = q.path
      BY <1>1, <1>3, VfsLookupFinds
    <2>2. len \in Nat \ {0}
      BY <1>3, EmbeddedLength
    <2> HIDE DEF slice, len
    <2>3. r = IF slice = <<>>
              THEN ResponseSend(200, WantsKeepAlive(q), TRUE, q.method # "HEAD", <<0, len - 1>>)
              ELSE IF slice[1] > slice[2]
              THEN ResponseSend(416, WantsKeepAlive(q), FALSE, FALSE, Blank)
              ELSE ResponseSend(206, WantsKeepAlive(q), TRUE, q.method # "HEAD", slice)
      BY <1>1, <2>1 DEF FileServe, slice, len
    <2> HIDE DEF r
    <2>4. slice = <<>> \/ \E first \in Nat, last \in Int : slice = <<first, last>> /\ last < len
      BY <1>1, <2>2, SliceInFile DEF slice
    <2>5. ~Odd(q.range, wanted) => IF slice = <<>> THEN wanted = <<>> ELSE wanted = slice
      BY <1>1, <2>2, SliceAsWanted DEF slice
    <2> HIDE DEF wanted
    <2>6. CASE slice = <<>>
      <3>1. r.status = 200 /\ r.of = <<0, len - 1>>
        BY <2>3, <2>6
      <3>2. QED
        BY <1>3, <2>2, <2>5, <2>6, <3>1 DEF wanted, r, len
    <2>7. CASE slice # <<>> /\ slice[1] > slice[2]
      <3>1. r.status = 416
        BY <2>3, <2>7
      <3>2. QED
        BY <1>3, <2>5, <2>7, <3>1 DEF wanted, r, len
    <2>8. CASE slice # <<>> /\ ~(slice[1] > slice[2])
      <3>1. r.status = 206 /\ r.of = slice
        BY <2>3, <2>8
      <3>2. 0 <= slice[1] /\ slice[1] <= slice[2] /\ slice[2] < len
        BY <2>4, <2>8
      <3>3. QED
        BY <1>3, <2>5, <2>8, <3>1, <3>2 DEF wanted, r, len
    <2>9. QED
      BY <2>6, <2>7, <2>8
  <1>4. QED
    BY <1>2, <1>3

\* When no file was missing, the metadata lists the files as they are registered.
LEMMA NothingMissing == DbMeta({}) = BookmarkFiles
  <1> DEFINE n == Len(BookmarkFiles)
             V == Seq(STRING)
             g == [k \in 1 .. n |-> [T \in V |-> Append(T, BookmarkFiles[k])]]
             Kept(f) == f = [k \in 0 .. n |->
                                IF k = 0 THEN <<>>
                                ELSE IF BookmarkFiles[k] \in {} THEN f[k - 1]
                                ELSE Append(f[k - 1], BookmarkFiles[k])]
             f == CHOOSE f : Kept(f)
  <1>1. n \in Nat /\ BookmarkFiles \in V /\ \A k \in 1 .. n : BookmarkFiles[k] \in STRING
    BY RequestsAssumption
  <1>2. PICK h : IsHistory(h, g, n, V, <<>>)
    <2>1. Steps(g, n, V)
      BY <1>1 DEF Steps
    <2>2. <<>> \in V
      OBVIOUS
    <2> HIDE DEF V, g
    <2>3. QED
      BY <1>1, <2>1, <2>2, Iteration
  <1>3. Kept(h)
    <2>1. ASSUME NEW k \in 0 .. n, k # 0 PROVE h[k] = Append(h[k - 1], BookmarkFiles[k])
      <3>1. k \in 1 .. n /\ k - 1 \in 0 .. n
        BY <1>1, <2>1
      <3>2. h[k - 1] \in V /\ h[k] = g[k][h[k - 1]]
        BY <1>2, <3>1 DEF IsHistory
      <3>3. QED
        BY <3>1, <3>2
    <2>2. QED
      BY <1>2, <2>1 DEF IsHistory
  <1>4. Kept(f)
    <2> HIDE DEF Kept
    <2> QED BY <1>3
  <1>5. DbMeta({}) = f[n]
    BY DEF DbMeta
  <1> HIDE DEF f
  <1>6. f[0] = <<>> /\ \A k \in 1 .. n : f[k] = Append(f[k - 1], BookmarkFiles[k])
    <2>1. f[0] = <<>>
      BY <1>1, <1>4
    <2>2. ASSUME NEW k \in 1 .. n PROVE f[k] = Append(f[k - 1], BookmarkFiles[k])
      <3>1. k \in 0 .. n /\ k # 0
        BY <1>1
      <3>2. QED
        BY <1>4, <3>1
    <2>3. QED
      BY <2>1, <2>2
  <1> DEFINE S == {k \in 0 .. n : f[k] = SubSeq(BookmarkFiles, 1, k)}
  <1>7. 0 \in S
    <2>1. SubSeq(BookmarkFiles, 1, 0) = <<>> /\ 0 \in 0 .. n
      BY <1>1
    <2>2. QED
      BY <1>6, <2>1
  <1>8. ASSUME NEW k \in 1 .. n, k - 1 \in S PROVE k \in S
    <2>1. Append(SubSeq(BookmarkFiles, 1, k - 1), BookmarkFiles[k]) = SubSeq(BookmarkFiles, 1, k)
      BY <1>1
    <2>2. f[k - 1] = SubSeq(BookmarkFiles, 1, k - 1) /\ k \in 0 .. n
      BY <1>1, <1>8
    <2>3. QED
      BY <1>6, <2>1, <2>2
  <1>9. 0 .. n \subseteq S
    <2> HIDE DEF S
    <2> QED BY <1>1, <1>7, <1>8, UpTo
  <1>10. f[n] = BookmarkFiles
    BY <1>1, <1>9
  <1>11. QED
    BY <1>5, <1>10

LEMMA SomeAnswer ==
    ASSUME NEW i, NEW keep
    PROVE  /\ CachedCopy(i, keep) # {} /\ DatabaseJson(i, keep, {}) # {}
           /\ {ResponseError(404)} # {}
  <1>1. ResponseError(500) \in CachedCopy(i, keep)
    BY Zenon DEF CachedCopy
  <1>2. ResponseError(500) \in DatabaseJson(i, keep, {})
    BY Zenon DEF DatabaseJson
  <1>3. QED
    BY <1>1, <1>2

LEMMA IndexedAnswers ==
    ASSUME NEW q, q.method = "GET", q.path[1] \in {"bookmarks", "database"}, Len(q.path) = 2,
           NEW r \in Answers(q, {})
    PROVE  LET i == q.path[2]
           IN  /\ r.status = 404 <=> i = Blank \/ i \notin 0 .. Len(BookmarkFiles) - 1
               /\ r.status = 200 => r.of = BookmarkFiles[i + 1]
  <1> DEFINE i == q.path[2]
             keep == WantsKeepAlive(q)
             Some == IF q.path[1] = "bookmarks" THEN CachedCopy(i, keep)
                                                ELSE DatabaseJson(i, keep, {})
  <1>1. InRange(i, {}) <=> ~(i = Blank \/ i \notin 0 .. Len(BookmarkFiles) - 1)
    BY NothingMissing DEF InRange
  <1>2. ApiHandleRequest(q, {}) = IF InRange(i, {}) THEN Some ELSE {ResponseError(404)}
    <2>1. CASE q.path[1] = "bookmarks"
      BY <2>1 DEF ApiHandleRequest
    <2>2. CASE q.path[1] = "database"
      BY <2>2 DEF ApiHandleRequest
    <2>3. QED
      BY <2>1, <2>2
  <1>3. Some # {} /\ {ResponseError(404)} # {}
    BY SomeAnswer
  <1>4. \A a \in Some : a.status # 404 /\ (a.status = 200 => a.of = BookmarkFiles[i + 1])
    <2>1. \A a \in CachedCopy(i, keep) :
              a.status # 404 /\ (a.status = 200 => a.of = BookmarkFiles[i + 1])
      BY DEF CachedCopy, DbCache, Json, ResponseSend, ResponseError
    <2>2. \A a \in DatabaseJson(i, keep, {}) :
              a.status # 404 /\ (a.status = 200 => a.of = BookmarkFiles[i + 1])
      BY NothingMissing DEF DatabaseJson, Json, ResponseSend, ResponseError
    <2> HIDE DEF i, keep
    <2>3. QED
      BY <2>1, <2>2
  <1> HIDE DEF Some, i, keep
  <1>5. r \in ApiHandleRequest(q, {})
    <2>1. ApiHandleRequest(q, {}) # {}
      BY <1>2, <1>3
    <2>2. QED
      BY <2>1 DEF Answers
  <1>6. CASE InRange(i, {})
    <2>1. r \in Some
      BY <1>2, <1>5, <1>6
    <2>2. QED
      BY <1>1, <1>4, <1>6, <2>1 DEF i
  <1>7. CASE ~InRange(i, {})
    <2>1. r = ResponseError(404)
      BY <1>2, <1>5, <1>7
    <2>2. r.status = 404
      BY <2>1 DEF ResponseError, ResponseSend
    <2>3. QED
      BY <1>1, <1>7, <2>2 DEF i
  <1>8. QED
    BY <1>6, <1>7

-----------------------------------------------------------------------------
(* The answers of Requests.                                                *)

\* The body is what the method and the length say.
Framed(r, q) == r.body = (r.length /\ q.method # "HEAD")

\* api_handle_request answers GET only, file_serve leaves the body of a HEAD away,
\* and an error page, which does not, announces the end of the connection.
LEMMA AnswersFramed ==
    ASSUME NEW q, NEW without, NEW r \in Answers(q, without)
    PROVE  Framed(r, q) \/ ~r.keep
  <1> USE DEF Framed, ResponseError, ResponseSend
  <1>1. CASE r \in ApiHandleRequest(q, without)
    <2>1. q.method = "GET"
      BY <1>1 DEF ApiHandleRequest
    <2>2. r.keep = FALSE \/ (r.length = TRUE /\ r.body = TRUE)
      BY <1>1 DEF ApiHandleRequest, CachedCopy, DatabasesJson, DatabaseJson, Json
    <2>3. QED
      BY <2>1, <2>2
  <1>2. CASE r = FileServe(q)
    <2> DEFINE file == VfsLookup(q.path)
               slice == Slice(q.range, Length(file))
    <2>1. CASE q.method \notin {"GET", "HEAD"} \/ file = Blank
      <3>1. r = ResponseError(405) \/ r = ResponseError(404)
        BY <1>2, <2>1 DEF FileServe
      <3>2. QED
        BY <3>1
    <2>2. CASE q.method \in {"GET", "HEAD"} /\ file # Blank
      <3> DEFINE keep  == WantsKeepAlive(q)
                 Part(status, part) ==
                     ResponseSend(status, keep, TRUE, q.method # "HEAD", part)
      <3>1. r \in {ResponseSend(304, keep, FALSE, FALSE, Blank),
                  Part(200, <<0, Length(file) - 1>>),
                  ResponseSend(416, keep, FALSE, FALSE, Blank),
                  Part(206, slice)}
        <4> DEFINE whole == <<0, Length(file) - 1>>
                   found == IF q.match THEN ResponseSend(304, keep, FALSE, FALSE, Blank)
                            ELSE IF slice = <<>> THEN Part(200, whole)
                            ELSE IF slice[1] > slice[2]
                                 THEN ResponseSend(416, keep, FALSE, FALSE, Blank)
                                 ELSE Part(206, slice)
        <4>1. FileServe(q) =
                 CASE q.method \notin {"GET", "HEAD"} -> ResponseError(405)
                   [] q.method \in {"GET", "HEAD"} /\ file = Blank -> ResponseError(404)
                   [] OTHER -> found
          BY DEF FileServe
        <4> HIDE DEF found
        <4>2. FileServe(q) = found
          BY <2>2, <4>1
        <4> HIDE DEF keep, Part, slice
        <4>3. QED
          BY <1>2, <4>2 DEF found
      <3>2. \/ r.length = FALSE /\ r.body = FALSE
            \/ r.length = TRUE /\ r.body = (q.method # "HEAD")
        BY <3>1
      <3>3. QED
        BY <3>2
    <2>3. QED
      BY <2>1, <2>2
  <1>3. QED
    BY <1>1, <1>2 DEF Answers

-----------------------------------------------------------------------------
(* The inductive invariant.                                                *)

\* May the client go on after an answer a?
Open(a) == ~a.last /\ (a.framed \/ ~a.keep)

\* While the worker reads, parses or sends, the answer before was whole, or TLS did
\* not tell; when it looks at the flag, a part of one has been a signal's doing.
SpokenInv ==
    /\ pc \in {"read", "parse", "send", "again", "close", "closed"}
    /\ pc = "send" => (resp.last => ~resp.stays) /\ (resp.framed \/ ~resp.keep)
    /\ pc = "again" => Open(said) /\ (said.whole \/ tls \/ shutdown)
    /\ pc \in {"read", "parse", "send"} =>
          \/ answers = <<>>
          \/ Open(said) /\ (said.whole \/ tls)

LEMMA SpokenInit == Init => SpokenInv
  <1>1. Init => pc = "read" /\ answers = <<>>
    BY DEF Init
  <1>2. QED
    BY <1>1 DEF SpokenInv

LEMMA SpokenNext == SpokenInv /\ [Next]_vars => SpokenInv'
  <1> SUFFICES ASSUME SpokenInv, [Next]_vars PROVE SpokenInv'
    OBVIOUS
  <1> USE DEF SpokenInv, Open, client, stream, setting, spoken
  \* What neither sends nor begins to.
  <1>1. CASE Client
    BY <1>1 DEF Client, End, Ask, Transmit
  <1>2. CASE Reading
    BY <1>2 DEF Reading, Read
  <1>3. CASE ReadFails \/ InterruptRead
    BY <1>3 DEF ReadFails, InterruptRead, BadRequest, Go
  <1>4. CASE Answering
    <2>1. PICK q \in Asks : Reject(q) \/ Challenge(q) \/ Serve(q)
      BY <1>4 DEF Answering
    <2>2. CASE Reject(q)
      BY <2>2 DEF Reject, BadRequest, Go
    <2>3. CASE Challenge(q)
      BY <2>3 DEF Challenge, Sending, ResponseError, ResponseSend, Go
    <2>4. CASE Serve(q)
      <3>1. PICK r \in Answers(q, missing) : resp' = Sending(r, q, FALSE, WantsKeepAlive(q))
        BY <2>4 DEF Serve
      <3>2. Framed(r, q) \/ ~r.keep
        BY <3>1, AnswersFramed
      <3>3. /\ resp'.last = FALSE /\ resp'.keep = r.keep
            /\ resp'.framed = (r.body = (r.length /\ q.method # "HEAD"))
        BY <3>1 DEF Sending
      <3>4. CASE Framed(r, q)
        <4>1. resp'.framed = Framed(r, q)
          BY <3>3 DEF Framed
        <4>2. resp'.framed
          BY <3>4, <4>1
        <4>3. QED
          BY <2>4, <3>3, <4>2 DEF Serve, Go
      <3>5. CASE ~r.keep
        BY <2>4, <3>3, <3>5 DEF Serve, Go
      <3>6. QED
        BY <3>2, <3>4, <3>5
    <2>5. QED
      BY <2>1, <2>2, <2>3, <2>4
  <1>5. CASE Send
    BY <1>5 DEF Send, Written, Go
  <1>6. CASE SendInterrupted
    BY <1>6 DEF SendInterrupted, Written, Go
  <1>7. CASE SendFails
    BY <1>7 DEF SendFails, Written, Go
  <1>8. CASE Again
    BY <1>8 DEF Again, Go
  <1>9. CASE Close
    BY <1>9 DEF Close, Go
  <1>10. CASE Signal
    BY <1>10 DEF Signal
  <1>11. CASE UNCHANGED vars
    BY <1>11 DEF vars
  <1>12. QED
    BY <1>1, <1>2, <1>3, <1>4, <1>5, <1>6, <1>7, <1>8, <1>9, <1>10, <1>11 DEF Next, Worker

\* A client that believes what it is told is never out of step (response_send,
\* response_error and the loop of handle_client), for every set of requests.
THEOREM ConnectionLastWords == Spec => LastWords
  <1> DEFINE Step == Len(answers') > 1 /\ answers' # answers =>
                        /\ ~said.last
                        /\ said.whole \/ tls
                        /\ said.framed \/ ~said.keep
  <1>1. SpokenInv /\ [Next]_vars => [Step]_vars
    <2> SUFFICES ASSUME SpokenInv, Next, Len(answers') > 1, answers' # answers
                 PROVE  /\ ~said.last
                        /\ said.whole \/ tls
                        /\ said.framed \/ ~said.keep
      OBVIOUS
    <2>1. \E whole \in BOOLEAN : Written(whole)
      <3>1. Send \/ SendInterrupted \/ SendFails
        BY DEF Next, Client, End, Ask, Transmit, Worker, Reading, Read, ReadFails, InterruptRead,
           Answering, Reject, Challenge, Serve, Again, Close, Signal, spoken
      <3>2. QED
        BY <3>1 DEF Send, SendInterrupted, SendFails
    <2>2. pc = "send"
      BY <2>1 DEF Written, Go
    <2>3. answers # <<>>
      <3>1. PICK x : answers' = Append(answers, x)
        BY <2>1 DEF Written
      <3>2. Len(Append(<<>>, x)) = 1
        OBVIOUS
      <3>3. QED
        BY <3>1, <3>2
    <2>4. QED
      BY <2>2, <2>3 DEF SpokenInv, Open
  <1>2. QED
    BY <1>1, SpokenInit, SpokenNext, PTL DEF Spec, LastWords

-----------------------------------------------------------------------------
(* The stream from the client.                                             *)

Unit == Nat \X {"line", "header", "cr", "lf"}

\* Unit b comes right after a in what a client sends.
Follows(a, b) ==
    \/ a[2] \in {"line", "header"} /\ b[1] = a[1] /\ b[2] \in {"header", "cr"}
    \/ a[2] = "cr" /\ b = <<a[1], "lf">>
    \/ a[2] = "lf" /\ b = <<a[1] + 1, "line">>

\* What the worker has not read yet.
Ahead  == wire \o rest
Stream == buf \o Ahead

\* The units of s are a piece of what the client sends, up to the end of its last
\* request n, where the requests in `toolong' do not fit into the buffer.
Piece(s, n, toolong) ==
    /\ s \in Seq(Unit)
    /\ \A i \in 1 .. Len(s) - 1 : Follows(s[i], s[i + 1])
    /\ \A i \in 1 .. Len(s) : s[i][1] \in 1 .. n
    /\ Len(s) > 0 => s[Len(s)] = <<n, "lf">>
    /\ \A i, j \in 1 .. Len(s) :
          s[i][1] = s[j][1] => s[i][1] \in toolong \/ j - i < BufferSize

\* Request r may be answered before any unit of s.
Before(r, s, toolong) ==
    \A j \in 1 .. Len(s) : r < s[j][1] \/ (r = s[j][1] /\ r \in toolong)

\* The blank line of r is in s.
EndsIn(r, s) == \E i \in 1 .. Len(s) - 1 : s[i] = <<r, "cr">> /\ s[i + 1] = <<r, "lf">>

\* The buffer begins inside a request, not in its blank line.
Proper == buf # <<>> /\ buf[1][2] \in {"line", "header"}

\* The request in the buffer is going to be answered, and another one read.
Lasting == pc = "parse" \/ (pc = "send" /\ resp.stays)

Types ==
    /\ TypeOK
    /\ wire \in Seq(Unit) /\ rest \in Seq(Unit) /\ buf \in Seq(Unit)
    /\ answers \in Seq(Nat)
    /\ pc \in {"again", "close", "closed"} => buf = <<>>
    /\ \A i \in 1 .. Len(buf) : buf[i][1] \in 1 .. asked
    /\ \A i \in 1 .. Len(answers) : answers[i] <= asked

\* What is read and what is ahead are pieces of the stream; in between, units may
\* have been cut out when a blank line was found.
InPieces ==
    /\ Piece(Ahead, asked, long)
    /\ pc = "read" => /\ Piece(Stream, asked, long)
                      /\ \A i \in 1 .. Len(buf) - 1 : buf[i][2] # "cr"
                      /\ Len(buf) < BufferSize
    /\ Lasting => /\ Before(buf[1][1], Ahead, long)
                  /\ Proper => \A i \in 1 .. Len(buf) : buf[i][1] = buf[1][1]
    /\ (pc = "send" /\ resp.stays) => Proper

\* No answer but the last is to nothing, and what comes is of later requests.
InOrder ==
    /\ AnswersInOrder
    /\ pc \notin {"close", "closed"} => \A i \in 1 .. Len(answers) :
          answers[i] # 0 /\ Before(answers[i], buf, long) /\ Before(answers[i], Ahead, long)

\* No request is lost but by a cut, and cuts are the client's doing.
Accounted ==
    /\ pc \in {"read", "again"} => \A r \in 1 .. asked :
          r \in ToSet(answers) \union cut \/ EndsIn(r, Stream)
    /\ (Lasting /\ Proper) => \A r \in 1 .. asked :
          r \in ToSet(answers) \union cut \union {buf[1][1]} \/ EndsIn(r, Ahead)
    /\ hasty = {} => 1 .. asked - 1 \subseteq ToSet(answers)
    /\ cut # {} => hasty # {} \/ long # {}

StreamInv == Types /\ InPieces /\ InOrder /\ Accounted

LEMMA PieceTail ==
    ASSUME NEW n, NEW toolong, NEW s, Piece(s, n, toolong), NEW k \in 0 .. Len(s)
    PROVE  Piece(SubSeq(s, k + 1, Len(s)), n, toolong)
  <1> DEFINE t == SubSeq(s, k + 1, Len(s))
  <1>1. s \in Seq(Unit) /\ Len(s) \in Nat
    BY DEF Piece
  <1>2. t \in Seq(Unit) /\ Len(t) = Len(s) - k /\ \A i \in 1 .. Len(s) - k : t[i] = s[i + k]
    BY <1>1, DropAt
  <1> HIDE DEF t
  <1>3. ASSUME NEW i \in 1 .. Len(t) - 1 PROVE Follows(t[i], t[i + 1])
    <2>1. i + k \in 1 .. Len(s) - 1 /\ i + k + 1 = (i + 1) + k
      BY <1>1, <1>2
    <2>2. t[i] = s[i + k] /\ t[i + 1] = s[i + k + 1]
      BY <1>1, <1>2, <2>1
    <2>3. QED
      BY <2>1, <2>2 DEF Piece
  <1>4. ASSUME NEW i \in 1 .. Len(t) PROVE t[i][1] \in 1 .. n
    <2>1. i + k \in 1 .. Len(s) /\ t[i] = s[i + k]
      BY <1>1, <1>2
    <2>2. QED
      BY <2>1 DEF Piece
  <1>5. Len(t) > 0 => t[Len(t)] = <<n, "lf">>
    BY <1>1, <1>2, SMTT(30) DEF Piece
  <1>6. ASSUME NEW i \in 1 .. Len(t), NEW j \in 1 .. Len(t), t[i][1] = t[j][1]
        PROVE  t[i][1] \in toolong \/ j - i < BufferSize
    <2>1. i + k \in 1 .. Len(s) /\ j + k \in 1 .. Len(s) /\ t[i] = s[i + k] /\ t[j] = s[j + k]
      <3>1. \A x \in 1 .. Len(t) : x + k \in 1 .. Len(s) /\ t[x] = s[x + k]
        BY <1>1, <1>2
      <3>2. QED
        BY <3>1
    <2>2. t[i][1] \in toolong \/ (j + k) - (i + k) < BufferSize
      BY <1>6, <2>1 DEF Piece
    <2>3. QED
      BY <2>2, <1>1
  <1>7. QED
    BY <1>2, <1>3, <1>4, <1>5, <1>6 DEF Piece, t

\* Requests are numbered upwards.
LEMMA PieceAscends ==
    ASSUME NEW n, NEW toolong, NEW s, Piece(s, n, toolong),
           NEW i \in 1 .. Len(s), NEW j \in i .. Len(s)
    PROVE  s[i][1] <= s[j][1]
  <1>1. Len(s) \in Nat /\ \A x \in 1 .. Len(s) : s[x] \in Unit /\ s[x][1] \in Nat
    BY DEF Piece, Unit
  <1> DEFINE S == {d \in 0 .. Len(s) - i : s[i][1] <= s[i + d][1]}
  <1>2. 0 \in S
    BY <1>1
  <1>3. ASSUME NEW d \in 1 .. Len(s) - i, d - 1 \in S PROVE d \in S
    <2>1. i + d \in 1 .. Len(s) /\ i + (d - 1) \in 1 .. Len(s) - 1 /\ (i + (d - 1)) + 1 = i + d
      BY <1>1
    <2>2. Follows(s[i + (d - 1)], s[i + d])
      BY <2>1 DEF Piece
    <2>3. s[i + (d - 1)][1] <= s[i + d][1]
      BY <1>1, <2>1, <2>2 DEF Follows
    <2>4. s[i][1] <= s[i + (d - 1)][1] /\ d \in 0 .. Len(s) - i
      BY <1>1, <1>3
    <2>5. s[i][1] \in Nat /\ s[i + (d - 1)][1] \in Nat /\ s[i + d][1] \in Nat
      BY <1>1, <2>1
    <2>6. s[i][1] <= s[i + d][1]
      BY <2>3, <2>4, <2>5
    <2>7. QED
      BY <2>4, <2>6
  <1>4. 0 .. Len(s) - i \subseteq S
    <2>1. Len(s) - i \in Nat
      BY <1>1
    <2> HIDE DEF S
    <2>2. QED
      BY <1>2, <1>3, <2>1, UpTo
  <1>5. j - i \in 0 .. Len(s) - i /\ i + (j - i) = j
    BY <1>1
  <1>6. QED
    BY <1>4, <1>5

\* A request that begins before its blank line goes on to it.
LEMMA PieceOfOne ==
    ASSUME NEW n, NEW toolong, NEW s, Piece(s, n, toolong),
           NEW stop \in 1 .. Len(s), s[1][2] \in {"line", "header"},
           \A i \in 1 .. stop - 2 : s[i][2] # "cr"
    PROVE  \A i \in 1 .. stop : s[i][1] = s[1][1]
  <1>1. Len(s) \in Nat /\ \A x \in 1 .. Len(s) : s[x] \in Unit
    BY DEF Piece
  <1> DEFINE S == {d \in 0 .. stop - 1 : /\ s[d + 1][1] = s[1][1]
                                         /\ d + 1 < stop => s[d + 1][2] # "lf"}
  <1>2. 0 \in S
    BY <1>1
  <1>3. ASSUME NEW d \in 1 .. stop - 1, d - 1 \in S PROVE d \in S
    <2>1. d \in 1 .. Len(s) - 1 /\ d + 1 \in 1 .. Len(s)
      BY <1>1
    <2>2. Follows(s[d], s[d + 1])
      BY <2>1 DEF Piece
    <2>3. s[d][1] = s[1][1] /\ s[d][2] # "lf"
      BY <1>3, <2>1
    <2>4. s[d + 1][1] = s[1][1]
      BY <1>1, <2>1, <2>2, <2>3 DEF Follows
    <2>5. d + 1 < stop => s[d + 1][2] # "lf"
      <3> SUFFICES ASSUME d + 1 < stop PROVE s[d + 1][2] # "lf"
        OBVIOUS
      <3>1. s[d][2] # "cr"
        BY <1>1, <2>1
      <3>2. QED
        BY <1>1, <2>1, <2>2, <2>3, <3>1 DEF Follows
    <2>6. QED
      BY <2>4, <2>5
  <1>4. 0 .. stop - 1 \subseteq S
    <2>1. stop - 1 \in Nat
      BY <1>1
    <2> HIDE DEF S
    <2>2. QED
      BY <1>2, <1>3, <2>1, UpTo
  <1>5. ASSUME NEW i \in 1 .. stop PROVE s[i][1] = s[1][1]
    <2>1. i - 1 \in S
      BY <1>1, <1>4
    <2>2. (i - 1) + 1 = i
      BY <1>1
    <2>3. QED
      BY <2>1, <2>2
  <1>6. QED
    BY <1>5

\* A blank line is begun by its carriage return.
LEMMA PieceBlankLine ==
    ASSUME NEW n, NEW toolong, NEW s, Piece(s, n, toolong),
           NEW i \in 1 .. Len(s) - 1, s[i][2] = "cr"
    PROVE  s[i + 1] = <<s[i][1], "lf">>
  <1>1. Follows(s[i], s[i + 1])
    BY DEF Piece
  <1>2. QED
    BY <1>1 DEF Follows

LEMMA MessageAt ==
    ASSUME NEW r \in Nat, NEW h \in Nat
    PROVE  LET m == Message(r, h)
           IN  /\ m \in Seq(Unit) /\ Len(m) = h + 3
               /\ \A i \in 1 .. h + 3 :
                     m[i] = IF i = 1 THEN <<r, "line">>
                            ELSE IF i <= h + 1 THEN <<r, "header">>
                            ELSE IF i = h + 2 THEN <<r, "cr">> ELSE <<r, "lf">>
  <1> DEFINE a == <<<<r, "line">>>>
             b == [i \in 1 .. h |-> <<r, "header">>]
             c == <<<<r, "cr">>, <<r, "lf">>>>
  <1>1. a \in Seq(Unit) /\ Len(a) = 1 /\ a[1] = <<r, "line">>
    BY DEF Unit
  <1>2. b \in Seq(Unit) /\ Len(b) = h /\ \A i \in 1 .. h : b[i] = <<r, "header">>
    BY DEF Unit
  <1>3. c \in Seq(Unit) /\ Len(c) = 2 /\ c[1] = <<r, "cr">> /\ c[2] = <<r, "lf">>
    BY DEF Unit
  <1> HIDE DEF a, b, c
  <1>4. Message(r, h) = (a \o b) \o c
    BY DEF Message, a, b, c
  <1> DEFINE ab == a \o b
             m  == ab \o c
  <1>5. /\ ab \in Seq(Unit) /\ Len(ab) = h + 1
        /\ ab[1] = <<r, "line">> /\ \A i \in 1 .. h : ab[i + 1] = <<r, "header">>
    <2>1. /\ ab \in Seq(Unit) /\ Len(ab) = Len(a) + Len(b)
          /\ \A i \in 1 .. Len(a) + Len(b) :
                ab[i] = IF i <= Len(a) THEN a[i] ELSE b[i - Len(a)]
      BY <1>1, <1>2, ConcatAt
    <2> HIDE DEF ab
    <2>2. ab[1] = <<r, "line">>
      BY <1>1, <1>2, <2>1
    <2>3. ASSUME NEW i \in 1 .. h PROVE ab[i + 1] = <<r, "header">>
      <3>1. i + 1 \in 1 .. Len(a) + Len(b) /\ ~(i + 1 <= Len(a)) /\ i + 1 - Len(a) = i
        BY <1>1, <1>2
      <3>2. ab[i + 1] = b[i]
        BY <2>1, <3>1
      <3>3. QED
        BY <1>2, <3>2
    <2>4. QED
      BY <1>1, <1>2, <2>1, <2>2, <2>3
  <1> HIDE DEF ab
  <1>6. /\ m \in Seq(Unit) /\ Len(m) = Len(ab) + Len(c)
        /\ \A i \in 1 .. Len(ab) + Len(c) :
              m[i] = IF i <= Len(ab) THEN ab[i] ELSE c[i - Len(ab)]
    BY <1>3, <1>5, ConcatAt
  <1> HIDE DEF m
  <1>7. ASSUME NEW i \in 1 .. h + 3
        PROVE  m[i] = IF i = 1 THEN <<r, "line">>
                      ELSE IF i <= h + 1 THEN <<r, "header">>
                      ELSE IF i = h + 2 THEN <<r, "cr">> ELSE <<r, "lf">>
    <2>0. i \in 1 .. Len(ab) + Len(c)
      BY <1>3, <1>5
    <2>1. CASE i = 1
      BY <1>5, <1>6, <2>0, <2>1
    <2>2. CASE i # 1 /\ i <= h + 1
      <3>1. i - 1 \in 1 .. h /\ (i - 1) + 1 = i
        BY <2>2
      <3>2. ab[i] = <<r, "header">>
        BY <1>5, <3>1
      <3>3. QED
        BY <1>5, <1>6, <2>0, <2>2, <3>2
    <2>3. CASE i = h + 2
      <3>1. ~(i <= Len(ab)) /\ i - Len(ab) = 1
        BY <1>5, <2>3
      <3>2. m[i] = c[1]
        BY <1>6, <2>0, <3>1
      <3>3. QED
        BY <1>3, <2>3, <3>2
    <2>4. CASE i = h + 3
      <3>1. ~(i <= Len(ab)) /\ i - Len(ab) = 2
        BY <1>5, <2>4
      <3>2. m[i] = c[2]
        BY <1>6, <2>0, <3>1
      <3>3. QED
        BY <1>3, <2>4, <3>2
    <2>5. QED
      BY <2>1, <2>2, <2>3, <2>4
  <1>8. m \in Seq(Unit) /\ Len(m) = h + 3
    BY <1>3, <1>5, <1>6
  <1>9. QED
    BY <1>4, <1>7, <1>8 DEF m, ab

\* The next request makes a longer piece, with one more blank line.
LEMMA PieceGrows ==
    ASSUME NEW n \in Nat, NEW toolong, NEW s, Piece(s, n, toolong), NEW h \in Nat,
           NEW toolong2, toolong \subseteq toolong2,
           h + 3 > BufferSize => n + 1 \in toolong2
    PROVE  LET t == s \o Message(n + 1, h)
           IN  /\ Piece(t, n + 1, toolong2)
               /\ EndsIn(n + 1, t)
               /\ \A r : EndsIn(r, s) => EndsIn(r, t)
               /\ \A r \in 0 .. n : Before(r, s, toolong) => Before(r, t, toolong2)
  <1> DEFINE m == Message(n + 1, h)
             t == s \o m
  <1>0. s \in Seq(Unit) /\ Len(s) \in Nat /\ BufferSize \in Nat
    BY ConnectionAssumption DEF Piece
  <1>1. /\ m \in Seq(Unit) /\ Len(m) = h + 3
        /\ \A i \in 1 .. h + 3 :
              m[i] = IF i = 1 THEN <<n + 1, "line">>
                     ELSE IF i <= h + 1 THEN <<n + 1, "header">>
                     ELSE IF i = h + 2 THEN <<n + 1, "cr">> ELSE <<n + 1, "lf">>
    <2> DEFINE r == n + 1
    <2>1. r \in Nat
      OBVIOUS
    <2> HIDE DEF r
    <2>2. LET q == Message(r, h)
          IN  /\ q \in Seq(Unit) /\ Len(q) = h + 3
              /\ \A i \in 1 .. h + 3 :
                    q[i] = IF i = 1 THEN <<r, "line">>
                           ELSE IF i <= h + 1 THEN <<r, "header">>
                           ELSE IF i = h + 2 THEN <<r, "cr">> ELSE <<r, "lf">>
      BY <2>1, MessageAt
    <2>3. QED
      BY <2>2 DEF r
  <1> HIDE DEF m
  <1>2. /\ t \in Seq(Unit) /\ Len(t) = Len(s) + h + 3
        /\ \A i \in 1 .. Len(s) : t[i] = s[i]
        /\ \A i \in 1 .. h + 3 : t[Len(s) + i] = m[i]
    <2>1. /\ t \in Seq(Unit) /\ Len(t) = Len(s) + Len(m)
          /\ \A i \in 1 .. Len(s) + Len(m) :
                t[i] = IF i <= Len(s) THEN s[i] ELSE m[i - Len(s)]
      BY <1>0, <1>1, ConcatAt
    <2>2. ASSUME NEW i \in 1 .. h + 3 PROVE t[Len(s) + i] = m[i]
      <3>1. Len(s) + i \in 1 .. Len(s) + Len(m) /\ ~(Len(s) + i <= Len(s))
            /\ Len(s) + i - Len(s) = i
        BY <1>0, <1>1
      <3>2. QED
        BY <2>1, <3>1
    <2>3. QED
      BY <1>0, <1>1, <2>1, <2>2
  <1> HIDE DEF t
  <1>3. \A i \in 1 .. Len(t) : \/ i \in 1 .. Len(s)
                               \/ i - Len(s) \in 1 .. h + 3 /\ i = Len(s) + (i - Len(s))
    BY <1>0, <1>2
  <1>4. ASSUME NEW i \in 1 .. Len(t) - 1 PROVE Follows(t[i], t[i + 1])
    <2>1. CASE i < Len(s)
      <3>1. i \in 1 .. Len(s) - 1 /\ t[i] = s[i] /\ t[i + 1] = s[i + 1]
        BY <1>0, <1>2, <2>1
      <3>2. QED
        BY <3>1 DEF Piece
    <2>2. CASE i = Len(s)
      <3>1. t[i] = <<n, "lf">> /\ t[i + 1] = <<n + 1, "line">>
        BY <1>0, <1>1, <1>2, <2>2 DEF Piece
      <3>2. QED
        BY <3>1 DEF Follows
    <2>3. CASE i > Len(s)
      <3>1. PICK x \in 1 .. h + 2 : i = Len(s) + x /\ i + 1 = Len(s) + (x + 1)
        <4>1. i - Len(s) \in 1 .. h + 2 /\ i = Len(s) + (i - Len(s))
              /\ i + 1 = Len(s) + ((i - Len(s)) + 1)
          BY <1>0, <1>2, <2>3
        <4>2. QED
          BY <4>1
      <3>2. t[i] = m[x] /\ t[i + 1] = m[x + 1]
        BY <1>2, <3>1
      <3>3. QED
        BY <1>1, <3>2, SMTT(30) DEF Follows
    <2>4. QED
      BY <1>0, <2>1, <2>2, <2>3
  <1>5. ASSUME NEW i \in 1 .. Len(t) PROVE t[i][1] \in 1 .. n + 1
    <2>1. CASE i \in 1 .. Len(s)
      <3>1. t[i] = s[i] /\ s[i][1] \in 1 .. n
        BY <1>2, <2>1 DEF Piece
      <3>2. QED
        BY <3>1
    <2>2. CASE i - Len(s) \in 1 .. h + 3 /\ i = Len(s) + (i - Len(s))
      <3>1. t[i] = m[i - Len(s)]
        BY <1>2, <2>2
      <3>2. QED
        BY <1>1, <2>2, <3>1
    <2>3. QED
      BY <1>3, <2>1, <2>2
  <1>6. t[Len(t)] = <<n + 1, "lf">>
    <2>1. Len(t) = Len(s) + (h + 3)
      BY <1>0, <1>2
    <2>2. t[Len(t)] = m[h + 3]
      BY <1>2, <2>1
    <2>3. QED
      BY <1>1, <2>2
  <1>7. ASSUME NEW i \in 1 .. Len(t), NEW j \in 1 .. Len(t), t[i][1] = t[j][1]
        PROVE  t[i][1] \in toolong2 \/ j - i < BufferSize
    <2>1. \A x \in 1 .. Len(t) : IF x \in 1 .. Len(s) THEN t[x] = s[x] /\ t[x][1] < n + 1
                                 ELSE t[x][1] = n + 1
      <3> SUFFICES ASSUME NEW x \in 1 .. Len(t)
                   PROVE  IF x \in 1 .. Len(s) THEN t[x] = s[x] /\ t[x][1] < n + 1
                                               ELSE t[x][1] = n + 1
        OBVIOUS
      <3>1. CASE x \in 1 .. Len(s)
        <4>1. t[x] = s[x] /\ s[x][1] \in 1 .. n
          BY <1>2, <3>1 DEF Piece
        <4>2. QED
          BY <3>1, <4>1
      <3>2. CASE x \notin 1 .. Len(s)
        <4>1. t[x] = m[x - Len(s)] /\ x - Len(s) \in 1 .. h + 3
          BY <1>2, <1>3, <3>2
        <4>2. m[x - Len(s)][1] = n + 1
          BY <1>1, <4>1
        <4>3. QED
          BY <3>2, <4>1, <4>2
      <3>3. QED
        BY <3>1, <3>2
    <2>2. CASE i \in 1 .. Len(s)
      <3>1. j \in 1 .. Len(s)
        BY <1>7, <2>1, <2>2
      <3>2. t[i] = s[i] /\ t[j] = s[j]
        BY <2>1, <2>2, <3>1
      <3>3. QED
        BY <1>7, <2>2, <3>1, <3>2 DEF Piece
    <2>3. CASE i \notin 1 .. Len(s)
      <3>1. t[i][1] = n + 1 /\ j - i < h + 3
        BY <1>0, <1>2, <2>1, <2>3
      <3>2. QED
        BY <1>0, <3>1
    <2>4. QED
      BY <2>2, <2>3
  <1>8. EndsIn(n + 1, t)
    <2>1. t[Len(s) + (h + 2)] = <<n + 1, "cr">> /\ t[Len(s) + (h + 3)] = <<n + 1, "lf">>
      <3>1. h + 2 \in 1 .. h + 3 /\ h + 3 \in 1 .. h + 3
        OBVIOUS
      <3>2. t[Len(s) + (h + 2)] = m[h + 2] /\ t[Len(s) + (h + 3)] = m[h + 3]
        BY <1>2, <3>1
      <3>3. m[h + 2] = <<n + 1, "cr">> /\ m[h + 3] = <<n + 1, "lf">>
        BY <1>1, <3>1
      <3>4. QED
        BY <3>2, <3>3
    <2>2. Len(s) + (h + 2) \in 1 .. Len(t) - 1 /\ Len(s) + (h + 2) + 1 = Len(s) + (h + 3)
      BY <1>0, <1>2
    <2>3. QED
      BY <2>1, <2>2 DEF EndsIn
  <1>9. ASSUME NEW r, EndsIn(r, s) PROVE EndsIn(r, t)
    <2>1. PICK i \in 1 .. Len(s) - 1 : s[i] = <<r, "cr">> /\ s[i + 1] = <<r, "lf">>
      BY <1>9 DEF EndsIn
    <2>2. i \in 1 .. Len(t) - 1 /\ t[i] = s[i] /\ t[i + 1] = s[i + 1]
      BY <1>0, <1>2
    <2>3. QED
      BY <2>1, <2>2 DEF EndsIn
  <1>10. ASSUME NEW r \in 0 .. n, Before(r, s, toolong) PROVE Before(r, t, toolong2)
    <2> SUFFICES ASSUME NEW j \in 1 .. Len(t)
                 PROVE  r < t[j][1] \/ (r = t[j][1] /\ r \in toolong2)
      BY DEF Before
    <2>1. CASE j \in 1 .. Len(s)
      BY <1>2, <1>10, <2>1 DEF Before
    <2>2. CASE j - Len(s) \in 1 .. h + 3 /\ j = Len(s) + (j - Len(s))
      <3>1. t[j] = m[j - Len(s)]
        BY <1>2, <2>2
      <3>2. t[j][1] = n + 1
        BY <1>1, <2>2, <3>1
      <3>3. QED
        BY <3>2
    <2>3. QED
      BY <1>3, <2>1, <2>2
  <1>11. Piece(t, n + 1, toolong2)
    BY <1>2, <1>4, <1>5, <1>6, <1>7 DEF Piece
  <1>12. QED
    BY <1>8, <1>9, <1>10, <1>11 DEF t, m

LEMMA StreamAt ==
    ASSUME Types
    PROVE  /\ Len(buf) \in Nat /\ Len(Ahead) \in Nat /\ Len(wire) \in Nat /\ Len(rest) \in Nat
           /\ Ahead \in Seq(Unit) /\ Len(Ahead) = Len(wire) + Len(rest)
           /\ Stream \in Seq(Unit) /\ Len(Stream) = Len(buf) + Len(Ahead)
           /\ \A i \in 1 .. Len(buf) + Len(Ahead) :
                 Stream[i] = IF i <= Len(buf) THEN buf[i] ELSE Ahead[i - Len(buf)]
           /\ buf = <<>> => Stream = Ahead
           /\ rest = <<>> => Ahead = wire
  <1>1. wire \in Seq(Unit) /\ rest \in Seq(Unit) /\ buf \in Seq(Unit)
    BY DEF Types
  <1>2. Ahead \in Seq(Unit) /\ Len(Ahead) = Len(wire) + Len(rest)
    BY <1>1, ConcatAt DEF Ahead
  <1>3. rest = <<>> => Ahead = wire
    BY <1>1 DEF Ahead
  <1> HIDE DEF Ahead
  <1>4. /\ Stream \in Seq(Unit) /\ Len(Stream) = Len(buf) + Len(Ahead)
        /\ \A i \in 1 .. Len(buf) + Len(Ahead) :
                 Stream[i] = IF i <= Len(buf) THEN buf[i] ELSE Ahead[i - Len(buf)]
    <2>1. buf \in Seq(Unit) /\ Ahead \in Seq(Unit)
      BY <1>1, <1>2
    <2>2. QED
      BY <2>1, ConcatAt DEF Stream
  <1>5. buf = <<>> => Stream = Ahead
    BY <1>2 DEF Stream
  <1>6. QED
    BY <1>1, <1>2, <1>3, <1>4, <1>5

\* A step that moves nothing in the stream and answers nothing.
LEMMA QuietStep ==
    ASSUME StreamInv, UNCHANGED <<buf, Ahead, answers, cut, hasty, long, asked>>,
           \/ UNCHANGED <<pc, resp>>
           \/ pc \in {"read", "parse"} /\ pc' = "send" /\ ~resp'.stays
           \/ pc = "parse" /\ pc' = "send" /\ Proper
           \/ pc = "again" /\ pc' = "read"
           \/ pc' \in {"close", "closed"}
    PROVE  InPieces' /\ InOrder' /\ Accounted'
  <1>1. Stream' = Stream
    BY DEF Stream
  <1> USE DEF StreamInv
  <1>2. AnswersInOrder'
    BY DEF InOrder, AnswersInOrder
  <1>3. BufferSize \in Nat \ {0}
    BY ConnectionAssumption
  <1>4. CASE UNCHANGED <<pc, resp>>
    <2>1. Proper' = Proper /\ Lasting' = Lasting
      BY <1>4 DEF Proper, Lasting
    <2>2. InPieces'
      BY <1>1, <1>4, <2>1 DEF InPieces
    <2>3. InOrder'
      BY <1>2, <1>4 DEF InOrder
    <2>4. Accounted'
      BY <1>1, <1>4, <2>1 DEF Accounted
    <2>5. QED
      BY <2>2, <2>3, <2>4
  <1>5. CASE pc \in {"read", "parse"} /\ pc' = "send" /\ ~resp'.stays
    BY <1>1, <1>2, <1>5 DEF InPieces, InOrder, Accounted, Lasting
  <1>6. CASE pc = "parse" /\ pc' = "send" /\ Proper
    <2>1. Proper' /\ Lasting
      BY <1>6 DEF Proper, Lasting
    <2>2. InPieces'
      BY <1>6, <2>1 DEF InPieces
    <2>3. InOrder'
      BY <1>2, <1>6 DEF InOrder
    <2>4. Accounted'
      BY <1>6, <2>1 DEF Accounted
    <2>5. QED
      BY <2>2, <2>3, <2>4
  <1>7. CASE pc = "again" /\ pc' = "read"
    <2>1. buf = <<>> /\ Stream = Ahead /\ Len(buf) = 0
      BY <1>7, StreamAt DEF Types
    <2>2. InPieces'
      BY <1>1, <1>3, <1>7, <2>1 DEF InPieces, Lasting
    <2>3. InOrder'
      BY <1>2, <1>7 DEF InOrder
    <2>4. Accounted'
      BY <1>1, <1>7 DEF Accounted, Lasting
    <2>5. QED
      BY <2>2, <2>3, <2>4
  <1>8. CASE pc' \in {"close", "closed"}
    BY <1>2, <1>8 DEF InPieces, InOrder, Accounted, Lasting
  <1>9. QED
    BY <1>4, <1>5, <1>6, <1>7, <1>8

-----------------------------------------------------------------------------
(* The client.                                                             *)

LEMMA AskKeeps ==
    ASSUME StreamInv, NEW h \in Nat, Ask(h)
    PROVE  StreamInv'
  <1> DEFINE M == Message(asked + 1, h)
  <1> USE DEF StreamInv, stream, setting, spoken
  <1>1. /\ rest = <<>> /\ asked < MaxRequests /\ asked' = asked + 1 /\ rest' = M
        /\ long' = (IF Len(M) > BufferSize THEN long \union {asked + 1} ELSE long)
        /\ hasty' = (IF 1 .. asked \subseteq ToSet(answers) THEN hasty
                                                           ELSE hasty \union {asked + 1})
        /\ UNCHANGED <<ended, wire, buf, cut, tls, missing, answers, said, pc, resp, timed, shutdown>>
    BY DEF Ask
  <1>2. asked \in Nat /\ MaxRequests \in Nat
    BY ConnectionAssumption DEF Types, TypeOK
  <1>3. M \in Seq(Unit) /\ Len(M) = h + 3
    <2>1. asked + 1 \in Nat
      BY <1>2
    <2>2. QED
      BY <2>1, MessageAt
  <1>4. /\ wire \in Seq(Unit) /\ buf \in Seq(Unit) /\ Ahead \in Seq(Unit)
        /\ Ahead = wire /\ Stream \in Seq(Unit)
    BY <1>1, StreamAt DEF Types
  <1> HIDE DEF M
  <1>5. Ahead' = Ahead \o M
    BY <1>1, <1>4 DEF Ahead
  <1>6. Stream' = Stream \o M
    <2>1. (buf \o Ahead) \o M = buf \o (Ahead \o M)
      <3>1. buf \in Seq(Unit) /\ Ahead \in Seq(Unit) /\ M \in Seq(Unit)
        BY <1>3, <1>4
      <3> HIDE DEF Ahead
      <3>2. QED
        BY <3>1, Associative
    <2>2. Stream' = buf \o Ahead'
      BY <1>1 DEF Stream
    <2>3. QED
      BY <1>5, <2>1, <2>2 DEF Stream
  <1>7. long \subseteq long' /\ (h + 3 > BufferSize => asked + 1 \in long')
    BY <1>1, <1>3
  <1>8. Types'
    <2>1. TypeOK'
      BY <1>1, <1>2 DEF Types, TypeOK
    <2>2. /\ \A i \in 1 .. Len(buf) : buf[i][1] \in 1 .. asked'
          /\ \A i \in 1 .. Len(answers) : answers[i] <= asked'
      <3>1. \A i \in 1 .. Len(answers) : answers[i] \in Nat
        BY DEF Types
      <3>2. QED
        BY <1>1, <1>2, <3>1, SMTT(30) DEF Types
    <2>3. QED
      BY <1>1, <1>3, <2>1, <2>2 DEF Types
  <1> DEFINE new == asked + 1
  <1>9. /\ Piece(Ahead, asked, long) =>
              Piece(Ahead', new, long') /\ EndsIn(new, Ahead')
        /\ Piece(Stream, asked, long) =>
              Piece(Stream', new, long') /\ EndsIn(new, Stream')
    BY <1>2, <1>5, <1>6, <1>7, PieceGrows DEF M
  <1>10. Piece(Ahead, asked, long)
    BY DEF InPieces
  <1>11. \A r : EndsIn(r, Ahead) => EndsIn(r, Ahead')
    BY <1>2, <1>5, <1>7, <1>10, PieceGrows DEF M
  <1>12. \A r \in 0 .. asked : Before(r, Ahead, long) => Before(r, Ahead', long')
    BY <1>2, <1>5, <1>7, <1>10, PieceGrows DEF M
  <1>13. \A r \in 0 .. asked : Before(r, buf, long) => Before(r, buf', long')
    BY <1>1, <1>7 DEF Before
  <1>14. Proper' = Proper /\ Lasting' = Lasting
    BY <1>1 DEF Proper, Lasting
  <1>15. Lasting => buf # <<>> /\ buf[1][1] \in 1 .. asked
    <2>1. Lasting => buf # <<>>
      BY DEF Lasting, Types, TypeOK, InPieces, Proper
    <2>2. buf # <<>> => 1 \in 1 .. Len(buf)
      BY <1>4
    <2>3. QED
      BY <2>1, <2>2 DEF Types
  <1>16. InPieces'
    <2>1. Piece(Ahead', asked', long')
      BY <1>1, <1>9, <1>10
    <2>2. pc' = "read" => /\ Piece(Stream', asked', long')
                          /\ \A i \in 1 .. Len(buf') - 1 : buf'[i][2] # "cr"
                          /\ Len(buf') < BufferSize
      BY <1>1, <1>9 DEF InPieces
    <2>3. Lasting' => /\ Before(buf'[1][1], Ahead', long')
                      /\ Proper' => \A i \in 1 .. Len(buf') : buf'[i][1] = buf'[1][1]
      <3> SUFFICES ASSUME Lasting
                   PROVE  /\ Before(buf[1][1], Ahead', long')
                          /\ Proper => \A i \in 1 .. Len(buf) : buf[i][1] = buf[1][1]
        BY <1>1, <1>14
      <3>1. buf[1][1] \in 0 .. asked
        BY <1>2, <1>15
      <3>2. QED
        BY <1>12, <3>1 DEF InPieces
    <2>4. (pc' = "send" /\ resp'.stays) => Proper'
      BY <1>1, <1>14 DEF InPieces
    <2>5. QED
      BY <2>1, <2>2, <2>3, <2>4 DEF InPieces
  <1>17. InOrder'
    <2>1. AnswersInOrder'
      BY <1>1, <1>7 DEF InOrder, AnswersInOrder
    <2>2. \A i \in 1 .. Len(answers) : answers[i] \in 0 .. asked
      <3>1. \A i \in 1 .. Len(answers) : answers[i] \in Nat
        BY DEF Types
      <3>2. QED
        BY <1>2, <3>1 DEF Types
    <2>3. QED
      BY <1>1, <1>12, <1>13, <2>1, <2>2 DEF InOrder
  <1>18. Accounted'
    <2>1. \A r \in 1 .. asked' : r \in 1 .. asked \/ r = new
      BY <1>1, <1>2
    <2>2. ASSUME pc' \in {"read", "again"}, NEW r \in 1 .. asked'
          PROVE  r \in ToSet(answers') \union cut' \/ EndsIn(r, Stream')
      <3>1. Piece(Stream, asked, long)
        <4>1. CASE pc = "read"
          BY <4>1 DEF InPieces
        <4>2. CASE pc = "again"
          BY <1>10, <4>2, StreamAt DEF Types
        <4>3. QED
          BY <1>1, <2>2, <4>1, <4>2
      <3>2. \A x : EndsIn(x, Stream) => EndsIn(x, Stream')
        BY <1>2, <1>6, <1>7, <3>1, PieceGrows DEF M
      <3>3. CASE r = new
        BY <1>9, <3>1, <3>3
      <3>4. CASE r \in 1 .. asked
        BY <1>1, <2>2, <3>2, <3>4 DEF Accounted
      <3>5. QED
        BY <2>1, <3>3, <3>4
    <2>3. ASSUME Lasting', Proper', NEW r \in 1 .. asked'
          PROVE  r \in ToSet(answers') \union cut' \union {buf'[1][1]} \/ EndsIn(r, Ahead')
      <3>1. CASE r = new
        BY <1>9, <1>10, <3>1
      <3>2. CASE r \in 1 .. asked
        BY <1>1, <1>11, <1>14, <2>3, <3>2 DEF Accounted
      <3>3. QED
        BY <2>1, <3>1, <3>2
    <2>4. hasty' = {} => 1 .. asked' - 1 \subseteq ToSet(answers')
      <3>1. asked' - 1 = asked
        BY <1>1, <1>2
      <3>2. QED
        BY <1>1, <3>1
    <2>5. cut' # {} => hasty' # {} \/ long' # {}
      BY <1>1, <1>7 DEF Accounted
    <2>6. QED
      BY <2>2, <2>3, <2>4, <2>5 DEF Accounted
  <1>19. QED
    BY <1>8, <1>16, <1>17, <1>18

LEMMA TransmitKeeps ==
    ASSUME StreamInv, NEW k, Transmit(k)
    PROVE  StreamInv'
  <1> USE DEF StreamInv, stream, setting, spoken
  <1>1. /\ k \in 1 .. Len(rest)
        /\ wire' = wire \o SubSeq(rest, 1, k)
        /\ rest' = SubSeq(rest, k + 1, Len(rest))
        /\ UNCHANGED <<asked, ended, hasty, long, buf, cut, tls, missing, answers, said,
                       pc, resp, timed, shutdown>>
    BY DEF Transmit
  <1>2. wire \in Seq(Unit) /\ rest \in Seq(Unit) /\ Len(rest) \in Nat
    BY DEF Types
  <1>3. SubSeq(rest, 1, k) \in Seq(Unit) /\ rest' \in Seq(Unit)
    BY <1>1, <1>2, SubSeqAt, DropAt
  <1>4. wire' \in Seq(Unit)
    BY <1>1, <1>2, <1>3, ConcatAt
  <1>5. Ahead' = Ahead
    <2> DEFINE sent == SubSeq(rest, 1, k)
    <2>1. wire' \o rest' = wire \o (sent \o rest')
      <3>1. wire' = wire \o sent /\ sent \in Seq(Unit)
        BY <1>1, <1>3
      <3> HIDE DEF sent
      <3>2. QED
        BY <1>2, <1>3, <3>1, Associative, SMTT(30)
    <2>2. SubSeq(rest, 1, k) \o rest' = rest
      BY <1>1, <1>2, CutAndJoined
    <2>3. QED
      BY <2>1, <2>2 DEF Ahead
  <1>6. Types'
    BY <1>1, <1>3, <1>4 DEF Types, TypeOK
  <1>7. QED
    BY <1>1, <1>5, <1>6, QuietStep

-----------------------------------------------------------------------------
(* The worker.                                                             *)

\* What one turn of read_headers does to the stream: the buffer is its first `stop'
\* units, what is left begins after unit n, and no blank line ends before stop.
LEMMA ReadParts ==
    ASSUME StreamInv, NEW k, Read(k)
    PROVE  \E n, stop \in 1 .. Len(Stream) :
             /\ n <= BufferSize /\ stop <= n
             /\ buf' \in Seq(Unit) /\ Len(buf') = stop
             /\ \A i \in 1 .. stop : buf'[i] = Stream[i]
             /\ Ahead' = SubSeq(Ahead, n - Len(buf) + 1, Len(Ahead))
             /\ n - Len(buf) \in 0 .. Len(Ahead)
             /\ wire' \in Seq(Unit)
             /\ \A i \in 1 .. stop - 2 : Stream[i][2] # "cr"
             /\ cut' = cut \union {Stream[i][1] : i \in stop + 1 .. n}
             /\ \/ Stream[stop] = <<Stream[stop][1], "lf">> /\ pc' = "parse"
                \/ /\ stop = n /\ Stream' = Stream
                   /\ \A i \in 1 .. stop - 1 : Stream[i][2] # "cr"
                   /\ IF n = BufferSize THEN pc' = "parse" ELSE pc' = "read"
  <1> USE DEF StreamInv, client, setting, spoken
  <1> DEFINE taken == SubSeq(wire, 1, k)
             units == buf \o taken
             ends  == BlankLines(units, Scan(Len(buf)))
             n     == Len(buf) + k
             last  == CHOOSE i \in ends : \A j \in ends : i <= j
             stop  == IF ends = {} THEN Len(units) ELSE 1 + last
  <1>1. /\ pc = "read" /\ k \in 1 .. Least(Len(wire), Want(Len(buf)))
        /\ buf' = SubSeq(units, 1, stop)
        /\ cut' = cut \union {units[i][1] : i \in stop + 1 .. Len(units)}
        /\ pc' = (IF ends # {} \/ stop = BufferSize THEN "parse" ELSE "read")
        /\ wire' = SubSeq(wire, k + 1, Len(wire)) /\ rest' = rest
    BY DEF Read
  <1>2. /\ wire \in Seq(Unit) /\ rest \in Seq(Unit) /\ buf \in Seq(Unit)
        /\ Len(buf) \in Nat /\ Len(buf) < BufferSize /\ BufferSize \in Nat /\ ChunkSize \in Nat
        /\ Piece(Stream, asked, long) /\ \A i \in 1 .. Len(buf) - 1 : buf[i][2] # "cr"
    BY <1>1, ConnectionAssumption DEF Types, InPieces
  <1>3. /\ Len(wire) \in Nat /\ Len(rest) \in Nat /\ Len(Ahead) = Len(wire) + Len(rest)
        /\ Stream \in Seq(Unit) /\ Len(Stream) = Len(buf) + Len(Ahead)
        /\ \A i \in 1 .. Len(buf) + Len(Ahead) :
              Stream[i] = IF i <= Len(buf) THEN buf[i] ELSE Ahead[i - Len(buf)]
    BY StreamAt
  <1>4. k \in Nat /\ k > 0 /\ k <= Len(wire) /\ n \in Nat /\ n <= BufferSize /\ n <= Len(Stream)
        /\ n > Len(buf)
    BY <1>1, <1>2, <1>3 DEF Least, Want
  <1>5. taken \in Seq(Unit) /\ Len(taken) = k /\ \A i \in 1 .. k : taken[i] = wire[i]
    <2>1. /\ taken \in Seq(Unit) /\ Len(taken) = k + 1 - 1
          /\ \A i \in 1 .. k + 1 - 1 : taken[i] = wire[i + 1 - 1]
      BY <1>2, <1>3, <1>4, SubSeqAt
    <2>2. QED
      BY <1>4, <2>1
  <1>6. \A i \in 1 .. Len(wire) : Ahead[i] = wire[i]
    BY <1>2, <1>3, ConcatAt DEF Ahead
  <1>7. units \in Seq(Unit) /\ Len(units) = n /\ \A i \in 1 .. n : units[i] = Stream[i]
    <2>1. taken \in Seq(Unit)
      BY <1>5
    <2>2. /\ units \in Seq(Unit) /\ Len(units) = Len(buf) + Len(taken)
          /\ \A i \in 1 .. Len(buf) + Len(taken) :
                units[i] = IF i <= Len(buf) THEN buf[i] ELSE taken[i - Len(buf)]
      BY <1>2, <2>1, ConcatAt
    <2> HIDE DEF units, taken
    <2>3. ASSUME NEW i \in 1 .. n PROVE units[i] = Stream[i]
      <3>1. CASE i <= Len(buf)
        BY <1>2, <1>3, <1>4, <1>5, <2>2, <3>1
      <3>2. CASE i > Len(buf)
        <4>1. i - Len(buf) \in 1 .. k /\ i - Len(buf) \in 1 .. Len(wire)
          BY <1>2, <1>3, <1>4, <3>2
        <4>2. units[i] = taken[i - Len(buf)]
          BY <1>2, <1>4, <1>5, <2>2, <3>2
        <4>3. Stream[i] = Ahead[i - Len(buf)]
          BY <1>2, <1>3, <1>4, <3>2
        <4>4. QED
          BY <1>5, <1>6, <4>1, <4>2, <4>3
      <3>3. QED
        BY <1>2, <3>1, <3>2
    <2>4. QED
      BY <1>5, <2>2, <2>3
  <1> HIDE DEF taken, units
  <1>8. /\ wire' \in Seq(Unit)
        /\ Ahead' = SubSeq(Ahead, k + 1, Len(Ahead)) /\ k \in 0 .. Len(Ahead)
    <2>1. k \in 0 .. Len(wire) /\ k \in 0 .. Len(Ahead)
      BY <1>3, <1>4
    <2>2. wire' \in Seq(Unit)
      BY <1>1, <1>2, <2>1, DropAt
    <2>3. Ahead' = SubSeq(wire \o rest, k + 1, Len(wire \o rest))
      BY <1>1, <1>2, <2>1, RestOfConcat DEF Ahead
    <2>4. QED
      BY <2>1, <2>2, <2>3 DEF Ahead
  \* The blank lines that are looked for are all there are.
  <1> DEFINE from == Scan(Len(buf))
  <1>9. from \in Nat /\ from >= 1 /\ (from = Len(buf) \/ (from = 1 /\ Len(buf) = 0))
    <2>1. from = IF Len(buf) > 0 THEN Len(buf) ELSE 1
      BY DEF Scan
    <2> HIDE DEF from
    <2>2. QED
      BY <1>2, <2>1
  <1> HIDE DEF from
  <1>10. ends = {i \in from .. n - 1 : units[i][2] = "cr" /\ units[i + 1][2] = "lf"}
    BY <1>7 DEF BlankLines, from
  <1> HIDE DEF ends
  <1>11. ASSUME NEW i \in 1 .. n - 1, Stream[i][2] = "cr" PROVE i \in ends
    <2>1. i \in 1 .. Len(Stream) - 1 /\ i + 1 \in 1 .. n
      BY <1>3, <1>2, <1>4
    <2>2. Stream[i + 1] = <<Stream[i][1], "lf">>
      BY <1>2, <1>11, <2>1, PieceBlankLine
    <2>3. units[i][2] = "cr" /\ units[i + 1][2] = "lf"
      BY <1>7, <1>11, <2>1, <2>2
    <2>4. i >= from
      <3> SUFFICES ASSUME i < from PROVE FALSE
        BY <1>9, <2>1
      <3>1. i \in 1 .. Len(buf) - 1
        BY <1>2, <1>9
      <3>2. Stream[i] = buf[i]
        BY <1>2, <1>3, <3>1
      <3>3. QED
        BY <1>2, <1>11, <3>1, <3>2
    <2>5. QED
      BY <1>4, <1>9, <1>10, <2>3, <2>4
  <1>12. CASE ends = {}
    <2>1. stop = n
      BY <1>7, <1>12
    <2>2. n - Len(buf) = k /\ n \in 1 .. Len(Stream) /\ n <= n
      BY <1>2, <1>3, <1>4
    <2>3. buf' = units
      <3>1. buf' = SubSeq(units, 1, Len(units))
        BY <1>1, <1>12
      <3>2. QED
        BY <1>7, <3>1
    <2>4. \A i \in 1 .. n - 1 : Stream[i][2] # "cr"
      BY <1>11, <1>12
    <2>5. \A i \in 1 .. n - 2 : Stream[i][2] # "cr"
      BY <1>4, <2>4
    <2>6. cut' = cut \union {Stream[i][1] : i \in n + 1 .. n}
      <3>1. n + 1 .. n = {}
        BY <1>4
      <3>2. cut' = cut \union {units[i][1] : i \in n + 1 .. n}
        BY <1>1, <1>7, <2>1
      <3>3. QED
        BY <3>1, <3>2
    <2>7. Stream' = Stream
      <3>1. Stream' = units \o SubSeq(Ahead, k + 1, Len(Ahead))
        BY <1>8, <2>3 DEF Stream
      <3>2. SubSeq(Ahead, k + 1, Len(Ahead)) \in Seq(Unit)
            /\ SubSeq(wire, k + 1, Len(wire)) \in Seq(Unit)
        BY <1>1, <1>2, <1>8, StreamAt, DropAt
      <3>3. SubSeq(Ahead, k + 1, Len(Ahead)) = SubSeq(wire, k + 1, Len(wire)) \o rest
        BY <1>1, <1>8 DEF Ahead
      <3> DEFINE w == SubSeq(wire, k + 1, Len(wire))
      <3>4. taken \o w = wire
        <4>1. k \in 0 .. Len(wire)
          BY <1>3, <1>4
        <4>2. QED
          BY <1>2, <4>1, CutAndJoined DEF taken
      <3>5. taken \in Seq(Unit) /\ w \in Seq(Unit)
        BY <1>5, <3>2
      <3> HIDE DEF w
      <3>6. (buf \o taken) \o (w \o rest) = buf \o (taken \o (w \o rest))
        <4> DEFINE wr == w \o rest
        <4>1. buf \in Seq(Unit) /\ w \in Seq(Unit) /\ rest \in Seq(Unit)
          BY <1>2, <3>5
        <4>2. wr \in Seq(Unit)
          BY <4>1, ConcatAt
        <4> HIDE DEF wr
        <4>3. (buf \o taken) \o wr = buf \o (taken \o wr)
          BY <3>5, <4>1, <4>2, Associative, SMTT(30)
        <4>4. QED
          BY <4>3 DEF wr
      <3>7. taken \o (w \o rest) = (taken \o w) \o rest
        <4>1. taken \in Seq(Unit) /\ w \in Seq(Unit) /\ rest \in Seq(Unit)
          BY <1>2, <3>5
        <4>2. QED
          BY <4>1, Associative, SMTT(30)
      <3>8. QED
        BY <3>1, <3>3, <3>4, <3>6, <3>7 DEF Stream, Ahead, units, w
    <2>8. IF n = BufferSize THEN pc' = "parse" ELSE pc' = "read"
      BY <1>1, <1>12, <2>1
    <2>9. /\ buf' \in Seq(Unit) /\ Len(buf') = n
          /\ \A i \in 1 .. n : buf'[i] = Stream[i]
      BY <1>7, <2>3
    <2>10. /\ Ahead' = SubSeq(Ahead, n - Len(buf) + 1, Len(Ahead))
           /\ n - Len(buf) \in 0 .. Len(Ahead)
      BY <1>8, <2>2
    <2> HIDE DEF n, stop
    <2>11. QED
      BY <1>4, <1>8, <2>2, <2>4, <2>5, <2>6, <2>7, <2>8, <2>9, <2>10
  <1>13. CASE ends # {}
    <2>1. ends \in SUBSET Nat
      BY <1>9, <1>10
    <2>2. last \in ends /\ \A j \in ends : last <= j
      BY <1>13, <2>1, LeastElement
    <2> HIDE DEF last
    <2>3. /\ stop = 1 + last /\ last \in 1 .. n - 1 /\ stop \in 1 .. n /\ stop \in 1 .. Len(Stream)
          /\ last + 1 = stop /\ n \in 1 .. Len(Stream)
      <3>1. stop = 1 + last
        BY <1>13
      <3>2. last \in from .. n - 1
        BY <1>10, <2>2
      <3>3. Len(Stream) \in Nat
        BY <1>2, <1>3
      <3> HIDE DEF stop, n
      <3>4. n \in Nat /\ n <= Len(Stream) /\ n >= 1
        BY <1>2, <1>4
      <3>5. last \in 1 .. n - 1
        BY <1>9, <3>2, <3>4
      <3>6. QED
        BY <3>1, <3>3, <3>4, <3>5
    <2>4. Stream[stop] = <<Stream[stop][1], "lf">>
      <3>1. units[stop][2] = "lf"
        BY <1>10, <2>2, <2>3
      <3>2. Stream[stop][2] = "lf" /\ Stream[stop] \in Unit
        BY <1>3, <1>7, <2>3, <3>1
      <3>3. QED
        BY <3>2 DEF Unit
    <2>5. \A i \in 1 .. stop - 2 : Stream[i][2] # "cr"
      <3> SUFFICES ASSUME NEW i \in 1 .. stop - 2, Stream[i][2] = "cr" PROVE FALSE
        OBVIOUS
      <3>1. i \in 1 .. n - 1 /\ i < last
        BY <1>4, <2>3
      <3>2. i \in ends
        BY <1>11, <3>1
      <3>3. QED
        BY <1>4, <2>2, <2>3, <3>1, <3>2
    <2> HIDE DEF stop
    <2>6. /\ buf' \in Seq(Unit) /\ Len(buf') = stop
          /\ \A i \in 1 .. stop : buf'[i] = Stream[i]
      <3>1. /\ buf' \in Seq(Unit) /\ Len(buf') = stop + 1 - 1
            /\ \A i \in 1 .. stop + 1 - 1 : buf'[i] = units[i + 1 - 1]
        <4>1. 1 \in 1 .. Len(units) + 1 /\ stop \in 1 - 1 .. Len(units)
          BY <1>4, <1>7, <2>3
        <4>2. QED
          BY <1>1, <1>7, <4>1, SubSeqAt
      <3>2. QED
        BY <1>4, <1>7, <2>3, <3>1
    <2>7. cut' = cut \union {Stream[i][1] : i \in stop + 1 .. n}
      <3>1. \A i \in stop + 1 .. n : units[i] = Stream[i]
        BY <1>4, <1>7, <2>3
      <3>2. QED
        BY <1>1, <1>7, <3>1
    <2>8. pc' = "parse"
      BY <1>1, <1>13
    <2>9. /\ Ahead' = SubSeq(Ahead, n - Len(buf) + 1, Len(Ahead))
          /\ n - Len(buf) \in 0 .. Len(Ahead)
      <3>1. n - Len(buf) = k
        BY <1>2, <1>4
      <3>2. QED
        BY <1>8, <3>1
    <2>10. stop <= n
      BY <1>4, <2>3
    <2> HIDE DEF n
    <2>11. QED
      BY <1>4, <1>8, <2>3, <2>4, <2>5, <2>6, <2>7, <2>8, <2>9, <2>10
  <1>14. QED
    BY <1>12, <1>13

LEMMA BeforeStream ==
    ASSUME Types, NEW r, Before(r, buf, long), Before(r, Ahead, long)
    PROVE  Before(r, Stream, long)
  <1>1. /\ Len(buf) \in Nat /\ Len(Ahead) \in Nat /\ Len(Stream) = Len(buf) + Len(Ahead)
        /\ \A i \in 1 .. Len(buf) + Len(Ahead) :
              Stream[i] = IF i <= Len(buf) THEN buf[i] ELSE Ahead[i - Len(buf)]
    BY StreamAt
  <1>2. SUFFICES ASSUME NEW j \in 1 .. Len(Stream)
                 PROVE  r < Stream[j][1] \/ (r = Stream[j][1] /\ r \in long)
    BY DEF Before
  <1>3. CASE j <= Len(buf)
    <2>1. j \in 1 .. Len(buf) /\ Stream[j] = buf[j]
      BY <1>1, <1>3
    <2>2. QED
      BY <2>1 DEF Before
  <1>4. CASE j > Len(buf)
    <2>1. j - Len(buf) \in 1 .. Len(Ahead) /\ Stream[j] = Ahead[j - Len(buf)]
      BY <1>1, <1>4
    <2>2. QED
      BY <2>1 DEF Before
  <1>5. QED
    BY <1>1, <1>3, <1>4

LEMMA ReadKeeps ==
    ASSUME StreamInv, NEW k, Read(k)
    PROVE  StreamInv'
  <1> USE DEF StreamInv, client, setting, spoken
  <1>1. /\ pc = "read" /\ pc' \in {"read", "parse"}
        /\ UNCHANGED <<rest, asked, ended, hasty, long, tls, missing, answers, said,
                       resp, timed, shutdown>>
    BY DEF Read
  <1>2. PICK n \in 1 .. Len(Stream), stop \in 1 .. Len(Stream) :
             /\ n <= BufferSize /\ stop <= n
             /\ buf' \in Seq(Unit) /\ Len(buf') = stop
             /\ \A i \in 1 .. stop : buf'[i] = Stream[i]
             /\ Ahead' = SubSeq(Ahead, n - Len(buf) + 1, Len(Ahead))
             /\ n - Len(buf) \in 0 .. Len(Ahead)
             /\ wire' \in Seq(Unit)
             /\ \A i \in 1 .. stop - 2 : Stream[i][2] # "cr"
             /\ cut' = cut \union {Stream[i][1] : i \in stop + 1 .. n}
             /\ \/ Stream[stop] = <<Stream[stop][1], "lf">> /\ pc' = "parse"
                \/ /\ stop = n /\ Stream' = Stream
                   /\ \A i \in 1 .. stop - 1 : Stream[i][2] # "cr"
                   /\ IF n = BufferSize THEN pc' = "parse" ELSE pc' = "read"
    BY ReadParts
  <1>3. /\ Len(buf) \in Nat /\ Len(Ahead) \in Nat /\ Len(Stream) = Len(buf) + Len(Ahead)
        /\ Ahead \in Seq(Unit) /\ Stream \in Seq(Unit)
        /\ \A i \in 1 .. Len(buf) + Len(Ahead) :
              Stream[i] = IF i <= Len(buf) THEN buf[i] ELSE Ahead[i - Len(buf)]
    BY StreamAt
  <1>4. Piece(Stream, asked, long) /\ Piece(Ahead, asked, long)
    BY <1>1 DEF InPieces
  <1>5. /\ n \in Nat /\ stop \in Nat /\ asked \in Nat /\ BufferSize \in Nat \ {0}
        /\ \A i \in 1 .. Len(Stream) : Stream[i][1] \in 1 .. asked /\ Stream[i][1] \in Nat
    <2>1. asked \in Nat /\ BufferSize \in Nat \ {0}
      BY ConnectionAssumption DEF Types, TypeOK
    <2>2. Len(Stream) \in Nat
      BY <1>3
    <2>3. n \in Nat /\ stop \in Nat
      BY <2>2
    <2>4. \A i \in 1 .. Len(Stream) : Stream[i][1] \in 1 .. asked
      BY <1>4 DEF Piece
    <2>5. QED
      BY <2>1, <2>3, <2>4
  <1>6. Piece(Ahead', asked, long)
    BY <1>2, <1>4, PieceTail
  <1>7. /\ Len(Ahead') = Len(Stream) - n
        /\ \A j \in 1 .. Len(Stream) - n : n + j \in 1 .. Len(Stream) /\ Ahead'[j] = Stream[n + j]
    <2> DEFINE d == n - Len(buf)
    <2>1. d \in 0 .. Len(Ahead) /\ Ahead' = SubSeq(Ahead, d + 1, Len(Ahead))
      BY <1>2
    <2>2. Len(Ahead) - d = Len(Stream) - n
      BY <1>3, <1>5
    <2> HIDE DEF d
    <2>3. Len(Ahead') = Len(Ahead) - d /\ \A j \in 1 .. Len(Ahead) - d : Ahead'[j] = Ahead[j + d]
      BY <1>3, <2>1, DropAt
    <2>4. ASSUME NEW j \in 1 .. Len(Stream) - n
          PROVE  n + j \in 1 .. Len(Stream) /\ Ahead'[j] = Stream[n + j]
      <3>1. n + j \in 1 .. Len(Stream) /\ n + j > Len(buf) /\ n + j - Len(buf) = j + d
        BY <1>2, <1>3, <1>5 DEF d
      <3>2. Stream[n + j] = Ahead[j + d]
        BY <1>3, <3>1
      <3>3. QED
        BY <2>2, <2>3, <3>1, <3>2
    <2>5. QED
      BY <2>2, <2>3, <2>4
  <1>8. \A i \in 1 .. Len(answers) : answers[i] # 0 /\ Before(answers[i], Stream, long)
    BY <1>1, BeforeStream DEF InOrder
  <1>9. Types'
    <2>1. cut' \subseteq 1 .. asked
      <3>1. \A i \in stop + 1 .. n : i \in 1 .. Len(Stream)
        BY <1>2, <1>3, <1>5
      <3>2. cut \subseteq 1 .. asked
        BY DEF Types, TypeOK
      <3>3. QED
        BY <1>2, <1>5, <3>1, <3>2
    <2>2. Len(buf') <= BufferSize /\ (pc' = "parse" => buf' # <<>>)
      BY <1>2, <1>5
    <2>3. TypeOK'
      BY <1>1, <2>1, <2>2 DEF Types, TypeOK
    <2>4. \A i \in 1 .. Len(buf') : buf'[i][1] \in 1 .. asked
      <3>1. \A i \in 1 .. stop : i \in 1 .. Len(Stream)
        BY <1>2, <1>3, <1>5
      <3>2. QED
        BY <1>2, <1>5, <3>1
    <2>5. QED
      BY <1>1, <1>2, <2>3, <2>4 DEF Types
  \* What the buffer begins with is settled by what it holds.
  <1>10. ASSUME pc' = "parse" PROVE Before(buf'[1][1], Ahead', long)
    <2> DEFINE r == Stream[1][1]
    <2>1. buf'[1][1] = r /\ r \in Nat /\ 1 \in 1 .. Len(Stream)
      BY <1>2, <1>3, <1>5
    <2>2. SUFFICES ASSUME NEW j \in 1 .. Len(Stream) - n
                   PROVE  r < Stream[n + j][1] \/ (r = Stream[n + j][1] /\ r \in long)
      BY <1>7, <2>1 DEF Before
    <2>3. n + j \in 1 .. Len(Stream) /\ Stream[n + j][1] \in Nat
      BY <1>5, <1>7
    <2>4. CASE Stream[stop] = <<Stream[stop][1], "lf">>
      <3>1. stop \in 1 .. Len(Stream) - 1 /\ stop + 1 \in 1 .. Len(Stream)
            /\ n + j \in stop + 1 .. Len(Stream) /\ stop \in 1 .. Len(Stream)
        <4>1. n + j \in Nat /\ n + j <= Len(Stream) /\ n + j >= stop + 1 /\ Len(Stream) \in Nat
          <5>1. stop <= n /\ j \in Nat /\ j >= 1 /\ Len(Stream) \in Nat
            BY <1>2, <1>3, <1>5
          <5>2. QED
            BY <1>5, <2>3, <5>1
        <4>2. stop >= 1
          OBVIOUS
        <4>3. QED
          BY <1>5, <4>1, <4>2
      <3>2. Follows(Stream[stop], Stream[stop + 1])
        BY <1>4, <3>1 DEF Piece
      <3>3. Stream[stop + 1][1] = Stream[stop][1] + 1
        BY <2>4, <3>2 DEF Follows
      <3>4. Stream[stop + 1][1] <= Stream[n + j][1]
        BY <1>4, <3>1, PieceAscends
      <3>5. r <= Stream[stop][1]
        BY <1>4, <2>1, <3>1, PieceAscends
      <3>6. Stream[stop][1] \in Nat
        BY <1>5
      <3>7. QED
        BY <2>1, <2>3, <3>3, <3>4, <3>5, <3>6, SMTT(30)
    <2>5. CASE stop = n /\ n = BufferSize
      <3>1. n + j \in 1 .. Len(Stream)
        BY <2>3
      <3>2. r <= Stream[n + j][1]
        BY <1>4, <2>1, <3>1, PieceAscends
      <3>3. r = Stream[n + j][1] => r \in long \/ (n + j) - 1 < BufferSize
        BY <1>4, <2>1, <3>1 DEF Piece
      <3>4. ~((n + j) - 1 < BufferSize)
        BY <1>5, <2>5
      <3>5. QED
        BY <2>1, <2>3, <3>2, <3>3, <3>4
    <2>6. QED
      BY <1>2, <1>10, <2>4, <2>5
  <1>11. ASSUME Proper', NEW i \in 1 .. stop PROVE buf'[i][1] = buf'[1][1]
    <2>1. buf'[1] = Stream[1] /\ buf'[i] = Stream[i]
      BY <1>2, <1>5
    <2>2. Stream[1][2] \in {"line", "header"}
      BY <1>11, <2>1 DEF Proper
    <2>3. \A x \in 1 .. stop : Stream[x][1] = Stream[1][1]
      BY <1>2, <1>4, <2>2, PieceOfOne, SMTT(30)
    <2>4. QED
      BY <2>1, <2>3
  <1>12. InPieces'
    <2>1. ASSUME pc' = "read"
          PROVE  /\ Piece(Stream', asked, long)
                 /\ \A i \in 1 .. Len(buf') - 1 : buf'[i][2] # "cr"
                 /\ Len(buf') < BufferSize
      <3>1. /\ stop = n /\ Stream' = Stream /\ n # BufferSize
            /\ \A i \in 1 .. stop - 1 : Stream[i][2] # "cr"
        BY <1>2, <2>1
      <3>2. \A i \in 1 .. Len(buf') - 1 : buf'[i][2] # "cr"
        <4>1. \A i \in 1 .. stop - 1 : buf'[i] = Stream[i]
          BY <1>2, <1>5
        <4>2. QED
          BY <1>2, <3>1, <4>1
      <3>3. Len(buf') < BufferSize
        BY <1>2, <1>5, <3>1
      <3>4. QED
        BY <1>4, <3>1, <3>2, <3>3
    <2>2. ASSUME Lasting'
          PROVE  /\ Before(buf'[1][1], Ahead', long)
                 /\ Proper' => \A i \in 1 .. Len(buf') : buf'[i][1] = buf'[1][1]
      <3>1. pc' = "parse"
        BY <1>1, <2>2 DEF Lasting
      <3>2. QED
        BY <1>2, <1>10, <1>11, <3>1
    <2>3. QED
      BY <1>1, <1>6, <2>1, <2>2 DEF InPieces
  <1>13. InOrder'
    <2>1. AnswersInOrder'
      BY <1>1 DEF InOrder, AnswersInOrder
    <2>2. ASSUME NEW i \in 1 .. Len(answers)
          PROVE  answers[i] # 0 /\ Before(answers[i], buf', long) /\ Before(answers[i], Ahead', long)
      <3>1. \A j \in 1 .. Len(Stream) :
               answers[i] < Stream[j][1] \/ (answers[i] = Stream[j][1] /\ answers[i] \in long)
        BY <1>8 DEF Before
      <3>2. Before(answers[i], buf', long)
        <4>1. \A j \in 1 .. stop : j \in 1 .. Len(Stream) /\ buf'[j] = Stream[j]
          BY <1>2, <1>3, <1>5
        <4>2. QED
          BY <1>2, <3>1, <4>1, Zenon DEF Before
      <3>3. Before(answers[i], Ahead', long)
        BY <1>7, <3>1 DEF Before
      <3>4. QED
        BY <1>8, <3>2, <3>3
    <2>3. QED
      BY <1>1, <2>1, <2>2 DEF InOrder
  <1>14. Accounted'
    <2>1. ASSUME pc' \in {"read", "again"}, NEW r \in 1 .. asked
          PROVE  r \in ToSet(answers) \union cut' \/ EndsIn(r, Stream')
      <3>1. Stream' = Stream
        BY <1>2, <2>1
      <3>2. QED
        BY <1>1, <1>2, <3>1 DEF Accounted
    <2>2. ASSUME Lasting', Proper', NEW r \in 1 .. asked
          PROVE  r \in ToSet(answers) \union cut' \union {buf'[1][1]} \/ EndsIn(r, Ahead')
      <3>1. r \in ToSet(answers) \union cut \/ EndsIn(r, Stream)
        BY <1>1 DEF Accounted
      <3>2. CASE r \in ToSet(answers) \union cut
        BY <1>2, <3>2
      <3>3. CASE EndsIn(r, Stream)
        <4>1. PICK i \in 1 .. Len(Stream) - 1 : Stream[i] = <<r, "cr">> /\ Stream[i + 1] = <<r, "lf">>
          BY <3>3 DEF EndsIn
        <4>2. CASE i <= stop
          <5>1. i \in 1 .. stop /\ buf'[i] = Stream[i]
            BY <1>2, <1>3, <1>5, <4>2
          <5>2. QED
            BY <1>11, <2>2, <4>1, <5>1
        <4>3. CASE i > stop /\ i <= n
          <5>1. i \in stop + 1 .. n
            BY <1>3, <1>5, <4>3
          <5>2. Stream[i][1] = r
            BY <4>1
          <5>3. QED
            BY <1>2, <5>1, <5>2
        <4>4. CASE i > n
          <5>1. /\ i - n \in 1 .. Len(Ahead') - 1 /\ i - n \in 1 .. Len(Stream) - n
                /\ (i - n) + 1 \in 1 .. Len(Stream) - n
                /\ n + (i - n) = i /\ n + ((i - n) + 1) = i + 1
            BY <1>3, <1>5, <1>7, <4>4
          <5>2. Ahead'[i - n] = Stream[i] /\ Ahead'[(i - n) + 1] = Stream[i + 1]
            <6>1. \A j \in 1 .. Len(Stream) - n : Ahead'[j] = Stream[n + j]
              BY <1>7
            <6>2. Ahead'[i - n] = Stream[n + (i - n)]
              BY <5>1, <6>1
            <6>3. Ahead'[(i - n) + 1] = Stream[n + ((i - n) + 1)]
              BY <5>1, <6>1
            <6>4. QED
              BY <5>1, <6>2, <6>3
          <5>3. QED
            BY <4>1, <5>1, <5>2 DEF EndsIn
        <4>5. QED
          BY <1>3, <1>5, <4>2, <4>3, <4>4
      <3>4. QED
        BY <3>1, <3>2, <3>3
    <2>3. ASSUME cut' # {}, hasty = {}, long = {} PROVE FALSE
      <3>1. PICK i \in stop + 1 .. n : TRUE
        BY <1>2, <2>3 DEF Accounted
      <3>2. stop # n
        BY <1>5, <3>1
      <3>3. Stream[stop] = <<Stream[stop][1], "lf">>
        BY <1>2, <3>2
      <3>4. stop \in 1 .. Len(Stream) - 1 /\ stop + 1 \in 1 .. Len(Stream)
        BY <1>2, <1>3, <1>5, <3>2
      <3>5. Follows(Stream[stop], Stream[stop + 1])
        BY <1>4, <3>4 DEF Piece
      <3>6. Stream[stop + 1][1] = Stream[stop][1] + 1
        BY <3>3, <3>5 DEF Follows
      <3>7. Stream[stop][1] \in 1 .. asked - 1
        BY <1>5, <3>4, <3>6, SMTT(30)
      <3>8. Stream[stop][1] \in ToSet(answers)
        BY <2>3, <3>7 DEF Accounted
      <3>9. PICK j \in 1 .. Len(answers) : answers[j] = Stream[stop][1]
        <4>1. DOMAIN answers = 1 .. Len(answers)
          BY DEF Types
        <4>2. QED
          BY <3>8, <4>1 DEF ToSet
      <3>10. answers[j] < Stream[stop][1]
        BY <1>8, <2>3 DEF Before
      <3>11. QED
        BY <1>5, <3>9, <3>10
    <2>4. QED
      BY <1>1, <2>1, <2>2, <2>3 DEF Accounted
  <1>15. QED
    BY <1>9, <1>12, <1>13, <1>14

\* An answer says yes or no of its connection, its length and its body.
LEMMA AnswersReply ==
    ASSUME NEW q \in Request, NEW without, NEW r \in Answers(q, without)
    PROVE  r.keep \in BOOLEAN /\ r.length \in BOOLEAN /\ r.body \in BOOLEAN
  <1> USE DEF ResponseError, ResponseSend
  <1>1. WantsKeepAlive(q) \in BOOLEAN
    BY DEF WantsKeepAlive
  <1>2. CASE r \in ApiHandleRequest(q, without)
    <2>1. /\ r.length = TRUE /\ r.body = TRUE
          /\ r.keep = FALSE \/ r.keep = WantsKeepAlive(q)
      BY <1>2 DEF ApiHandleRequest, CachedCopy, DatabasesJson, DatabaseJson, Json
    <2>2. QED
      BY <1>1, <2>1
  <1>3. CASE r = FileServe(q)
    <2>1. r.keep = FALSE \/ r.keep = WantsKeepAlive(q)
      BY <1>3 DEF FileServe
    <2>2. r.length = TRUE \/ r.length = FALSE
      BY <1>3 DEF FileServe
    <2>3. r.body = TRUE \/ r.body = FALSE \/ r.body = (q.method # "HEAD")
      BY <1>3, Zenon DEF FileServe
    <2>4. QED
      BY <1>1, <2>1, <2>2, <2>3
  <1>4. QED
    BY <1>2, <1>3 DEF Answers

\* The types of what reads nothing and answers nothing.
LEMMA TypesKept ==
    ASSUME Types, UNCHANGED <<wire, rest, buf, answers, asked, cut, hasty, long>>,
           ended' \in BOOLEAN, timed' \in BOOLEAN, shutdown' \in BOOLEAN, tls' = tls,
           \/ UNCHANGED <<pc, resp>>
           \/ pc \in {"read", "parse"} /\ pc' = "send" /\ resp' \in Reply
           \/ pc = "again" /\ pc' = "read" /\ resp' = resp
           \/ pc = "again" /\ pc' = "close" /\ resp' = resp
           \/ pc = "close" /\ pc' = "closed" /\ resp' = resp
    PROVE  Types'
  <1>1. Blank \notin Reply
    BY ConnectionAssumption
  <1>2. TypeOK'
    BY <1>1 DEF Types, TypeOK
  <1>3. pc' \in {"again", "close", "closed"} => buf' = <<>>
    BY DEF Types
  <1>4. QED
    BY <1>2, <1>3 DEF Types

LEMMA RefuseKeeps ==
    ASSUME StreamInv, ReadFails \/ InterruptRead
    PROVE  StreamInv'
  <1> USE DEF StreamInv, client, stream, setting, spoken
  <1>1. /\ pc = "read" /\ pc' = "send"
        /\ resp' = [last |-> TRUE, keep |-> FALSE, stays |-> FALSE, vector |-> FALSE,
                    framed |-> TRUE]
        /\ UNCHANGED <<rest, asked, ended, hasty, long, wire, buf, cut, tls, missing,
                       answers, said, timed>>
        /\ shutdown' \in {shutdown, TRUE}
    BY DEF ReadFails, InterruptRead, Go, BadRequest
  <1>2. resp' \in Reply /\ ~resp'.stays
    BY <1>1 DEF Reply
  <1>3. Types'
    <2>1. ended' \in BOOLEAN /\ timed' \in BOOLEAN /\ shutdown' \in BOOLEAN
      BY <1>1 DEF Types, TypeOK
    <2>2. QED
      BY <1>1, <1>2, <2>1, TypesKept
  <1>4. Ahead' = Ahead
    BY <1>1 DEF Ahead
  <1>5. QED
    BY <1>1, <1>2, <1>3, <1>4, QuietStep

LEMMA AnsweringKeeps ==
    ASSUME StreamInv, Answering
    PROVE  StreamInv'
  <1> USE DEF StreamInv, client, stream, setting, spoken
  <1>1. PICK q \in Asks : Reject(q) \/ Challenge(q) \/ Serve(q)
    BY DEF Answering
  <1>2. q \in Request
    BY <1>1, ConnectionAssumption
  <1>3. /\ pc = "parse" /\ pc' = "send"
        /\ UNCHANGED <<rest, asked, ended, hasty, long, wire, buf, cut, tls, missing,
                       answers, said, timed, shutdown>>
    BY <1>1 DEF Reject, Challenge, Serve, Go
  <1>4. resp' \in Reply /\ (~resp'.stays \/ Proper)
    <2>1. CASE Reject(q)
      BY <2>1 DEF Reject, BadRequest, Reply
    <2>2. CASE Challenge(q)
      <3>1. resp' = Sending(ResponseError(401), q, TRUE, FALSE)
        BY <2>2 DEF Challenge
      <3>2. ResponseError(401).keep \in BOOLEAN /\ ResponseError(401).body \in BOOLEAN
        BY DEF ResponseError, ResponseSend
      <3>3. resp' \in Reply /\ resp'.stays = FALSE
        BY <3>1, <3>2 DEF Sending, Reply
      <3>4. QED
        BY <3>3
    <2>3. CASE Serve(q)
      <3>1. PICK r \in Answers(q, missing) : resp' = Sending(r, q, FALSE, WantsKeepAlive(q))
        BY <2>3 DEF Serve
      <3>2. r.keep \in BOOLEAN /\ r.body \in BOOLEAN
        BY <1>2, <3>1, AnswersReply
      <3>4. resp' \in Reply
        <4>1. WantsKeepAlive(q) \in BOOLEAN
          BY DEF WantsKeepAlive
        <4>2. QED
          BY <3>1, <3>2, <4>1 DEF Sending, Reply
      <3>5. Proper
        <4>1. buf # <<>> /\ buf \in Seq(Unit)
          BY <1>3 DEF Types, TypeOK
        <4>2. buf[1] \in Unit
          BY <4>1
        <4>3. buf[1][2] \notin {"cr", "lf"}
          BY <2>3 DEF Serve, Parsed
        <4>4. QED
          BY <4>1, <4>2, <4>3 DEF Proper, Unit
      <3>6. QED
        BY <3>4, <3>5
    <2>4. QED
      BY <1>1, <2>1, <2>2, <2>3
  <1>5. Types'
    <2>1. ended' \in BOOLEAN /\ timed' \in BOOLEAN /\ shutdown' \in BOOLEAN
      BY <1>3 DEF Types, TypeOK
    <2>2. QED
      BY <1>3, <1>4, <2>1, TypesKept
  <1>6. Ahead' = Ahead
    BY <1>3 DEF Ahead
  <1>7. QED
    BY <1>3, <1>4, <1>5, <1>6, QuietStep

LEMMA WrittenKeeps ==
    ASSUME StreamInv, NEW whole, Written(whole), shutdown' \in {shutdown, TRUE}
    PROVE  StreamInv'
  <1> USE DEF StreamInv, client, setting
  <1> DEFINE a == IF buf = <<>> THEN 0 ELSE buf[1][1]
             m == Len(answers)
  <1>1. /\ pc = "send" /\ pc' = (IF resp.stays THEN "again" ELSE "close")
        /\ answers' = Append(answers, a)
        /\ resp' = Blank /\ buf' = <<>>
        /\ UNCHANGED <<rest, asked, ended, hasty, long, wire, cut, tls, missing, timed>>
    BY DEF Written, Go
  <1>2. answers \in Seq(Nat) /\ m \in Nat /\ asked \in Nat /\ buf \in Seq(Unit) /\ resp \in Reply
    BY <1>1 DEF Types, TypeOK
  <1>3. a \in Nat /\ a <= asked /\ (buf # <<>> => a = buf[1][1] /\ a # 0 /\ Len(buf) > 0)
    <2>1. CASE buf = <<>>
      BY <1>2, <2>1
    <2>2. CASE buf # <<>>
      <3>1. 1 \in 1 .. Len(buf)
        BY <1>2, <2>2
      <3>2. buf[1][1] \in 1 .. asked
        BY <3>1 DEF Types
      <3>3. QED
        BY <1>2, <2>2, <3>1, <3>2
    <2>3. QED
      BY <2>1, <2>2
  <1> HIDE DEF a
  <1>4. /\ answers' \in Seq(Nat) /\ Len(answers') = m + 1
        /\ \A i \in 1 .. m : answers'[i] = answers[i]
        /\ answers'[m + 1] = a
    BY <1>1, <1>2, <1>3
  <1>5. ToSet(answers) \union {a} \subseteq ToSet(answers')
    <2>1. \A i \in 1 .. m : i \in 1 .. m + 1
      BY <1>2
    <2>2. m + 1 \in 1 .. m + 1
      BY <1>2
    <2>3. ToSet(answers) = {answers[i] : i \in 1 .. m}
      BY <1>2 DEF ToSet
    <2>4. ToSet(answers') = {answers'[i] : i \in 1 .. m + 1}
      BY <1>4 DEF ToSet
    <2>5. QED
      BY <1>4, <2>1, <2>2, <2>3, <2>4
  <1>6. Ahead' = Ahead
    BY <1>1 DEF Ahead
  <1>7. Types'
    <2>1. TypeOK'
      <3>1. Len(buf') = 0 /\ BufferSize \in Nat
        BY <1>1, ConnectionAssumption
      <3>2. pc' \in {"again", "close"}
        BY <1>1
      <3>3. QED
        <4>1. Len(buf') <= BufferSize
          BY <3>1
        <4>2. /\ asked \in 0 .. MaxRequests /\ ended \in BOOLEAN /\ timed \in BOOLEAN
              /\ shutdown \in BOOLEAN /\ tls \in BOOLEAN
              /\ cut \union hasty \union long \subseteq 1 .. asked
          BY DEF Types, TypeOK
        <4>3. resp' \in Reply \union {Blank} /\ (resp' # Blank <=> pc' = "send")
          BY <1>1, <3>2
        <4>4. shutdown' \in BOOLEAN
          BY <4>2
        <4>5. QED
          BY <1>1, <3>2, <4>1, <4>2, <4>3, <4>4 DEF TypeOK
    <2>2. \A i \in 1 .. Len(answers') : answers'[i] <= asked
      <3>1. \A i \in 1 .. m : answers[i] <= asked
        BY DEF Types
      <3>2. \A i \in 1 .. Len(answers') : i \in 1 .. m \/ i = m + 1
        BY <1>2, <1>4
      <3>3. QED
        BY <1>3, <1>4, <3>1, <3>2
    <2>3. buf' \in Seq(Unit) /\ \A i \in 1 .. Len(buf') : buf'[i][1] \in 1 .. asked
      BY <1>1
    <2>4. QED
      BY <1>1, <1>4, <2>1, <2>2, <2>3 DEF Types
  <1>8. InPieces'
    BY <1>1, <1>6 DEF InPieces, Lasting
  \* Of the answers that were, each may come before what is answered now.
  <1>9. \A i \in 1 .. m : answers[i] # 0 /\ Before(answers[i], buf, long)
                                         /\ Before(answers[i], Ahead, long)
    BY <1>1 DEF InOrder
  <1>10. AnswersInOrder'
    <2> SUFFICES ASSUME NEW i \in 1 .. m + 1, NEW j \in 1 .. m + 1, i < j
                 PROVE  /\ answers'[i] # 0
                        /\ answers'[j] # 0 => \/ answers'[i] < answers'[j]
                                              \/ answers'[i] = answers'[j] /\ answers'[i] \in long
      <3>1. DOMAIN answers' = 1 .. m + 1
        BY <1>4
      <3>2. QED
        BY <1>1, <3>1 DEF AnswersInOrder
    <2>1. i \in 1 .. m /\ answers'[i] = answers[i]
      BY <1>2, <1>4, SMTT(30)
    <2>2. CASE j = m + 1
      <3>1. a # 0 => buf # <<>> /\ a = buf[1][1] /\ 1 \in 1 .. Len(buf)
        BY <1>2, <1>3 DEF a
      <3>2. a # 0 => answers[i] < a \/ (answers[i] = a /\ answers[i] \in long)
        BY <1>9, <2>1, <3>1 DEF Before
      <3>3. QED
        BY <1>4, <1>9, <2>1, <2>2, <3>2
    <2>3. CASE j # m + 1
      <3>1. j \in 1 .. m /\ answers'[j] = answers[j] /\ DOMAIN answers = 1 .. m
        BY <1>2, <1>4, <2>3
      <3>2. AnswersInOrder
        BY DEF InOrder
      <3>3. QED
        BY <2>1, <3>1, <3>2 DEF AnswersInOrder
    <2>4. QED
      BY <2>2, <2>3
  <1>11. ASSUME resp.stays
         PROVE  Proper /\ a = buf[1][1] /\ a # 0 /\ Before(a, Ahead, long)
    <2>1. Proper /\ Lasting
      BY <1>1, <1>11 DEF InPieces, Lasting
    <2>2. QED
      BY <1>3, <2>1 DEF InPieces, Proper
  <1>12. InOrder'
    <2> SUFFICES ASSUME resp.stays, NEW i \in 1 .. m + 1
                 PROVE  /\ answers'[i] # 0 /\ Before(answers'[i], <<>>, long)
                        /\ Before(answers'[i], Ahead, long)
      BY <1>1, <1>4, <1>6, <1>10 DEF InOrder
    <2>1. \A r : Before(r, <<>>, long)
      BY DEF Before
    <2>2. CASE i = m + 1
      BY <1>4, <1>11, <2>1, <2>2
    <2>3. CASE i \in 1 .. m
      BY <1>4, <1>9, <2>1, <2>3
    <2>4. QED
      BY <1>2, <2>2, <2>3
  <1>13. Accounted'
    <2>1. ASSUME pc' \in {"read", "again"}, NEW r \in 1 .. asked
          PROVE  r \in ToSet(answers') \union cut \/ EndsIn(r, Stream')
      <3>1. resp.stays
        BY <1>1, <2>1
      <3>2. Lasting /\ Proper
        BY <1>1, <1>11, <3>1 DEF Lasting
      <3>3. r \in ToSet(answers) \union cut \union {a} \/ EndsIn(r, Ahead)
        BY <1>11, <3>1, <3>2 DEF Accounted
      <3>4. Stream' = Ahead
        BY <1>1, <1>6, StreamAt DEF Stream
      <3>5. QED
        BY <1>5, <3>3, <3>4
    <2>2. ~Lasting'
      BY <1>1 DEF Lasting
    <2>3. QED
      BY <1>1, <1>5, <2>1, <2>2 DEF Accounted
  <1>14. QED
    BY <1>7, <1>8, <1>12, <1>13

-----------------------------------------------------------------------------
(* The theorems.                                                           *)

LEMMA StreamInit == Init => StreamInv
  <1> SUFFICES ASSUME Init PROVE StreamInv
    OBVIOUS
  <1>1. /\ wire = <<>> /\ rest = <<>> /\ asked = 0 /\ ended = FALSE
        /\ buf = <<>> /\ pc = "read" /\ resp = Blank
        /\ timed = FALSE /\ shutdown = FALSE /\ tls \in BOOLEAN
        /\ answers = <<>> /\ cut = {} /\ hasty = {} /\ long = {}
    BY DEF Init
  <1>2. BufferSize \in Nat \ {0} /\ MaxRequests \in Nat
    BY ConnectionAssumption
  <1>3. Ahead = <<>> /\ Stream = <<>>
    BY <1>1 DEF Ahead, Stream
  <1>4. Types
    <2>1. Len(buf) = 0 /\ 0 \in 0 .. MaxRequests
      BY <1>1, <1>2
    <2>2. TypeOK
      <3>1. asked \in 0 .. MaxRequests /\ Len(buf) <= BufferSize
        BY <1>1, <1>2, <2>1
      <3>2. resp \in Reply \union {Blank} /\ (resp # Blank <=> pc = "send")
        BY <1>1
      <3>3. cut \union hasty \union long \subseteq 1 .. asked
        BY <1>1
      <3>4. QED
        BY <1>1, <3>1, <3>2, <3>3 DEF TypeOK
    <2>3. QED
      BY <1>1, <2>2 DEF Types
  <1>5. Piece(<<>>, 0, {})
    BY DEF Piece
  <1>6. InPieces
    BY <1>1, <1>2, <1>3, <1>5 DEF InPieces, Lasting
  <1>7. InOrder
    BY <1>1 DEF InOrder, AnswersInOrder
  <1>8. Accounted
    BY <1>1 DEF Accounted, Lasting
  <1>9. QED
    BY <1>4, <1>6, <1>7, <1>8 DEF StreamInv

LEMMA StreamNext == StreamInv /\ [Next]_vars => StreamInv'
  <1> SUFFICES ASSUME StreamInv, [Next]_vars PROVE StreamInv'
    OBVIOUS
  <1> USE DEF client, stream, setting, spoken
  <1>0. ended \in BOOLEAN /\ timed \in BOOLEAN /\ shutdown \in BOOLEAN
    BY DEF StreamInv, Types, TypeOK
  <1>1. CASE Client
    <2>1. CASE End
      <3>1. /\ ended' = TRUE
            /\ UNCHANGED <<rest, asked, hasty, long, wire, buf, cut, tls, missing, answers, said,
                           pc, resp, timed, shutdown>>
        BY <2>1 DEF End
      <3>2. Types'
        BY <1>0, <3>1, TypesKept DEF StreamInv
      <3>3. Ahead' = Ahead
        BY <3>1 DEF Ahead
      <3>4. QED
        BY <3>1, <3>2, <3>3, QuietStep DEF StreamInv
    <2>2. CASE \E h \in 0 .. MaxHeaders : Ask(h)
      <3>1. PICK h \in 0 .. MaxHeaders : Ask(h)
        BY <2>2
      <3>2. h \in Nat
        BY ConnectionAssumption
      <3>3. QED
        BY <3>1, <3>2, AskKeeps
    <2>3. CASE \E k \in 1 .. Len(rest) : Transmit(k)
      BY <2>3, TransmitKeeps
    <2>4. QED
      BY <1>1, <2>1, <2>2, <2>3 DEF Client
  <1>2. CASE Reading
    BY <1>2, ReadKeeps DEF Reading
  <1>3. CASE ReadFails \/ InterruptRead
    BY <1>3, RefuseKeeps
  <1>4. CASE Answering
    BY <1>4, AnsweringKeeps
  <1>5. CASE Send \/ SendInterrupted \/ SendFails
    <2>1. PICK whole \in BOOLEAN : Written(whole) /\ shutdown' \in {shutdown, TRUE}
      BY <1>5 DEF Send, SendInterrupted, SendFails
    <2>2. QED
      BY <2>1, WrittenKeeps
  <1>6. CASE Again
    <2>1. /\ pc = "again" /\ pc' = (IF shutdown THEN "close" ELSE "read") /\ timed' = TRUE
          /\ UNCHANGED <<rest, asked, ended, hasty, long, wire, buf, cut, tls, missing, answers,
                         said, resp, shutdown>>
      BY <1>6 DEF Again, Go
    <2>2. Types'
      BY <1>0, <2>1, TypesKept DEF StreamInv
    <2>3. Ahead' = Ahead
      BY <2>1 DEF Ahead
    <2>4. QED
      BY <2>1, <2>2, <2>3, QuietStep DEF StreamInv
  <1>7. CASE Close
    <2>1. /\ pc = "close" /\ pc' = "closed"
          /\ UNCHANGED <<rest, asked, ended, hasty, long, wire, buf, cut, tls, missing, answers,
                         said, resp, timed, shutdown>>
      BY <1>7 DEF Close, Go
    <2>2. Types'
      BY <1>0, <2>1, TypesKept DEF StreamInv
    <2>3. Ahead' = Ahead
      BY <2>1 DEF Ahead
    <2>4. QED
      BY <2>1, <2>2, <2>3, QuietStep DEF StreamInv
  <1>8. CASE Signal
    <2>1. /\ shutdown' = TRUE
          /\ UNCHANGED <<rest, asked, ended, hasty, long, wire, buf, cut, tls, missing, answers,
                         said, pc, resp, timed>>
      BY <1>8 DEF Signal
    <2>2. Types'
      BY <1>0, <2>1, TypesKept DEF StreamInv
    <2>3. Ahead' = Ahead
      BY <2>1 DEF Ahead
    <2>4. QED
      BY <2>1, <2>2, <2>3, QuietStep DEF StreamInv
  <1>9. CASE UNCHANGED vars
    <2>1. UNCHANGED <<rest, asked, ended, hasty, long, wire, buf, cut, tls, missing, answers,
                      said, pc, resp, timed, shutdown>>
      BY <1>9 DEF vars
    <2>2. Types'
      BY <1>0, <2>1, TypesKept DEF StreamInv
    <2>3. Ahead' = Ahead
      BY <2>1 DEF Ahead
    <2>4. QED
      BY <2>1, <2>2, <2>3, QuietStep DEF StreamInv
  <1>10. QED
    BY <1>1, <1>2, <1>3, <1>4, <1>5, <1>6, <1>7, <1>8, <1>9 DEF Next, Worker

\* What is in the buffer, on its way and still to be sent is what the client meant
\* to say, but for what was cut (read_headers and the loop of handle_client).
THEOREM ConnectionStreamInv == Spec => []StreamInv
  BY StreamInit, StreamNext, PTL DEF Spec

\* The states of a connection have their types, and the raw buffer never holds more
\* than its size (the loop of read_headers).
THEOREM ConnectionTypeOK == Spec => []TypeOK
  <1>1. StreamInv => TypeOK
    BY DEF StreamInv, Types
  <1>2. QED
    BY <1>1, ConnectionStreamInv, PTL

\* Answers come in the order of the requests, one for each but what did not fit into
\* the buffer (handle_client, which parses what read_headers left it).
THEOREM ConnectionAnswersInOrder == Spec => []AnswersInOrder
  <1>1. StreamInv => AnswersInOrder
    BY DEF StreamInv, InOrder
  <1>2. QED
    BY <1>1, ConnectionStreamInv, PTL

\* Client and worker never wait for each other, however the requests are cut into
\* reads: what the worker waits for, with nothing on its way, is a request that was
\* not sent yet, or was lost to a client that did not wait (read_headers).
THEOREM ConnectionNobodyWaits == Spec => []NobodyWaits
  <1>1. StreamInv => NobodyWaits
    <2> SUFFICES ASSUME StreamInv PROVE NobodyWaits
      OBVIOUS
    <2> USE DEF StreamInv
    <2>1. ASSUME pc = "read", wire = <<>>, rest = <<>>, NEW r \in 1 .. asked
          PROVE  r \in ToSet(answers) \union cut
      <3>1. r \in ToSet(answers) \union cut \/ EndsIn(r, Stream)
        BY <2>1 DEF Accounted
      <3>2. Len(Ahead) = 0
        BY <2>1, StreamAt
      <3>3. /\ Len(buf) \in Nat /\ Len(Stream) = Len(buf)
            /\ \A i \in 1 .. Len(buf) : Stream[i] = buf[i]
        BY <3>2, StreamAt
      <3>4. \A i \in 1 .. Len(buf) - 1 : buf[i][2] # "cr"
        BY <2>1 DEF InPieces
      <3>5. ASSUME NEW i \in 1 .. Len(Stream) - 1, Stream[i] = <<r, "cr">> PROVE FALSE
        <4>1. i \in 1 .. Len(buf) - 1 /\ buf[i] = <<r, "cr">>
          BY <3>3, <3>5
        <4>2. QED
          BY <3>4, <4>1
      <3>6. QED
        BY <3>1, <3>5 DEF EndsIn
    <2>2. QED
      BY <2>1 DEF NobodyWaits, Accounted
  <1>2. QED
    BY <1>1, ConnectionStreamInv, PTL

\* An embedded file, and no other, is found in spite of collisions, and a range
\* request gets the bytes that RFC 7233 says, but for the cases named (vfs_hash_init,
\* vfs_lookup, the parsing of Range and file_serve): for every table and every hash.
THEOREM ConnectionFileAsAsked == Spec => []FileAsAsked
  <1>1. FileAsAsked
    <2> SUFFICES ASSUME NEW q \in Asks, q.path[1] = "file", q.method \in {"GET", "HEAD"}, ~q.match
                 PROVE
        LET r == FileServe(q)
            embedded == q.path \in {e[1] : e \in ToSet(vfs_table)}
            wanted == Wanted(q.range, Length(q.path))
            odd == \/ q.range \in {<<Blank, 0>>, <<Blank, 1>>, <<Blank, Blank>>}
                   \/ q.range # <<>> /\ (q.range[1] = Huge \/ q.range = <<Blank, Huge>>)
                   \/ q.range # <<>> /\ wanted = <<>>
        IN  /\ r.status = 404 <=> ~embedded
            /\ embedded /\ ~odd =>
                  CASE r.status = 200 -> wanted = <<>>
                    [] r.status = 206 -> wanted = r.of
                    [] r.status = 416 -> wanted[1] > wanted[2]
            /\ r.status \in {200, 206} => 0 <= r.of[1] /\ r.of[1] <= r.of[2]
                                          /\ r.of[2] < Length(q.path)
      BY DEF FileAsAsked
    <2>1. q \in Request
      BY ConnectionAssumption
    <2>2. QED
      BY <2>1, FileServeAsAsked DEF Embedded, Odd
  <1>2. QED
    BY <1>1, PTL

\* The bookmarks at an index are those of the database that /api/databases lists
\* there, unless a file was missing at the start (populate_db_meta_all, and
\* api_handle_request, which looks the index up in the cache): for any files.
THEOREM ConnectionSameIndexSameFile == Spec => []SameIndexSameFile
  <1>1. SameIndexSameFile
    <2> SUFFICES ASSUME NEW q \in Asks, missing = {},
                        q.method = "GET", q.path[1] \in {"bookmarks", "database"}, Len(q.path) = 2,
                        NEW r \in Answers(q, missing)
                 PROVE
        LET listed == DbMeta(missing)
            i == q.path[2]
        IN  /\ r.status = 404 <=> i = Blank \/ i \notin 0 .. Len(listed) - 1
            /\ r.status = 200 => r.of = listed[i + 1]
      BY DEF SameIndexSameFile
    <2>1. DbMeta(missing) = BookmarkFiles
      BY NothingMissing
    <2>2. QED
      BY <2>1, IndexedAnswers
  <1>2. QED
    BY <1>1, PTL

=============================================================================
