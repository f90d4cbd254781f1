-------------------------- MODULE ThreadPoolProofs --------------------------
(***************************************************************************)
(* The safety of the thread pool for every number of workers, every        *)
(* capacity and every number of tasks: IndInv is inductive, and each step  *)
(* of the pool is a step of FifoExecutor or changes nothing it can see.    *)
(***************************************************************************)
EXTENDS ThreadPool, FiniteSetTheorems, TLAPS

-----------------------------------------------------------------------------
(* Arithmetic of the ring buffer. *)

\* Advancing an index, as thread_pool_submit and worker_loop do, keeps it in
\* the array.
LEMMA AdvanceInRange ==
    ASSUME NEW i \in Slots
    PROVE  (i + 1) % Capacity \in Slots
  BY PoolAssumption DEF Slots

\* The slot of offset i, without the remainder: the index wraps at most once.
LEMMA SlotAtWraps ==
    ASSUME NEW h \in Slots, NEW i \in 0 .. Capacity
    PROVE  (h + i) % Capacity = IF h + i < Capacity THEN h + i ELSE h + i - Capacity
  BY PoolAssumption DEF Slots

-----------------------------------------------------------------------------
(* The invariant holds initially. *)
LEMMA InitIndInv == Init => IndInv
  <1> SUFFICES ASSUME Init PROVE IndInv
    OBVIOUS
  <1> USE PoolAssumption DEF Init
  <1>1. TypeOK
    <2>1. 0 \in Slots /\ 0 \in 0 .. Capacity /\ 0 \in 0 .. NumThreads
      BY DEF Slots
    <2>2. queue \in [Slots -> Nat] /\ task \in [Workers -> Nat]
      BY DEF None
    <2>3. pc \in [Workers -> WorkerPoints] /\ main \in MainPoints
      BY DEF WorkerPoints, MainPoints
    <2>4. QED
      BY <2>1, <2>2, <2>3 DEF TypeOK
  <1>2. MutexInv
    BY DEF MutexInv, WorkerCritical
  <1>3. MainInv
    BY DEF MainInv, Workers
  <1>4. WorkerInv
    BY DEF WorkerInv, Workers, None
  <1>5. RingInv
    BY DEF RingInv, SlotAt
  <1>6. ProducerSleepsOnlyWhenFull
    BY DEF ProducerSleepsOnlyWhenFull
  <1>7. QED
    BY <1>1, <1>2, <1>3, <1>4, <1>5, <1>6 DEF IndInv

-----------------------------------------------------------------------------
(***************************************************************************)
(* The steps that leave the ring buffer alone move one thread from one     *)
(* control point to the next.                                              *)
(***************************************************************************)
LEMMA RingUnchanged ==
    ASSUME RingInv, UNCHANGED <<poolVars, submitted>>
    PROVE  RingInv'
  BY DEF RingInv, SlotAt, poolVars

LEMMA CreateKeepsInv ==
    ASSUME IndInv, CreateThread \/ CreateFails
    PROVE  IndInv'
  <1> USE PoolAssumption DEF IndInv
  <1>1. RingInv'
    BY RingUnchanged DEF CreateThread, CreateFails, calls, poolVars
  <1>2. CASE CreateThread
    <2> USE <1>2 DEF CreateThread, calls, poolVars
    <2>1. TypeOK'
      BY DEF TypeOK, MainInv, WorkerPoints, MainPoints, Workers, Slots
    <2>2. MutexInv'
      BY DEF TypeOK, MutexInv, MainInv, WorkerCritical, MainCritical, Workers
    <2>3. MainInv'
      BY DEF TypeOK, MainInv, Workers
    <2>4. WorkerInv'
      BY DEF TypeOK, WorkerInv, MainInv, Workers
    <2>5. ProducerSleepsOnlyWhenFull'
      BY DEF ProducerSleepsOnlyWhenFull
    <2>6. QED
      BY <1>1, <2>1, <2>2, <2>3, <2>4, <2>5
  <1>3. CASE CreateFails
    <2> USE <1>3 DEF CreateFails, calls, poolVars
    <2>1. TypeOK'
      BY DEF TypeOK, MainPoints
    <2>2. MutexInv'
      BY DEF MutexInv, MainCritical
    <2>3. MainInv'
      BY DEF TypeOK, MainInv, Workers
    <2>4. WorkerInv'
      BY DEF TypeOK, WorkerInv, MainInv, Workers
    <2>5. ProducerSleepsOnlyWhenFull'
      BY DEF ProducerSleepsOnlyWhenFull
    <2>6. QED
      BY <1>1, <2>1, <2>2, <2>3, <2>4, <2>5
  <1>4. QED
    BY <1>2, <1>3

\* worker_loop between two queue operations.
LEMMA WorkerKeepsInv ==
    ASSUME IndInv, NEW w \in Workers,
           Lock(w) \/ Test(w) \/ Wait(w) \/ SpuriousWakeup(w) \/ Leave(w) \/ Finish(w)
    PROVE  IndInv'
  <1> USE PoolAssumption DEF IndInv
  <1> USE DEF Lock, Test, Wait, SpuriousWakeup, Leave, Finish, calls, poolVars
  <1>1. RingInv'
    BY RingUnchanged
  <1>2. TypeOK'
    BY DEF TypeOK, WorkerPoints, WorkerCritical, None
  <1>3. MutexInv'
    BY DEF TypeOK, MutexInv, MutexFree, WorkerCritical
  <1>4. MainInv'
    BY DEF TypeOK, MainInv, WorkerInv, Workers
  <1>5. WorkerInv'
    BY DEF TypeOK, WorkerInv
  <1>6. ProducerSleepsOnlyWhenFull'
    BY DEF ProducerSleepsOnlyWhenFull
  <1>7. QED
    BY <1>1, <1>2, <1>3, <1>4, <1>5, <1>6

\* thread_pool_submit up to the queue operation, and thread_pool_destroy.
LEMMA MainKeepsInv ==
    ASSUME IndInv,
           \/ SubmitCall \/ SubmitLock \/ SubmitTest \/ SubmitWait
           \/ SubmitSpuriousWakeup \/ DestroyStore \/ Broadcast \/ JoinAll
    PROVE  IndInv'
  <1> USE PoolAssumption DEF IndInv
  <1> USE DEF SubmitCall, SubmitLock, SubmitTest, SubmitWait, SubmitSpuriousWakeup,
              DestroyStore, Broadcast, JoinAll, calls, poolVars
  <1>1. RingInv'
    BY RingUnchanged
  <1>2. TypeOK'
    BY DEF TypeOK, WorkerPoints, MainPoints, MainCritical
  <1>3. MutexInv'
    BY DEF TypeOK, MutexInv, MutexFree, WorkerCritical, MainCritical
  <1>4. MainInv'
    BY DEF TypeOK, MainInv, MainPoints, MainCritical, ProducerSleepsOnlyWhenFull
  <1>5. WorkerInv'
    BY DEF TypeOK, MainInv, WorkerInv
  <1>6. ProducerSleepsOnlyWhenFull'
    BY DEF ProducerSleepsOnlyWhenFull, MainInv
  <1>7. QED
    BY <1>1, <1>2, <1>3, <1>4, <1>5, <1>6

-----------------------------------------------------------------------------
(* The two queue operations. *)

\* A worker takes the oldest task: the element at offset 0 leaves the ring and
\* the one at offset i + 1 is now at offset i.
LEMMA DequeueRing ==
    ASSUME IndInv, NEW w \in Workers, Dequeue(w)
    PROVE  /\ count \in 1 .. Capacity
           /\ queue[head] = submitted - count + 1
           /\ RingInv'
  <1> USE PoolAssumption
  <1>1. count \in 1 .. Capacity /\ count <= submitted /\ submitted \in Nat
    BY DEF IndInv, TypeOK, WorkerInv, RingInv, Dequeue
  <1>2. head \in Slots /\ head' = (head + 1) % Capacity /\ head' \in Slots
    BY AdvanceInRange DEF IndInv, TypeOK, Dequeue
  <1>3. queue' = queue /\ tail' = tail /\ count' = count - 1 /\ submitted' = submitted
    BY DEF Dequeue, calls
  <1>4. ASSUME NEW i \in 0 .. count - 1
        PROVE  (head' + i) % Capacity = SlotAt(i + 1)
    <2>1. i \in 0 .. Capacity /\ i + 1 \in 0 .. Capacity /\ 1 \in 0 .. Capacity
      BY <1>1, <1>4
    <2>2. head' = IF head + 1 < Capacity THEN head + 1 ELSE head + 1 - Capacity
      BY <1>2, <2>1, SlotAtWraps
    <2>3. (head' + i) % Capacity
            = IF head' + i < Capacity THEN head' + i ELSE head' + i - Capacity
      BY <1>2, <2>1, SlotAtWraps
    <2>4. (head + (i + 1)) % Capacity
            = IF head + (i + 1) < Capacity THEN head + (i + 1)
              ELSE head + (i + 1) - Capacity
      BY <1>2, <2>1, SlotAtWraps
    <2>5. QED
      BY <1>1, <1>2, <1>4, <2>2, <2>3, <2>4 DEF SlotAt, Slots
  <1>5. SlotAt(0) = head
    <2>1. head + 0 = head /\ head % Capacity = head
      BY <1>2 DEF Slots
    <2>2. QED
      BY <2>1 DEF SlotAt
  <1>6. queue[head] = submitted - count + 1
    BY <1>1, <1>5 DEF IndInv, RingInv
  <1>7. tail' = (head' + count') % Capacity
    <2>1. tail = SlotAt(count)
      BY DEF IndInv, RingInv
    <2>2. (head' + (count - 1)) % Capacity = SlotAt(count - 1 + 1)
      BY <1>1, <1>4
    <2>3. QED
      <3>1. count - 1 + 1 = count
        BY <1>1
      <3>2. QED
        BY <1>3, <2>1, <2>2, <3>1
  <1>8. ASSUME NEW i \in 0 .. count' - 1
        PROVE  queue'[(head' + i) % Capacity] = submitted' - count' + i + 1
    <2>1. i \in 0 .. count - 1 /\ i + 1 \in 0 .. count - 1
      BY <1>1, <1>3, <1>8
    <2>2. queue[SlotAt(i + 1)] = submitted - count + (i + 1) + 1
      BY <2>1 DEF IndInv, RingInv
    <2>3. QED
      BY <1>1, <1>3, <1>4, <2>1, <2>2
  <1>9. QED
    <2>1. count' <= submitted'
      BY <1>1, <1>3
    <2>2. RingInv'
      BY <1>7, <1>8, <2>1 DEF RingInv, SlotAt
    <2>3. QED
      BY <1>1, <1>6, <2>2

LEMMA DequeueKeepsInv ==
    ASSUME IndInv, NEW w \in Workers, Dequeue(w)
    PROVE  IndInv'
  <1> USE PoolAssumption DEF IndInv
  <1>1. /\ count \in 1 .. Capacity
        /\ queue[head] = submitted - count + 1
        /\ RingInv'
    BY DequeueRing
  <1>2. count <= submitted /\ submitted \in Nat
    BY DEF TypeOK, RingInv
  <1>3. queue[head] \in Nat \ {None}
    BY <1>1, <1>2 DEF None
  <1>4. TypeOK'
    <2>1. head' \in Slots /\ count' \in 0 .. Capacity
      BY <1>1, AdvanceInRange DEF TypeOK, Dequeue
    <2>2. task' \in [Workers -> Nat] /\ pc' \in [Workers -> WorkerPoints]
      BY <1>3 DEF TypeOK, Dequeue, WorkerPoints
    <2>3. main' \in MainPoints
      BY DEF TypeOK, Dequeue, MainPoints
    <2>4. QED
      BY <2>1, <2>2, <2>3 DEF TypeOK, Dequeue, calls
  <1>5. MutexInv'
    BY DEF TypeOK, MutexInv, Dequeue, WorkerCritical, MainCritical
  <1>6. MainInv'
    BY DEF TypeOK, MutexInv, MainInv, WorkerInv, Dequeue, WorkerCritical, MainCritical,
           Workers, calls
  <1>7. WorkerInv'
    <2>1. \A v \in Workers \ {w} : pc[v] \notin WorkerCritical
      BY DEF MutexInv, Dequeue, WorkerCritical
    <2>2. \A v \in Workers : pc[v] = "done" => count = 0
      BY DEF WorkerInv
    <2>3. QED
      BY <1>1, <1>3, <2>1, <2>2 DEF TypeOK, WorkerInv, Dequeue, WorkerCritical
  <1>8. ProducerSleepsOnlyWhenFull'
    BY DEF ProducerSleepsOnlyWhenFull, Dequeue
  <1>9. QED
    BY <1>1, <1>4, <1>5, <1>6, <1>7, <1>8

\* Main writes task submitted + 1 at the tail, which is not one of the slots in
\* use: the ring grows by one element at its end.
LEMMA PutRing ==
    ASSUME IndInv, main = "submit_put", Put
    PROVE  /\ count \in 0 .. Capacity - 1
           /\ RingInv'
  <1> USE PoolAssumption
  <1>1. count \in 0 .. Capacity - 1 /\ count <= submitted /\ submitted \in Nat
    BY DEF IndInv, TypeOK, MainInv, RingInv
  <1>2. head \in Slots /\ tail \in Slots /\ head' = head /\ count' = count + 1
    BY DEF IndInv, TypeOK, Put
  <1>3. queue \in [Slots -> Nat] /\ queue' = [queue EXCEPT ![tail] = submitted + 1]
    BY DEF IndInv, TypeOK, Put
  <1>4. tail = SlotAt(count)
    BY DEF IndInv, RingInv
  <1>5. \A i \in 0 .. Capacity :
          SlotAt(i) = IF head + i < Capacity THEN head + i ELSE head + i - Capacity
    BY <1>2, SlotAtWraps DEF SlotAt
  <1>6. tail' = (head' + count') % Capacity
    <2>1. tail' = (tail + 1) % Capacity
      BY DEF Put
    <2>2. (tail + 1) % Capacity
            = IF tail + 1 < Capacity THEN tail + 1 ELSE tail + 1 - Capacity
      BY <1>2, 1 \in 0 .. Capacity, SlotAtWraps
    <2>3. tail = IF head + count < Capacity THEN head + count ELSE head + count - Capacity
      BY <1>1, <1>4, <1>5
    <2>4. SlotAt(count + 1) = IF head + (count + 1) < Capacity THEN head + (count + 1)
                              ELSE head + (count + 1) - Capacity
      BY <1>1, <1>5
    <2>5. (tail + 1) % Capacity = SlotAt(count + 1)
      BY <1>1, <1>2, <2>2, <2>3, <2>4 DEF Slots
    <2>6. QED
      BY <1>2, <2>1, <2>5 DEF SlotAt
  <1>7. ASSUME NEW i \in 0 .. count
        PROVE  queue'[SlotAt(i)] = submitted - count + i + 1
    <2>1. SlotAt(i) \in Slots
      BY <1>1, <1>2, <1>5 DEF Slots
    <2>2. CASE i = count
      BY <1>1, <1>2, <1>3, <1>4, <2>2
    <2>3. CASE i # count
      <3>1. i \in 0 .. count - 1
        BY <1>1, <2>3
      <3>2. SlotAt(i) # tail
        BY <1>1, <1>2, <1>4, <1>5, <3>1 DEF Slots
      <3>3. queue[SlotAt(i)] = submitted - count + i + 1
        BY <3>1 DEF IndInv, RingInv
      <3>4. QED
        BY <1>3, <2>1, <3>2, <3>3
    <2>4. QED
      BY <2>2, <2>3
  <1>8. ASSUME NEW i \in 0 .. count' - 1
        PROVE  queue'[(head' + i) % Capacity] = submitted' - count' + i + 1
    <2>1. i \in 0 .. count /\ submitted' = submitted + 1
      BY <1>1, <1>2, <1>8 DEF Put
    <2>2. queue'[SlotAt(i)] = submitted - count + i + 1
      BY <1>7, <2>1
    <2>3. QED
      BY <1>1, <1>2, <2>1, <2>2 DEF SlotAt
  <1>9. QED
    <2>1. count' <= submitted'
      BY <1>1, <1>2 DEF Put
    <2>2. RingInv'
      BY <1>6, <1>8, <2>1 DEF RingInv, SlotAt
    <2>3. QED
      BY <1>1, <2>2

LEMMA PutKeepsInv ==
    ASSUME IndInv, SubmitPut
    PROVE  IndInv'
  <1> USE PoolAssumption
  <1>1. main = "submit_put" /\ ~stop /\ created = NumThreads
    BY DEF IndInv, MainInv, SubmitPut
  <1>2. Put /\ main' = "idle" /\ UNCHANGED <<stop, created, task>>
    BY <1>1 DEF SubmitPut
  <1>3. count \in 0 .. Capacity - 1 /\ RingInv'
    BY <1>1, <1>2, PutRing
  <1>4. \/ pc' = pc
        \/ \E w \in Asleep : pc' = [pc EXCEPT ![w] = "lock"]
    BY <1>2 DEF Put, SignalNotEmpty
  <1>5. TypeOK'
    <2>1. tail' \in Slots /\ count' \in 0 .. Capacity /\ submitted' \in Nat
      BY <1>2, <1>3, AdvanceInRange DEF IndInv, TypeOK, Put
    <2>2. queue' \in [Slots -> Nat]
      BY <1>2 DEF IndInv, TypeOK, Put
    <2>3. pc' \in [Workers -> WorkerPoints]
      BY <1>4 DEF IndInv, TypeOK, WorkerPoints, Asleep
    <2>4. QED
      BY <1>2, <2>1, <2>2, <2>3 DEF IndInv, TypeOK, Put, MainPoints
  <1>6. MutexInv'
    BY <1>1, <1>2, <1>4 DEF IndInv, TypeOK, MutexInv, Asleep, WorkerCritical, MainCritical
  <1>7. MainInv'
    BY <1>1, <1>2, <1>3 DEF IndInv, TypeOK, MainInv, Put
  <1>8. WorkerInv'
    <2>1. \A w \in Workers : pc[w] \notin WorkerCritical /\ pc[w] # "done"
      BY <1>1 DEF IndInv, MutexInv, WorkerInv, MainCritical
    <2>2. QED
      BY <1>1, <1>2, <1>3, <1>4, <2>1 DEF IndInv, TypeOK, WorkerInv, Asleep, Put,
         WorkerCritical
  <1>9. ProducerSleepsOnlyWhenFull'
    BY <1>2 DEF ProducerSleepsOnlyWhenFull
  <1>10. QED
    BY <1>3, <1>5, <1>6, <1>7, <1>8, <1>9 DEF IndInv

-----------------------------------------------------------------------------
(* The invariant, and what follows from it in every state. *)

LEMMA NextIndInv == IndInv /\ [Next]_vars => IndInv'
  <1> SUFFICES ASSUME IndInv, [Next]_vars PROVE IndInv'
    OBVIOUS
  <1>1. ASSUME NEW w \in Workers, Lock(w) \/ WorkerStep(w) \/ SpuriousWakeup(w)
        PROVE  IndInv'
    BY <1>1, WorkerKeepsInv, DequeueKeepsInv DEF WorkerStep
  <1>2. CASE \/ SubmitCall \/ SubmitLock \/ SubmitSpuriousWakeup \/ DestroyStore
    BY <1>2, MainKeepsInv
  <1>3. CASE MainStep
    BY <1>3, MainKeepsInv, CreateKeepsInv, PutKeepsInv DEF MainStep
  <1>4. CASE UNCHANGED vars
    BY <1>4 DEF vars, poolVars, calls, IndInv, TypeOK, MutexInv, MainInv, WorkerInv,
       RingInv, SlotAt, ProducerSleepsOnlyWhenFull
  <1>5. QED
    BY <1>1, <1>2, <1>3, <1>4 DEF Next, Terminated

\* The inductive invariant holds in every reachable state: the C code's mutex
\* excludes, the indices stay inside the array, and the ring holds the tasks
\* submitted and not yet taken, in order.
THEOREM PoolInvariant == Spec => []IndInv
  BY InitIndInv, NextIndInv, PTL DEF Spec

\* Every variable keeps its type.
THEOREM PoolTypeOK == Spec => []TypeOK
  <1>1. IndInv => TypeOK
    BY DEF IndInv
  <1>2. QED
    BY <1>1, PoolInvariant, PTL

\* thread_pool_submit sleeps on not_full only while the queue is full.
THEOREM PoolProducerSleeps == Spec => []ProducerSleepsOnlyWhenFull
  <1>1. IndInv => ProducerSleepsOnlyWhenFull
    BY DEF IndInv
  <1>2. QED
    BY <1>1, PoolInvariant, PTL

\* A pool whose destruction has ended has no task left, in the queue or in a
\* worker: worker 1 left its loop with the queue empty, or there was no worker
\* and nothing was ever submitted.
LEMMA IndInvDrained == IndInv => DrainedOnReturn
  <1> SUFFICES ASSUME IndInv, main = "end" PROVE DrainedOnReturn
    BY DEF DrainedOnReturn
  <1>1. \A w \in Workers : pc[w] \in {"none", "done"} /\ task[w] = None
    BY PoolAssumption DEF IndInv, TypeOK, MainInv, WorkerInv, Workers
  <1>2. CASE created < NumThreads
    BY <1>1, <1>2 DEF IndInv, TypeOK, MainInv, RingInv, DrainedOnReturn
  <1>3. CASE created = NumThreads
    <2>1. 1 \in Workers /\ pc[1] = "done"
      BY <1>3, PoolAssumption DEF IndInv, MainInv, Workers
    <2>2. QED
      BY <1>1, <2>1 DEF IndInv, MainInv, WorkerInv, DrainedOnReturn
  <1>4. QED
    BY <1>2, <1>3, PoolAssumption DEF IndInv, TypeOK

\* When thread_pool_destroy returns, every task submitted has been run to its
\* end and none was dropped.
THEOREM PoolDrained == Spec => []DrainedOnReturn
  BY IndInvDrained, PoolInvariant, PTL

-----------------------------------------------------------------------------
(* No wakeup of a task is lost. *)

LEMMA WorkersFinite ==
    ASSUME NEW S \in SUBSET Workers
    PROVE  IsFiniteSet(S) /\ Cardinality(S) \in Nat
  <1>1. IsFiniteSet(Workers)
    BY PoolAssumption, FS_Interval DEF Workers
  <1>2. QED
    BY <1>1, FS_Subset, FS_CardinalityType

\* A step that takes no worker out of Awake leaves at least as many there.
LEMMA AwakeGrows ==
    ASSUME Awake \subseteq Awake', IsFiniteSet(Awake')
    PROVE  Cardinality(Awake) <= Cardinality(Awake')
  BY FS_Subset

LEMMA NextWorkConserving ==
    ASSUME IndInv, WorkConserving, [Next]_vars
    PROVE  WorkConserving'
  <1> USE PoolAssumption
  <1>1. IsFiniteSet(Awake) /\ IsFiniteSet(Awake') /\ Cardinality(Awake) \in Nat
        /\ Cardinality(Awake') \in Nat
    <2>1. Awake \in SUBSET Workers /\ Awake' \in SUBSET Workers
      BY DEF Awake
    <2>2. QED
      BY <2>1, WorkersFinite
  <1>2. count \in Nat /\ pc \in [Workers -> WorkerPoints]
    BY DEF IndInv, TypeOK
  <1>3. CASE count' = 0
    BY <1>1, <1>3 DEF WorkConserving
  <1>4. CASE count' = count /\ Awake \subseteq Awake' /\ Asleep' \subseteq Asleep
    BY <1>1, <1>2, <1>4, AwakeGrows DEF WorkConserving
  <1>5. ASSUME NEW w \in Workers, Lock(w) \/ SpuriousWakeup(w) \/ Finish(w)
        PROVE  WorkConserving'
    <2>1. count' = count /\ Awake \subseteq Awake' /\ Asleep' \subseteq Asleep
      BY <1>2, <1>5 DEF Lock, SpuriousWakeup, Finish, Awake, Asleep, poolVars
    <2>2. QED
      BY <1>4, <2>1
  <1>6. ASSUME NEW w \in Workers, Test(w) \/ Wait(w) \/ Leave(w)
        PROVE  WorkConserving'
    <2>1. CASE count = 0
      BY <1>3, <1>6, <2>1 DEF Test, Wait, Leave, poolVars
    <2>2. CASE count # 0
      <3>1. Test(w)
        BY <1>6, <2>2 DEF Wait, Leave, IndInv, WorkerInv
      <3>2. count' = count /\ Awake \subseteq Awake' /\ Asleep' \subseteq Asleep
        BY <1>2, <2>2, <3>1 DEF Test, Awake, Asleep, poolVars
      <3>3. QED
        BY <1>4, <3>2
    <2>3. QED
      BY <2>1, <2>2
  <1>7. ASSUME NEW w \in Workers, Dequeue(w)
        PROVE  WorkConserving'
    <2>1. w \in Awake /\ Awake' = Awake \ {w} /\ Asleep' = Asleep
      BY <1>2, <1>7 DEF Dequeue, Awake, Asleep
    <2>2. Cardinality(Awake') = Cardinality(Awake) - 1
      BY <1>1, <2>1, FS_RemoveElement
    <2>3. count' = count - 1
      BY <1>7 DEF Dequeue
    <2>4. QED
      BY <1>1, <1>2, <2>1, <2>2, <2>3 DEF WorkConserving
  <1>8. CASE SubmitPut
    <2>1. count' = count + 1 /\ SignalNotEmpty
      BY <1>8 DEF SubmitPut, Put, IndInv, MainInv
    <2>2. CASE Asleep = {}
      <3>1. Asleep' = {}
        BY <2>1, <2>2 DEF SignalNotEmpty, Asleep
      <3>2. QED
        BY <3>1 DEF WorkConserving
    <2>3. CASE Asleep # {}
      <3>1. PICK w \in Asleep : pc' = [pc EXCEPT ![w] = "lock"]
        BY <2>1, <2>3 DEF SignalNotEmpty
      <3>2. w \notin Awake /\ Awake' = Awake \union {w}
        BY <1>2, <3>1 DEF Awake, Asleep
      <3>3. Cardinality(Awake') = Cardinality(Awake) + 1
        BY <1>1, <3>2, FS_AddElement
      <3>4. QED
        BY <1>1, <1>2, <2>1, <2>3, <3>3 DEF WorkConserving
    <2>4. QED
      BY <2>2, <2>3
  <1>9. CASE CreateThread
    <2>1. pc[created + 1] = "none"
      BY <1>9 DEF CreateThread, IndInv, TypeOK, MainInv, WorkerInv, Workers
    <2>2. count' = count /\ Awake \subseteq Awake' /\ Asleep' \subseteq Asleep
      BY <1>2, <1>9, <2>1 DEF CreateThread, Awake, Asleep, poolVars
    <2>3. QED
      BY <1>4, <2>2
  <1>10. CASE Broadcast
    <2>1. count' = count /\ Awake \subseteq Awake' /\ Asleep' \subseteq Asleep
      BY <1>2, <1>10 DEF Broadcast, Awake, Asleep, poolVars
    <2>2. QED
      BY <1>4, <2>1
  <1>11. CASE UNCHANGED <<poolVars, pc>>
    BY <1>4, <1>11 DEF Awake, Asleep, poolVars
  <1>12. QED
    BY <1>5, <1>6, <1>7, <1>8, <1>9, <1>10, <1>11
       DEF Next, WorkerStep, MainStep, Terminated, vars, CreateFails, SubmitCall,
           SubmitLock, SubmitTest, SubmitWait, SubmitSpuriousWakeup, DestroyStore, JoinAll

\* A sleeping worker means that every queued task has an awake worker to take
\* it: pthread_cond_signal once per task is enough, for any number of workers.
THEOREM PoolWorkConserving == Spec => []WorkConserving
  <1>1. Init => WorkConserving
    <2>1. Init => Asleep = {}
      BY DEF Init, Asleep
    <2>2. QED
      BY <2>1 DEF WorkConserving
  <1>2. QED
    BY <1>1, NextWorkConserving, PoolInvariant, PTL DEF Spec

-----------------------------------------------------------------------------
(* The pool implements FifoExecutor. *)

\* A worker that is somewhere in its loop keeps the pool alive.
LEMMA NotGone ==
    ASSUME IndInv, NEW w \in Workers, pc[w] \in {"decide", "run"}
    PROVE  main # "end"
  BY PoolAssumption DEF IndInv, TypeOK, MainInv, WorkerInv, Workers

LEMMA StepRefines ==
    ASSUME IndInv, IndInv', [Next]_vars
    PROVE  [Executor!Next]_(Executor!vars)
  <1> USE PoolAssumption
  <1>1. count \in Nat /\ submitted \in Nat /\ task \in [Workers -> Nat]
    BY DEF IndInv, TypeOK
  <1>2. ASSUME NEW w \in Workers, Dequeue(w)
        PROVE  Executor!Start(w)
    <2>1. count \in 1 .. Capacity /\ queue[head] = submitted - count + 1
      BY <1>2, DequeueRing
    <2>2. main # "end" /\ main' # "end"
      BY <1>2, NotGone DEF Dequeue
    <2>3. task[w] = None
      BY <1>2 DEF IndInv, WorkerInv, Dequeue
    <2>4. QED
      BY <1>1, <1>2, <2>1, <2>2, <2>3 DEF Dequeue, Executor!Start, calls
  <1>3. ASSUME NEW w \in Workers, Finish(w)
        PROVE  Executor!Finish(w)
    <2>1. main # "end" /\ task[w] # None
      BY <1>3, NotGone DEF Finish, IndInv, WorkerInv
    <2>2. QED
      BY <1>3, <2>1 DEF Finish, Executor!Finish, calls, poolVars
  <1>4. CASE SubmitPut
    <2>1. ~stop /\ Put /\ count \in 0 .. Capacity - 1
      BY <1>4, PutRing DEF SubmitPut, IndInv, MainInv
    <2>2. QED
      BY <1>1, <1>4, <2>1 DEF SubmitPut, Put, Executor!Next, Executor!Submit
  <1>5. CASE CreateFails \/ DestroyStore
    <2>1. ~stop
      BY <1>5 DEF CreateFails, DestroyStore, IndInv, MainInv
    <2>2. QED
      BY <1>5, <2>1 DEF CreateFails, DestroyStore, Executor!Next, Executor!Close, calls,
         poolVars
  <1>6. CASE JoinAll
    <2>1. stop
      BY <1>6 DEF JoinAll, IndInv, MainInv
    <2>2. DrainedOnReturn'
      BY <1>6, IndInvDrained, PTL
    <2>3. QED
      BY <1>1, <1>6, <2>1, <2>2 DEF JoinAll, DrainedOnReturn, Executor!Next,
         Executor!Vanish, calls, poolVars
  <1>7. CASE UNCHANGED <<submitted, count, task, stop, main>>
    BY <1>7 DEF Executor!vars
  <1>8. CASE UNCHANGED <<submitted, count, task, stop>> /\ main # "end" /\ main' # "end"
    BY <1>8 DEF Executor!vars
  <1>9. QED
    BY <1>2, <1>3, <1>4, <1>5, <1>6, <1>7, <1>8
       DEF Next, WorkerStep, MainStep, Terminated, vars, poolVars, calls, Lock, Test,
           Wait, SpuriousWakeup, Leave, CreateThread, SubmitCall, SubmitLock,
           SubmitTest, SubmitWait, SubmitSpuriousWakeup, Broadcast, Executor!Next

\* Tasks are started once each and in the order of their submission, never more
\* than Capacity wait, and the pool is gone only when all of them are over:
\* for every number of threads, every capacity and every interleaving.
THEOREM PoolImplementsExecutor == Spec => ImplementsExecutor
  <1>1. Init => Executor!Init
    BY DEF Init, Executor!Init
  <1>2. QED
    BY <1>1, PoolInvariant, StepRefines, PTL DEF Spec, ImplementsExecutor, Executor!Spec

=============================================================================
