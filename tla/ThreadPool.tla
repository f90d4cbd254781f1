----------------------------- MODULE ThreadPool -----------------------------
(***************************************************************************)
(* src/thread_pool.c: a fixed set of workers and a ring buffer of tasks    *)
(* under one mutex, with two condition variables.                          *)
(*                                                                         *)
(* The threads are the main thread, which creates the pool, submits tasks  *)
(* and destroys it (it is the only one that does, see src/server.c), and   *)
(* the workers.  A step of a thread is what it does between two points at  *)
(* which another thread can act.  The mutex orders most of them; the one   *)
(* thing done outside it is thread_pool_destroy's store to `stop' followed *)
(* by its broadcast, so a worker's reading of `stop' (Test), its going to  *)
(* sleep (Wait) and its second reading (Leave, Dequeue) are separate       *)
(* steps, although the worker holds the mutex from one to the other.       *)
(*                                                                         *)
(* Task k is the k-th task submitted.  The mutex is held by the thread     *)
(* whose control point lies inside a critical section.                     *)
(***************************************************************************)
EXTENDS Naturals, FiniteSets

CONSTANTS NumThreads,  \* workers asked for, after the clamp to 1..256
          Capacity,    \* QUEUE_CAPACITY
          MaxTasks     \* bound of the model: how often main submits

\* The second conjunct is the clamp at the head of thread_pool_create.
ASSUME PoolAssumption ==
    /\ Capacity \in Nat \ {0}
    /\ NumThreads \in 1 .. 256
    /\ MaxTasks \in Nat

Workers == 1 .. NumThreads   \* in the order of their creation
Slots   == 0 .. Capacity - 1
None    == 0                 \* a worker without a task, a slot never written

VARIABLES queue,      \* the ring buffer
          head, tail, count,
          stop,       \* the atomic flag
          created,    \* how many workers pthread_create has started
          submitted,  \* how many tasks were put in the queue
          dropped,    \* how many tasks went to their drop_func instead
          pc,         \* pc[w]: where worker w is in worker_loop
          task,       \* task[w]: its local copy of the task it runs
          main        \* where main is in create, submit or destroy

poolVars == <<queue, head, tail, count>>
calls == <<submitted, dropped>>
vars == <<poolVars, stop, created, calls, pc, task, main>>

-----------------------------------------------------------------------------
\* Control points.  "lock" is the call of pthread_mutex_lock, or the return
\* path of pthread_cond_wait, which takes the mutex again.
WorkerCritical == {"test", "wait", "decide"}
WorkerPoints   == WorkerCritical \union {"none", "lock", "asleep", "run", "done"}
MainCritical   == {"submit_test", "submit_wait", "submit_put"}
MainPoints     == MainCritical \union
    {"create", "idle", "submit_lock", "asleep", "broadcast", "join", "end"}

MutexFree ==
    /\ \A w \in Workers : pc[w] \notin WorkerCritical
    /\ main \notin MainCritical

Asleep == {w \in Workers : pc[w] = "asleep"}   \* waiting on not_empty
Awake  == {w \in Workers : pc[w] \in {"lock", "test", "decide"}}   \* about to look

Init ==
    /\ queue = [s \in Slots |-> None]
    /\ head = 0 /\ tail = 0 /\ count = 0
    /\ stop = FALSE
    /\ created = 0
    /\ submitted = 0 /\ dropped = 0
    /\ pc = [w \in Workers |-> "none"]
    /\ task = [w \in Workers |-> None]
    /\ main = "create"

-----------------------------------------------------------------------------
(* thread_pool_create: start the workers one by one.  When one cannot be   *)
(* started, set stop, broadcast, join those that were, and free the pool:  *)
(* the steps thread_pool_destroy takes.                                    *)
CreateThread ==
    /\ main = "create"
    /\ created' = created + 1
    /\ pc' = [pc EXCEPT ![created + 1] = "lock"]
    /\ main' = IF created + 1 = NumThreads THEN "idle" ELSE "create"
    /\ UNCHANGED <<poolVars, stop, calls, task>>

CreateFails ==
    /\ main = "create"
    /\ stop' = TRUE
    /\ main' = "broadcast"
    /\ UNCHANGED <<poolVars, created, calls, pc, task>>

-----------------------------------------------------------------------------
(* worker_loop *)
Lock(w) ==
    /\ pc[w] = "lock"
    /\ MutexFree
    /\ pc' = [pc EXCEPT ![w] = "test"]
    /\ UNCHANGED <<poolVars, stop, created, calls, task, main>>

Test(w) ==
    /\ pc[w] = "test"
    /\ pc' = [pc EXCEPT ![w] = IF count = 0 /\ ~stop THEN "wait" ELSE "decide"]
    /\ UNCHANGED <<poolVars, stop, created, calls, task, main>>

\* pthread_cond_wait releases the mutex and sleeps, atomically.
Wait(w) ==
    /\ pc[w] = "wait"
    /\ pc' = [pc EXCEPT ![w] = "asleep"]
    /\ UNCHANGED <<poolVars, stop, created, calls, task, main>>

\* POSIX lets pthread_cond_wait return without a signal.
SpuriousWakeup(w) ==
    /\ pc[w] = "asleep"
    /\ pc' = [pc EXCEPT ![w] = "lock"]
    /\ UNCHANGED <<poolVars, stop, created, calls, task, main>>

LeaveOnStop(w) ==           \* faulty: leaves the queued tasks behind
    /\ pc[w] = "decide"
    /\ stop
    /\ pc' = [pc EXCEPT ![w] = "done"]
    /\ UNCHANGED <<poolVars, stop, created, calls, task, main>>

Leave(w) ==
    /\ pc[w] = "decide"
    /\ count = 0 /\ stop
    /\ pc' = [pc EXCEPT ![w] = "done"]
    /\ UNCHANGED <<poolVars, stop, created, calls, task, main>>

DequeueSilent(w) ==         \* faulty: does not signal not_full
    /\ pc[w] = "decide"
    /\ ~(count = 0 /\ stop)
    /\ task' = [task EXCEPT ![w] = queue[head]]
    /\ head' = (head + 1) % Capacity
    /\ count' = count - 1
    /\ pc' = [pc EXCEPT ![w] = "run"]
    /\ UNCHANGED <<queue, tail, stop, created, calls, main>>

\* Taking a task signals not_full, on which only main can be waiting.
Dequeue(w) ==
    /\ pc[w] = "decide"
    /\ ~(count = 0 /\ stop)
    /\ task' = [task EXCEPT ![w] = queue[head]]
    /\ head' = (head + 1) % Capacity
    /\ count' = count - 1
    /\ main' = IF main = "asleep" THEN "submit_lock" ELSE main
    /\ pc' = [pc EXCEPT ![w] = "run"]
    /\ UNCHANGED <<queue, tail, stop, created, calls>>

\* task.func(task.arg) returns.
Finish(w) ==
    /\ pc[w] = "run"
    /\ task' = [task EXCEPT ![w] = None]
    /\ pc' = [pc EXCEPT ![w] = "lock"]
    /\ UNCHANGED <<poolVars, stop, created, calls, main>>

-----------------------------------------------------------------------------
(* thread_pool_submit, by main *)
SubmitCall ==
    /\ main = "idle"
    /\ submitted < MaxTasks
    /\ main' = "submit_lock"
    /\ UNCHANGED <<poolVars, stop, created, calls, pc, task>>

SubmitLock ==
    /\ main = "submit_lock"
    /\ MutexFree
    /\ main' = "submit_test"
    /\ UNCHANGED <<poolVars, stop, created, calls, pc, task>>

SubmitTestNoFullCheck ==     \* faulty: never waits for a free slot
    /\ main = "submit_test"
    /\ main' = "submit_put"
    /\ UNCHANGED <<poolVars, stop, created, calls, pc, task>>

SubmitTest ==
    /\ main = "submit_test"
    /\ main' = IF count = Capacity /\ ~stop THEN "submit_wait" ELSE "submit_put"
    /\ UNCHANGED <<poolVars, stop, created, calls, pc, task>>

SubmitWait ==
    /\ main = "submit_wait"
    /\ main' = "asleep"
    /\ UNCHANGED <<poolVars, stop, created, calls, pc, task>>

SubmitSpuriousWakeup ==
    /\ main = "asleep"
    /\ main' = "submit_lock"
    /\ UNCHANGED <<poolVars, stop, created, calls, pc, task>>

\* Wake one of the workers waiting on not_empty, if there is one.
SignalNotEmpty ==
    IF Asleep = {}
    THEN pc' = pc
    ELSE \E w \in Asleep : pc' = [pc EXCEPT ![w] = "lock"]

PutSignalFirst ==           \* faulty: signals only if the queue was empty
    /\ queue' = [queue EXCEPT ![tail] = submitted + 1]
    /\ tail' = (tail + 1) % Capacity
    /\ count' = count + 1
    /\ submitted' = submitted + 1
    /\ IF count = 0 THEN SignalNotEmpty ELSE pc' = pc
    /\ UNCHANGED <<head, dropped>>

PutSilent ==                \* faulty: never signals not_empty
    /\ queue' = [queue EXCEPT ![tail] = submitted + 1]
    /\ tail' = (tail + 1) % Capacity
    /\ count' = count + 1
    /\ submitted' = submitted + 1
    /\ UNCHANGED <<head, dropped, pc>>

PutNoWrap ==                \* faulty: tail runs past the buffer
    /\ queue' = [queue EXCEPT ![tail] = submitted + 1]
    /\ tail' = tail + 1
    /\ count' = count + 1
    /\ submitted' = submitted + 1
    /\ SignalNotEmpty
    /\ UNCHANGED <<head, dropped>>

Put ==
    /\ queue' = [queue EXCEPT ![tail] = submitted + 1]
    /\ tail' = (tail + 1) % Capacity
    /\ count' = count + 1
    /\ submitted' = submitted + 1
    /\ SignalNotEmpty
    /\ UNCHANGED <<head, dropped>>

Drop ==
    /\ dropped' = dropped + 1
    /\ UNCHANGED <<poolVars, submitted, pc>>

SubmitPut ==
    /\ main = "submit_put"
    /\ IF stop THEN Drop ELSE Put
    /\ main' = "idle"
    /\ UNCHANGED <<stop, created, task>>

-----------------------------------------------------------------------------
(* thread_pool_destroy, by main.  Neither the store nor the broadcast is   *)
(* done under the mutex.                                                   *)
DestroyStore ==
    /\ main = "idle"
    /\ stop' = TRUE
    /\ main' = "broadcast"
    /\ UNCHANGED <<poolVars, created, calls, pc, task>>

Broadcast ==
    /\ main = "broadcast"
    /\ pc' = [w \in Workers |-> IF pc[w] = "asleep" THEN "lock" ELSE pc[w]]
    /\ main' = "join"
    /\ UNCHANGED <<poolVars, stop, created, calls, task>>

\* The join of every worker that was created, then the frees.
JoinAll ==
    /\ main = "join"
    /\ \A w \in 1 .. created : pc[w] = "done"
    /\ main' = "end"
    /\ UNCHANGED <<poolVars, stop, created, calls, pc, task>>

-----------------------------------------------------------------------------
WorkerStep(w) ==
    Test(w) \/ Wait(w) \/ Leave(w) \/ Dequeue(w) \/ Finish(w)

MainStep ==
    \/ CreateThread \/ CreateFails
    \/ SubmitTest \/ SubmitWait \/ SubmitPut
    \/ Broadcast \/ JoinAll

\* The pool is gone and main goes on with the rest of server_run.
Terminated == main = "end" /\ UNCHANGED vars

Next ==
    \/ \E w \in Workers : Lock(w) \/ WorkerStep(w) \/ SpuriousWakeup(w)
    \/ SubmitCall \/ SubmitLock \/ SubmitSpuriousWakeup \/ DestroyStore
    \/ MainStep
    \/ Terminated

Spec == Init /\ [][Next]_vars

(***************************************************************************)
(* Every thread that can run does (WF); a mutex released again and again   *)
(* is eventually obtained by each thread that waits for it (SF); a task    *)
(* returns (WF of Finish, in WorkerStep).  Nothing makes main submit or    *)
(* destroy, and no spurious wakeup is ever owed.                           *)
(***************************************************************************)
Fairness ==
    /\ \A w \in Workers : WF_vars(WorkerStep(w)) /\ SF_vars(Lock(w))
    /\ WF_vars(MainStep) /\ SF_vars(SubmitLock)

FairSpec == Spec /\ Fairness

-----------------------------------------------------------------------------
(* Properties *)

\* Every variable holds a value of its C type's legal range: the indices stay
\* inside the array, and count between 0 and QUEUE_CAPACITY.
TypeOK ==
    /\ queue \in [Slots -> Nat]
    /\ head \in Slots /\ tail \in Slots /\ count \in 0 .. Capacity
    /\ stop \in BOOLEAN
    /\ created \in 0 .. NumThreads
    /\ submitted \in Nat /\ dropped \in Nat
    /\ pc \in [Workers -> WorkerPoints]
    /\ task \in [Workers -> Nat]
    /\ main \in MainPoints

\* A worker sleeps on not_empty only when every queued task already has a
\* worker on its way to it: worker_loop and thread_pool_submit never lose the
\* wakeup of a task (one pthread_cond_signal per task is enough).
WorkConserving == Asleep # {} => count <= Cardinality(Awake)

\* thread_pool_submit sleeps on not_full only while the queue is full.
ProducerSleepsOnlyWhenFull == main = "asleep" => count = Capacity

\* When thread_pool_destroy returns, every task ever submitted has been run to
\* its end by a worker and none was dropped: shutdown drains the queue.
DrainedOnReturn ==
    main = "end" =>
        /\ count = 0 /\ dropped = 0
        /\ \A w \in Workers : task[w] = None

(***************************************************************************)
(* The inductive strengthening of the invariants above.                    *)
(***************************************************************************)
\* At most one thread is in a critical section of pool->lock.
MutexInv ==
    /\ \A v, w \in Workers :
          v # w /\ pc[v] \in WorkerCritical => pc[w] \notin WorkerCritical
    /\ \A w \in Workers : pc[w] \in WorkerCritical => main \notin MainCritical

\* What a thread knows of the shared state at each of its control points.
MainInv ==
    /\ stop <=> main \in {"broadcast", "join", "end"}
    /\ main = "create" => created < NumThreads
    /\ main \notin {"create", "broadcast", "join", "end"} => created = NumThreads
    /\ created < NumThreads => submitted = 0
    /\ main = "submit_wait" => count = Capacity
    /\ main = "submit_put" => count < Capacity
    /\ main = "end" => \A w \in 1 .. created : pc[w] = "done"
    /\ dropped = 0

WorkerInv ==
    \A w \in Workers :
        /\ pc[w] = "none" <=> w > created
        /\ pc[w] = "run" <=> task[w] # None
        /\ pc[w] = "wait" => count = 0
        /\ pc[w] = "decide" => count > 0 \/ stop
        /\ pc[w] = "done" => count = 0 /\ stop

\* The ring buffer holds the last count tasks submitted, oldest first from head.
SlotAt(i) == (head + i) % Capacity

RingInv ==
    /\ count <= submitted
    /\ tail = SlotAt(count)
    /\ \A i \in 0 .. count - 1 : queue[SlotAt(i)] = submitted - count + i + 1

IndInv ==
    /\ TypeOK
    /\ MutexInv
    /\ MainInv
    /\ WorkerInv
    /\ RingInv
    /\ ProducerSleepsOnlyWhenFull

\* The pool implements the executor it promises: tasks start once each and in
\* the order of their submission, whatever the interleaving.
Executor == INSTANCE FifoExecutor WITH
    started <- submitted - count,
    current <- task,
    phase   <- IF main = "end" THEN "gone" ELSE IF stop THEN "closing" ELSE "open"

ImplementsExecutor == Executor!Spec

\* Every task put in the queue is eventually taken by a worker, also one
\* queued when the pool is being destroyed.
EveryTaskStarts ==
    \A k \in 1 .. MaxTasks : submitted >= k ~> submitted - count >= k

\* thread_pool_submit returns: a full queue holds up the accept loop only
\* until a worker is free.
SubmitReturns == main = "submit_lock" ~> main = "idle"

\* thread_pool.c:14, "On destroy, the stop flag is set and all workers are
\* joined": once thread_pool_destroy has set stop, it comes to its end.  It is
\* called for a pool all of whose workers run; a create that fails sets stop too,
\* and is not meant here.
DestroyReturns == (stop /\ created = NumThreads) ~> main = "end"
=============================================================================
