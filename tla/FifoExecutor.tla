---------------------------- MODULE FifoExecutor ----------------------------
(***************************************************************************)
(* What src/thread_pool.c promises to src/server.c, without its mutex, its *)
(* condition variables or its ring buffer: tasks are started once each, in *)
(* the order of their submission, by any idle worker; at most Capacity of  *)
(* them wait; and when the executor is gone every submitted task is over.  *)
(*                                                                         *)
(* Task k is the k-th task submitted, so two counters describe the queue:  *)
(* tasks started + 1 .. submitted are waiting.                             *)
(***************************************************************************)
EXTENDS Naturals

CONSTANTS Workers,   \* the threads that run tasks
          Capacity,  \* how many tasks can wait (QUEUE_CAPACITY)
          None       \* the task of a worker that runs none

VARIABLES submitted, \* how many tasks were handed over
          started,   \* how many of them a worker has taken
          current,   \* current[w]: the task worker w is running, or None
          phase      \* "open", "closing" (no more tasks), "gone"

vars == <<submitted, started, current, phase>>

Init ==
    /\ submitted = 0
    /\ started = 0
    /\ current = [w \in Workers |-> None]
    /\ phase = "open"

Submit ==
    /\ phase = "open"
    /\ submitted - started < Capacity
    /\ submitted' = submitted + 1
    /\ UNCHANGED <<started, current, phase>>

\* Only the oldest waiting task can be taken, and it stops waiting.
Start(w) ==
    /\ phase # "gone"
    /\ current[w] = None
    /\ started < submitted
    /\ started' = started + 1
    /\ current' = [current EXCEPT ![w] = started + 1]
    /\ UNCHANGED <<submitted, phase>>

Finish(w) ==
    /\ phase # "gone"
    /\ current[w] # None
    /\ current' = [current EXCEPT ![w] = None]
    /\ UNCHANGED <<submitted, started, phase>>

Close ==
    /\ phase = "open"
    /\ phase' = "closing"
    /\ UNCHANGED <<submitted, started, current>>

\* Closing drains: the executor disappears only with nothing left to run.
Vanish ==
    /\ phase = "closing"
    /\ started = submitted
    /\ \A w \in Workers : current[w] = None
    /\ phase' = "gone"
    /\ UNCHANGED <<submitted, started, current>>

Next ==
    \/ Submit
    \/ \E w \in Workers : Start(w) \/ Finish(w)
    \/ Close
    \/ Vanish

Spec == Init /\ [][Next]_vars

=============================================================================
