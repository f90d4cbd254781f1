\* More tasks than slots and than workers: the queue fills and wraps around,
\* and workers both wait for tasks and keep tasks waiting.
CONSTANTS
    NumThreads = 3
    Capacity = 2
    MaxTasks = 5

SPECIFICATION FairSpec

INVARIANTS
    TypeOK

    WorkConserving
    ProducerSleepsOnlyWhenFull
    DrainedOnReturn

PROPERTIES
    ImplementsExecutor
    EveryTaskStarts
    SubmitReturns
