\* Two workers and one task are enough for a worker to go to sleep after the
\* broadcast of thread_pool_destroy.
CONSTANTS
    NumThreads = 2
    Capacity = 1
    MaxTasks = 1

SPECIFICATION FairSpec

PROPERTY DestroyReturns
