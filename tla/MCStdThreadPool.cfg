\* Two threads, MaxThreads above the size; three tasks, one spurious wake-up.
SPECIFICATION FairSpec
CONSTANTS
    w1 = w1
    w2 = w2
    w3 = w3
    c1 = c1
    t1 = t1
    t2 = t2
    t3 = t3
    NoTask = NoTask
    Worker <- ThreeWorkers
    Client <- OneClient
    Task <- ThreeTasks
    InitSize = 2
    MaxThreads = 3
    MaxSpurious = 1
PROPERTIES KeepsPromise QueuedTaskRuns JoinHangsOnlyOnLostWakeup
\* The system stops once the pool is destroyed, or hangs in join.
CHECK_DEADLOCK FALSE
