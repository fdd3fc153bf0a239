SPECIFICATION FairSpec
CONSTANTS
    w1 = w1
    w2 = w2
    p1 = p1
    t1 = t1
    t2 = t2
    t3 = t3
    t4 = t4
    NoTask = NoTask
    Worker <- TwoWorkers
    Poster <- OnePoster
    Task <- FourTasks
    MaxItem = 2
    ThreadNums = {0, 2}
PROPERTIES KeepsPromise PendingTaskRuns DestructorReturns
\* The system stops once the pool is destroyed.
CHECK_DEADLOCK FALSE
