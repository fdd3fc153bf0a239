SPECIFICATION FairSpec
CONSTANTS
    w1 = w1
    w2 = w2
    w3 = w3
    c1 = c1
    t1 = t1
    t2 = t2
    t3 = t3
    NoTask = NoTask
    Worker <- TwoWorkers
    Client <- OneClient
    Task <- TwoTasks
    InitSize = 2
    MaxThreads = 2
    MaxSpurious = 0
PROPERTY DestructorReturns
CHECK_DEADLOCK FALSE
