SPECIFICATION UtilitiesSpec
CONSTANTS
    w1 = w1
    w2 = w2
    t1 = t1
    n1 = n1
    n2 = n2
    Waiter <- TwoWaiters
    Notifier <- TwoNotifiers
    Timed <- OneTimed
    MaxCalls = 4
    o1 = o1
    o2 = o2
    Worker = worker
    Owner = owner
    MaxPushes = 3
INVARIANTS
    OneWaitPerNotify
PROPERTIES
    LatchReleasesAll
    SignalReachesAWaiter
    ExitEndsTheThread
    DestructorEnds
\* The notifiers have made their calls and the waiters sleep, or the object is gone.
CHECK_DEADLOCK FALSE
