SPECIFICATION FairSpec
CONSTANTS
    p1 = p1
    p2 = p2
    p3 = p3
    r1 = r1
    r2 = r2
    main = main
    c1 = c1
    c2 = c2
    c3 = c3
    NoPackage = NoPackage
    Owner = main
    Callback <- ThreeCallbacks
    Package <- ThreePackages
    Requester <- TwoRequesters
    MaxSize = 2
INVARIANTS
    WrittenInOrder
    NothingOutstandingAtTheEnd
PROPERTIES
    DisconnectReturns
\* The owner has called the destructor and every thread has returned.
CHECK_DEADLOCK FALSE
