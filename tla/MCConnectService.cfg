SPECIFICATION FairSpec
CONSTANTS
    c1 = c1
    c2 = c2
    c3 = c3
    Connection <- ThreeConnections
    Uninitialised <- Harmless
INVARIANTS
    NoUseAfterFree
    NothingOutlivesTheServer
PROPERTIES
    ShutdownContinues
    StopReturns
\* ~server has returned, or the process died.
CHECK_DEADLOCK FALSE
