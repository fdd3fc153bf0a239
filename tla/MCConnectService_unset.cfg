SPECIFICATION FairSpec
CONSTANTS
    c1 = c1
    c2 = c2
    c3 = c3
    Connection <- TwoConnections
    Uninitialised <- AnyStatus
PROPERTIES
    ShutdownContinues
\* ~server has returned, or the process died.
CHECK_DEADLOCK FALSE
