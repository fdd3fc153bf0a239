SPECIFICATION FairSpec
CONSTANTS
    MaxCheckPoint = 7
INVARIANTS
    ReportsApart
    StoppedMeansDone
PROPERTIES
    StatusAdvances
    StopIsAnswered
\* The process has ended, or ServiceMain has returned.
CHECK_DEADLOCK FALSE
