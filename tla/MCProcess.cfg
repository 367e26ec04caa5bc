SPECIFICATION FairSpec
CONSTANTS
    PROCESS_MAX = 3
    MaxPid = 4
    Ops <- Orderly
VIEW WithoutFrames
INVARIANTS
    OnlyBuiltRuns
    OneBuilder
    NoLostWakeup
PROPERTIES
    WokenOnlyByTarget
    WaitReturns
    ClaimedRuns
CHECK_DEADLOCK FALSE
