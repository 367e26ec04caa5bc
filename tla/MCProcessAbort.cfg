SPECIFICATION Spec
CONSTANTS
    PROCESS_MAX = 3
    MaxPid = 3
    Ops <- EveryOp
INVARIANT DistinctPids
CHECK_DEADLOCK FALSE
