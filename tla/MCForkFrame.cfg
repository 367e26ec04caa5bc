SPECIFICATION Spec
CONSTANTS
    PROCESS_MAX = 3
    MaxPid = 4
    Ops <- ForkOnly
INVARIANT ForkCopiesOwnFrame
CHECK_DEADLOCK FALSE
