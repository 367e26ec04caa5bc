SPECIFICATION FairSpec
CONSTANTS
    Procs = {p1, p2}
    NoProc = NoProc
    PIPE_BUF_SIZE = 2
    MaxLen = 3
    MaxBytes = 4
INVARIANTS
    FifoContents
    RefsMatch
    NoLostWakeup
PROPERTY ImplementsPipeSpec
CHECK_DEADLOCK FALSE
