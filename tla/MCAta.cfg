SPECIFICATION FairSpec
CONSTANTS
    Procs = {p1, p2}
    Boot = Boot
    NoProc = NoProc
    Lbas = {l1}
    PROCESS_MAX = 2
INVARIANTS
    NoStaleCompletion
    GateWakeup
PROPERTIES
    ReadReturnsSector
    WriteLands
    GateComesFree
CHECK_DEADLOCK FALSE
