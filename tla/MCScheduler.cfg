SPECIFICATION Spec
CONSTANTS
    PROCESS_MAX = 3
    PREEMPT_TICKS = 2
    TickMod = 3
    SleepTicks = {1}
    Sleepers = {0, 1}
INVARIANTS
    SliceBounded
    BoundedBypass
PROPERTIES
    FullSlice
    SleepOneTick
    TurnComes
CHECK_DEADLOCK FALSE
