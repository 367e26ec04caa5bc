SPECIFICATION Spec
CONSTANTS
    PROCESS_MAX = 3
    FD_PER_PROC = 2
    PIPE_MAX = 1
    Windows = {}
    MaxRefs = 3
INVARIANTS
    HeldEndIsOpen
    RefsAreEntries
    FreeSlotIsClosed
CHECK_DEADLOCK FALSE
