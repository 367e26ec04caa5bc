SPECIFICATION Spec
CONSTANTS
    PROCESS_MAX = 2
    FD_PER_PROC = 2
    PIPE_MAX = 1
    Windows = {"fork"}
    MaxRefs = 3
INVARIANT HeldEndIsOpen
CHECK_DEADLOCK FALSE
