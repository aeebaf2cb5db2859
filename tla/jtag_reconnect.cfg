SPECIFICATION Spec
CONSTANTS
    BufSize = 3
    Window = 2
    MaxCmds = 4
    MaxConns = 2
INVARIANTS NoAssertionFails
CHECK_DEADLOCK FALSE
