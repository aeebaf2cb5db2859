SPECIFICATION Spec
CONSTANTS
    BufferSize = 34
    Word = 1048576
    Pointer = 65536
    Chunk = 8
    Limit = 136
    Lag = 33
CHECK_DEADLOCK FALSE
INVARIANTS StreamInOrder
