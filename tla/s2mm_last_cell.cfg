SPECIFICATION Spec
CONSTANTS
    BufferSize = 9
    Word = 1048576
    Pointer = 65536
    GetSize = 4
    WordBytes = 4
    Grains = {4}
    Limit = 24
INVARIANTS GetInOrder
