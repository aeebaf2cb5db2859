SPECIFICATION DemoSpec
CONSTANTS
    BufferSize = 34
    Word = 1048576
    Pointer = 65536
    GetSize = 8
    WordBytes = 2
    Grains = {2, 4}
    Limit = 40
    Threshold = 8
    Chunk = 8
    Lag = 1
CHECK_DEADLOCK FALSE
INVARIANTS StreamInOrder RingHoldsTheRest StaleTailIsSafe PutIsPutDumb
INVARIANTS GetInOrder CopiedCellsStay RingHoldsUnread WakeUnderWay NothingDropped
PROPERTIES DemoEnds
