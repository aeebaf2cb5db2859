SPECIFICATION BufSpec
CONSTANTS
    BUFSIZE_BYTE = 4
    StoreFirst = FALSE
    PutTwice = TRUE
    Reread = TRUE
    LoadFirst = FALSE
    GetTwice = TRUE
    MaxBytes = 12
INVARIANTS BytesInOrder NoOverwrite
PROPERTIES QueueSpec PutReturns
CHECK_DEADLOCK FALSE
