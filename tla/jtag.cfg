SPECIFICATION LiveSpec
CONSTANTS
    BufSize = 3
    Window = 2
    MaxCmds = 5
    MaxConns = 3
INVARIANTS CommandsInOrder AnswersInOrder SimNeverBlocks
PROPERTIES EveryReadAnswered ServerShutsDown
CHECK_DEADLOCK FALSE
