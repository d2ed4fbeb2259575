SPECIFICATION KeyboardSpec
CONSTANTS
    MaxKeys = 4
    Fifo = 16
INVARIANTS
    AnswersMatch
    NoIdleWait
PROPERTIES
    SetUpEnds
    EveryKeyRead
CHECK_DEADLOCK FALSE
