SPECIFICATION CarefulPagingSpec
CONSTANTS
    Frames <- SixFrames
    nullptr <- MCnullptr
    Junk <- MCJunk
    BootOrder <- SixInOrder
    CountMod = 8
    Pml1Size = 3
    Pml2Size = 2
    Uint16 = 12
    None <- MCNone
    MaxPages = 2
    MaxStack = 3
    ClientWords <- TwoWords
    DanglingStores = FALSE
INVARIANTS
    ListSurvives
    FramesAccounted
PROPERTIES
    ConsecutivePages
CHECK_DEADLOCK FALSE
