SPECIFICATION PagingSpec
CONSTANTS
    Frames <- FourFrames
    nullptr <- MCnullptr
    Junk <- MCJunk
    BootOrder <- FourInOrder
    CountMod = 8
    Pml1Size = 3
    Pml2Size = 1
    Uint16 = 12
    None <- MCNone
    MaxPages = 2
    MaxStack = 3
    ClientWords <- OneWord
    DanglingStores = TRUE
INVARIANTS
    InUseUsable
    HandedOutOnce
PROPERTIES
    StoreCompletes
    FreedPageFaults
CHECK_DEADLOCK FALSE
