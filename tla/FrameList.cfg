CONSTANTS
    Frames <- ThreeFrames
    nullptr <- MCnullptr
    Junk <- MCJunk
    BootOrder <- ThreeInOrder
    CountMod = 5
SPECIFICATION FrameSpec
INVARIANTS FrameTypeOK WellLinked CountExact
PROPERTIES
    ClientDataKept
    ImplementsPool
CHECK_DEADLOCK FALSE
