SPECIFICATION InterruptsSpec
CONSTANTS
    Lines <- FourLines
    FirmwareMasks <- NoMask
    Faults <- PageFault
    MaxDepth = 3
INVARIANTS
    ReturnsHome
    HandlersAlone
    ServiceEnded
PROPERTIES
    KeyboardServed
CHECK_DEADLOCK FALSE
