SPECIFICATION SerialSpec
CONSTANTS
    BUFFER_SIZE = 3
    MaxBytes = 6
    MaxString = 2
INVARIANTS
    NoHoles
CHECK_DEADLOCK FALSE
