SPECIFICATION PrintkSpec
CONSTANTS
    Formats <- SomeFormats
    Values <- Limits
INVARIANTS
    PrintsFormat
    BuffersHold
    ReadsInside
