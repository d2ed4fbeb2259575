SPECIFICATION BootSpec
CONSTANTS
    PAGE_SIZE = 4
    AVOID_REGION_COUNT = 2
    Word64 = 1024
    LastPage = 6
    None <- MCNone
    SectionTables <- AllTables
    MemoryMaps <- AllMaps
INVARIANTS
    SectionsKept
    ListReady
    AllFreeLinked
PROPERTIES
    ParsingEnds
CHECK_DEADLOCK FALSE
