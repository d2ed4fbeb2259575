SPECIFICATION KmallocSpec
CONSTANTS
    PAGE_SIZE = 8
    KMALLOC_HEADER_SIZE = 1
    PoolSize <- TwoPools
    Uint32 = 64
    Sizes <- EverySize
    FreshWords <- UsedWords
    MaxPages = 3
    MaxLive = 2
INVARIANTS
    WalksEnd
    FreeListsApart
    HeadersKept
    LivePagesKept
PROPERTIES
    ImplementsHeap
    BlockReturned
CHECK_DEADLOCK FALSE
