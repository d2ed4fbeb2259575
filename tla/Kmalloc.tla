-------------------------------- MODULE Kmalloc --------------------------------
(***************************************************************************)
(* The heap of allocator.c: pools of blocks of a few sizes, each with a    *)
(* free list threaded through the first word of its free blocks, carved    *)
(* out of pages from MMU_alloc_page; larger allocations get pages of their *)
(* own.  A header in front of each allocation names its pool and size.     *)
(*                                                                         *)
(* Addresses are numbers.  Heap page p starts at p * PAGE_SIZE; nullptr is *)
(* address 0, readable and writable, where PT_init has stored 0; the       *)
(* pointer to pool i is -i.  MMU_alloc_page hands out consecutive pages,   *)
(* each one once (ConsecutivePages of PageTable).  Only kmain allocates,   *)
(* so kmalloc and kfree are one step each.                                 *)
(***************************************************************************)
EXTENDS Integers, Sequences, FiniteSets

CONSTANTS
    PAGE_SIZE,              \* 4096
    KMALLOC_HEADER_SIZE,    \* 12
    PoolSize,               \* block_size of pools[]: <<64, 512, 2048>>
    Uint32,                 \* 2^32
    Sizes,                  \* the sizes asked for
    FreshWords,             \* what a word of a new page may hold: its frame
                            \* keeps what its last owner stored there
    MaxPages,               \* bound: heap pages
    MaxLive                 \* bound: allocations live at a time

nullptr == 0
Pools == 1..Len(PoolSize)

ASSUME KmallocAssumption ==
    /\ {PAGE_SIZE, KMALLOC_HEADER_SIZE, Uint32, MaxPages} \subseteq Nat \ {0}
    /\ PoolSize \in Seq(Nat \ {0}) \ {<<>>}
    /\ \A i \in Pools : PAGE_SIZE % PoolSize[i] = 0 /\ PoolSize[i] < PAGE_SIZE
    /\ \A i, j \in Pools : i < j => PoolSize[i] < PoolSize[j]
    /\ \A i \in Pools : PoolSize[i] % PoolSize[1] = 0
    /\ KMALLOC_HEADER_SIZE < PoolSize[1]
    /\ Sizes \subseteq 0..(Uint32 - 1)

Addresses == {nullptr} \cup {a \in PAGE_SIZE..((MaxPages + 1) * PAGE_SIZE - 1) :
                                a % PoolSize[1] = 0}

VARIABLES
    head,           \* head of each pool
    word,           \* the first 8 bytes at each address where a block can start:
                    \* the next block of a free one, the pool of one in use
    size_at,        \* the size in the header at that address
    next_page,      \* the page MMU_alloc_page hands out next
    freed,          \* pages given to MMU_free_page
    live,           \* history: allocations not freed, as returned to the caller
    clean           \* history: the word of the last block was nullptr in every
                    \* page that was cut into blocks

vars == <<head, word, size_at, next_page, freed, live, clean>>

KmallocInit ==
    /\ head = [i \in Pools |-> nullptr]
    /\ word = [a \in Addresses |-> nullptr]
    /\ size_at = [a \in Addresses |-> 0]
    /\ next_page = 1
    /\ freed = {}
    /\ live = {}
    /\ clean = TRUE
-----------------------------------------------------------------------------
PageOf(a) == a \div PAGE_SIZE
PoolPointer(i) == -i
Required(size) == (size + KMALLOC_HEADER_SIZE) % Uint32

(* A uint32_t assigned to an int.                                          *)
AsInt(x) == IF x >= Uint32 \div 2 THEN x - Uint32 ELSE x

(* The rounds of a loop that takes step off n while n > 0.                 *)
Rounds(n, step) == IF n > 0 THEN (n + step - 1) \div step ELSE 0

PoolForBare(size) == {i \in Pools : size <= PoolSize[i]}    \* a faulty variant

PoolFor(size) == {i \in Pools : Required(size) <= PoolSize[i]}

SmallestPool(size) == CHOOSE i \in PoolFor(size) : \A j \in PoolFor(size) : i <= j

(* A faulty variant of Carved: each block linked to itself.                *)
CarvedInPlace(i, w, fresh) ==
    [a \in Addresses |->
        IF PageOf(a) # next_page \/ a % PoolSize[i] # 0 THEN w[a]
        ELSE IF PageOf(a + PoolSize[i]) = next_page THEN a
        ELSE fresh]

(* allocate_for_pool: a page cut in blocks, each linked to the next.  The  *)
(* last one's word is not written.                                         *)
Carved(i, w, fresh) ==
    [a \in Addresses |->
        IF PageOf(a) # next_page \/ a % PoolSize[i] # 0 THEN w[a]
        ELSE IF PageOf(a + PoolSize[i]) = next_page THEN a + PoolSize[i]
        ELSE fresh]

Return(start, size) ==
    live' = live \cup {[add |-> start + KMALLOC_HEADER_SIZE, size |-> size]}

(* Memory that does not fault: what a dirty page left as a link may lead   *)
(* anywhere else, and the code does not come back from there.              *)
Readable(a) == a = nullptr \/ PageOf(a) \in 1..(next_page - 1) \ freed

(* A block popped off the pool's list, filled first when it is empty.      *)
FromPool(i, size) ==
    \E fresh \in FreshWords :
        LET refill == head[i] = nullptr
            w      == IF refill THEN Carved(i, word, fresh) ELSE word
            block  == IF refill THEN next_page * PAGE_SIZE ELSE head[i]
        IN  /\ next_page <= MaxPages
            /\ block \in Addresses
            /\ refill \/ Readable(block)
            /\ next_page' = IF refill THEN next_page + 1 ELSE next_page
            /\ head' = [head EXCEPT ![i] = w[block]]
            /\ word' = [w EXCEPT ![block] = PoolPointer(i)]
            /\ size_at' = [size_at EXCEPT ![block] = size]
            /\ Return(block, size)
            /\ clean' = (clean /\ (refill => fresh = nullptr))
            /\ UNCHANGED freed

PagesOfBig(size) == 1 + Rounds(AsInt(Required(size)), PAGE_SIZE)

kmalloc_big(size) ==
    LET start == next_page * PAGE_SIZE
    IN  /\ next_page + PagesOfBig(size) - 1 <= MaxPages
        /\ next_page' = next_page + PagesOfBig(size)
        /\ word' = [word EXCEPT ![start] = nullptr]
        /\ size_at' = [size_at EXCEPT ![start] = size]
        /\ Return(start, size)
        /\ UNCHANGED <<head, freed, clean>>

kmalloc(size) ==
    IF PoolFor(size) = {} THEN kmalloc_big(size)
    ELSE FromPool(SmallestPool(size), size)
-----------------------------------------------------------------------------
(* The blocks met from address a on.  From nullptr the walk goes on        *)
(* through the word at address 0.                                          *)
WalkFrom(a) ==
    LET onwards == [b \in Addresses |-> IF word[b] \in Addresses \ {nullptr}
                                        THEN word[b] ELSE b]
        node[n \in 0..Cardinality(Addresses)] ==
            IF n = 0 THEN a ELSE onwards[node[n - 1]]
    IN  node

traverse(i) == WalkFrom(head[i])[Cardinality(Addresses)]

(* The walk of pool i comes back: no block of it faults, and one of them   *)
(* points to nullptr.                                                      *)
WalkEnds(i) ==
    /\ head[i] \in Addresses
    /\ \A n \in 0..Cardinality(Addresses) : Readable(WalkFrom(head[i])[n])
    /\ word[traverse(i)] = nullptr

ReturnToHead(start) ==      \* a faulty variant: appended to the first block
    LET i == -word[start]
    IN  word' = [word EXCEPT ![head[i]] = start, ![start] = nullptr]

ReturnUnended(start) ==     \* a faulty variant: its own link not cleared
    word' = [word EXCEPT ![traverse(-word[start])] = start]

ReturnBlock(start) ==
    LET i == -word[start]
    IN  word' = [word EXCEPT ![traverse(i)] = start, ![start] = nullptr]

FreedTooFar(size) == 2 + Rounds(AsInt(size), PAGE_SIZE)     \* a faulty variant
FreedPages(size) == Rounds(AsInt(size), PAGE_SIZE)

(* A header that names no pool, and a walk that does not end, are beyond   *)
(* the model: the code follows them and does not come back.                *)
kfree(add) ==
    LET start == add - KMALLOC_HEADER_SIZE
        size  == size_at[start]
    IN  /\ Readable(start)
        /\ IF word[start] = nullptr
           THEN /\ freed' = freed \cup PageOf(add)..(PageOf(add) + FreedPages(size) - 1)
                /\ UNCHANGED word
           ELSE /\ -word[start] \in Pools /\ WalkEnds(-word[start])
                /\ IF AsInt(size) > 0 THEN ReturnBlock(start) ELSE UNCHANGED word
                /\ UNCHANGED freed
        /\ live' = {r \in live : r.add # add}
        /\ UNCHANGED <<head, size_at, next_page, clean>>

KmallocNext ==
    \/ Cardinality(live) < MaxLive /\ \E size \in Sizes : kmalloc(size)
    \/ \E r \in live : kfree(r.add)

KmallocSpec == KmallocInit /\ [][KmallocNext]_vars
-----------------------------------------------------------------------------
(* The last block of a page cut for a pool keeps the word it held as its   *)
(* link (allocator.c:53 writes only the first block's).  What follows is   *)
(* therefore stated for as long as that word was nullptr each time: clean. *)

(* allocator.c:60, "Traverse the free list of the pool and return the tail *)
(* (not nullptr)", and :66, "This node will be pointing to nullptr": while *)
(* clean, every list, and the chain of lost blocks behind the word at      *)
(* address 0, stays in mapped pages and ends.  No order of refills, frees  *)
(* into a full list and frees into an empty one makes a walk of kfree loop *)
(* or fault.                                                               *)
WalksEnd == clean => \A i \in Pools : WalkEnds(i)

(* Two allocations never overlap, and a block is not handed out again      *)
(* before it is freed, through every sequence of refills and frees, while  *)
(* clean.                                                                  *)
TheHeap == INSTANCE Heap

ImplementsHeap ==
    /\ TheHeap!HeapInit
    /\ [][clean' => [TheHeap!HeapNext]_live]_vars

Start(r) == r.add - KMALLOC_HEADER_SIZE
FreeBlocks(i) ==
    LET node == WalkFrom(head[i])
    IN  IF head[i] = nullptr THEN {} ELSE {node[n] : n \in DOMAIN node}
BlockBytes(i, a) == a..(a + PoolSize[i] - 1)

(* A pool's free list holds none of the bytes, header included, of a live  *)
(* allocation, nor a block of another pool: writing an allocation cannot   *)
(* break a list, nor the list's links an allocation (while clean).         *)
FreeListsApart ==
    clean => \A i \in Pools : \A a \in FreeBlocks(i) :
        /\ a % PoolSize[i] = 0
        /\ \A r \in live : BlockBytes(i, a) \cap Start(r)..(r.add + r.size - 1) = {}
        /\ \A j \in Pools \ {i} : \A b \in FreeBlocks(j) :
              BlockBytes(i, a) \cap BlockBytes(j, b) = {}

(* The header of every live allocation still says what kmalloc wrote: the  *)
(* links of the lists and the headers of the neighbours have left it alone *)
(* (while clean).                                                          *)
HeadersKept ==
    clean => \A r \in live :
        /\ size_at[Start(r)] = r.size
        /\ word[Start(r)] = IF PoolFor(r.size) = {} THEN nullptr
                            ELSE PoolPointer(SmallestPool(r.size))

(* Every byte of a live allocation lies in a page that was handed out and  *)
(* is not freed: kfree of one allocation never frees a page of another     *)
(* (while clean).                                                          *)
LivePagesKept ==
    clean => \A r \in live : \A b \in Start(r)..(r.add + r.size - 1) :
        PageOf(b) \in 1..(next_page - 1) \ freed

(* allocator.c:20-22, "The pool address is used to return the block to the *)
(* available blocks of pool when the address is freed": a freed block joins*)
(* the free list of its pool, which keeps all its others, unless that list *)
(* was empty or the size was 0: then the block is lost (while clean).      *)
BlockReturned ==
    [][clean => \A r \in live \ live' :
        PoolFor(r.size) # {} /\ r.size > 0 =>
            LET i == SmallestPool(r.size)
            IN  head[i] # nullptr =>
                    FreeBlocks(i)' = FreeBlocks(i) \cup {Start(r)}]_vars
=============================================================================
