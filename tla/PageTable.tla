------------------------------ MODULE PageTable ------------------------------
(***************************************************************************)
(* The virtual memory of page_table.c on top of the frame list: PT_init,   *)
(* the virtual page allocator (MMU_alloc_page and its relatives), demand   *)
(* allocation in the page fault handler (PT_can_allocate) and              *)
(* MMU_free_page.  The last-level entries of the 1 GB window that PT_init  *)
(* builds under entry 1 of p3_table are one function, pte, from virtual    *)
(* page numbers; its page number stands for the pml2 and pml1 indices.     *)
(*                                                                         *)
(* kmain is the only thread.  Every MMU_ operation runs between cli and    *)
(* sti and the fault handler behind an interrupt gate, so each is one      *)
(* step; a store of kmain is several: it may fault, be handled, and run    *)
(* again.  The processor's translation cache (TLB) is part of the model    *)
(* because no operation of page_table.c invalidates it.                    *)
(***************************************************************************)
EXTENDS FrameList

CONSTANTS
    Pml1Size,       \* 512 entries in a pml1 table
    Pml2Size,       \* 512 entries in pml2
    Uint16,         \* 2^16, the range of the curr_stack_pml indices
    None,           \* no page
    MaxPages,       \* bound: the largest argument of MMU_alloc_pages
    ClientWords,    \* the words kmain stores at the start of a page
    MaxStack,       \* bound: pages MMU_alloc_stack_page hands out
    DanglingStores  \* whether kmain may also store to pages it has freed

ASSUME PagingAssumption ==
    /\ {Pml1Size, Pml2Size} \subseteq Nat \ {0}
    /\ Uint16 \in Nat \ {0}
    /\ Uint16 > Pml1Size /\ Uint16 % Pml1Size = 0
    /\ Uint16 > Pml2Size /\ Uint16 % Pml2Size = 0
    /\ {MaxPages, MaxStack} \subseteq Nat
    /\ ClientWords \subseteq Words
    /\ DanglingStores \in BOOLEAN

VPages == 0..(Pml2Size * Pml1Size - 1)

ASSUME NoneAssumption == None \notin VPages

VARIABLES
    pte,            \* the last-level entries, by virtual page
    tables,         \* frames PT_init has taken for pml2 and the pml1 tables
    heapIndex,      \* curr_pml1_index, curr_pml2_index, curr_pml3_index
    stackIndex,     \* curr_stack_pml1_index, ..._pml2_index, ..._pml3_index
    halted,         \* `int $13' or `int $14' executed: see Halt
    tlb,            \* translations the processor holds: a set of <<page, frame>>
    storing,        \* the page kmain is storing to, or None
    heapPages,      \* history: pages MMU_alloc_page(s) has handed out
    stackPages,     \* history: pages MMU_alloc_stack_page has handed out
    inUse,          \* history: pages handed out and not freed since
    exclusive       \* history: no page has been handed out twice

histories == <<heapPages, stackPages, inUse, exclusive>>
pagingVars == <<pte, tables, heapIndex, stackIndex, halted, tlb, storing,
                histories>>
vars == <<frameVars, pagingVars>>
-----------------------------------------------------------------------------
(* An entry as its accessors see it: bit 0, bit 52 and the address.  The   *)
(* writable and user bits are never looked at.                             *)
Cleared == [present |-> FALSE, allocatable |-> FALSE, frame |-> nullptr]
Allocatable == [Cleared EXCEPT !.allocatable = TRUE]

(* Faulty variants of Mapped: a bit left set, a bit not set.               *)
MappedAllocatable(f) == [present |-> TRUE, allocatable |-> TRUE, frame |-> f]
MappedAbsent(f) == [present |-> FALSE, allocatable |-> FALSE, frame |-> f]

Mapped(f) == [present |-> TRUE, allocatable |-> FALSE, frame |-> f]

(* The page a struct VirtualAddress names: its 9-bit fields cut an index   *)
(* down to the table size; pml3_off is 1.                                  *)
PageOf(index) ==
    (index.pml2 % Pml2Size) * Pml1Size + (index.pml1 % Pml1Size)

Booted == Len(tables) = Pml2Size + 1

Granted == heapPages \cup stackPages

(* The kernel does not come back.  `int $13' and `int $14' push no error   *)
(* code but isr13 and isr14 pop one, so iretq reads a wrong frame.  A load *)
(* or a store through Junk may fall outside the gigabyte that boot.asm     *)
(* maps: it faults, no entry is allocatable there, and it faults again for *)
(* ever.  The model also stops where a broken list leads into a page       *)
(* table: the words there are entries, and pte would no longer be what the *)
(* processor reads.                                                        *)
Halt == halted' = TRUE

TableFrames == {tables[i] : i \in 1..Len(tables)}

(* How a store through p ends: in memory, or not at all.                   *)
AfterStore(p) ==
    \/ p \notin TableFrames /\ UNCHANGED halted
    \/ p \in TableFrames \cup {Junk} /\ Halt

PagingInit ==
    /\ FrameInit
    /\ pte = [v \in VPages |-> Cleared]
    /\ tables = <<>>
    /\ heapIndex = [pml1 |-> 0, pml2 |-> 0, pml3 |-> 1]
    /\ stackIndex = [pml1 |-> Pml1Size, pml2 |-> Pml2Size, pml3 |-> 1]
    /\ halted = FALSE
    /\ tlb = {}
    /\ storing = None
    /\ heapPages = {}
    /\ stackPages = {}
    /\ inUse = {}
    /\ exclusive = TRUE
-----------------------------------------------------------------------------
(* PT_init: one frame for pml2, then one for each pml1 table, whose        *)
(* entries it clears.  The entries it stores in the frames are pte; the    *)
(* store through PML_get_pml1(0) clears word 0 of page 0, already 0.       *)
PT_init ==
    /\ Len(tables) < Pml2Size + 1
    /\ \/ /\ MEM_pf_alloc
          /\ tables' = Append(tables, page_head)
          /\ UNCHANGED halted
       \/ /\ page_head = nullptr
          /\ Halt
          /\ UNCHANGED <<frameVars, tables>>
    /\ UNCHANGED <<pte, heapIndex, stackIndex, tlb, storing, histories>>

(* A faulty variant of Raised: an index carried one page late.             *)
RaisedLate(i) ==
    IF i.pml1 + 1 > Pml1Size
    THEN [i EXCEPT !.pml1 = 0, !.pml2 = i.pml2 + 1]
    ELSE [i EXCEPT !.pml1 = i.pml1 + 1]

(* The index arithmetic of MMU_alloc_page: count up, carry.                *)
Raised(i) ==
    LET carry1 == i.pml1 + 1 >= Pml1Size
        pml2   == IF carry1 THEN i.pml2 + 1 ELSE i.pml2
        carry2 == pml2 >= Pml2Size
    IN  [pml1 |-> IF carry1 THEN 0 ELSE i.pml1 + 1,
         pml2 |-> IF carry2 THEN 0 ELSE pml2,
         pml3 |-> IF carry2 THEN i.pml3 + 1 ELSE i.pml3]

(* heapIndex after n calls of MMU_alloc_page.                              *)
RaisedBy[n \in Nat] == IF n = 0 THEN heapIndex ELSE Raised(RaisedBy[n - 1])

(* A page is handed out allocatable, with no frame, whatever its entry     *)
(* held before.                                                            *)
Grant(pages) ==
    /\ pte' = [v \in VPages |-> IF v \in pages THEN Allocatable ELSE pte[v]]
    /\ inUse' = inUse \cup pages
    /\ exclusive' = (exclusive /\ pages \cap Granted = {})

AllocHeap(n) ==
    LET pages == {PageOf(RaisedBy[i]) : i \in {j \in 1..n : RaisedBy[j].pml3 <= 1}}
    IN  /\ heapIndex' = RaisedBy[n]
        /\ Grant(pages)
        /\ heapPages' = heapPages \cup pages
        /\ halted' = (RaisedBy[n].pml3 > 1)
        /\ UNCHANGED <<frameVars, tables, stackIndex, tlb, storing, stackPages>>

MMU_alloc_page == AllocHeap(1)

(* Refused when more pages are asked for than frames are free; nothing     *)
(* reserves the frames of the pages it grants.                             *)
MMU_alloc_pages(num) ==
    /\ 1 <= num /\ num <= count
    /\ AllocHeap(num)

LoweredTwice(i) == [i EXCEPT !.pml1 = (i.pml1 - 2) % Uint16]    \* a faulty variant

(* The index arithmetic of MMU_alloc_stack_page, in uint16_t: count down,  *)
(* borrow when negative.                                                   *)
Lowered(i) ==
    LET pml1    == (i.pml1 - 1) % Uint16
        borrow1 == pml1 < 0
        pml2    == IF borrow1 THEN (i.pml2 - 1) % Uint16 ELSE i.pml2
        borrow2 == pml2 < 0
    IN  [pml1 |-> IF borrow1 THEN Pml1Size - 1 ELSE pml1,
         pml2 |-> IF borrow2 THEN Pml2Size - 1 ELSE pml2,
         pml3 |-> IF borrow2 THEN i.pml3 - 1 ELSE i.pml3]

MMU_alloc_stack_page ==
    LET index == Lowered(stackIndex)
        page  == PageOf(index)
    IN  /\ stackIndex' = index
        /\ IF index.pml3 < 1
           THEN /\ Halt
                /\ UNCHANGED <<pte, histories>>
           ELSE /\ Grant({page})
                /\ stackPages' = stackPages \cup {page}
                /\ UNCHANGED <<halted, heapPages>>
        /\ UNCHANGED <<frameVars, tables, heapIndex, tlb, storing>>

(* Faulty variants of MMU_free_page: the entry kept, the frame kept.       *)
FreeKeepsEntry(v) ==
    /\ MEM_pf_free(pte[v].frame)
    /\ inUse' = inUse \ {v}
    /\ UNCHANGED <<pte, tables, heapIndex, stackIndex, halted, tlb, storing,
                   heapPages, stackPages, exclusive>>

FreeKeepsFrame(v) ==
    /\ pte' = [pte EXCEPT ![v] = Cleared]
    /\ inUse' = inUse \ {v}
    /\ UNCHANGED <<frameVars, tables, heapIndex, stackIndex, halted, tlb, storing,
                   heapPages, stackPages, exclusive>>

(* MMU_free_page, and one round of MMU_free_pages: give the frame in the   *)
(* entry back, whatever it is, and clear the entry.  No invlpg.            *)
MMU_free_page(v) ==
    /\ MEM_pf_free(pte[v].frame)
    /\ AfterStore(page_tail)
    /\ pte' = [pte EXCEPT ![v] = Cleared]
    /\ inUse' = inUse \ {v}
    /\ UNCHANGED <<tables, heapIndex, stackIndex, tlb, storing, heapPages,
                   stackPages, exclusive>>
-----------------------------------------------------------------------------
(* PT_can_allocate, called by the page fault handler on the page kmain is  *)
(* storing to.  When it returns 0 the handler prints and the store runs    *)
(* and faults again: no state changes.                                     *)
Translated(v) == \E f \in Words : <<v, f>> \in tlb

FaultMapsNewHead ==     \* a faulty variant: the frame after the one taken
    /\ storing # None /\ ~Translated(storing) /\ ~pte[storing].present
    /\ pte[storing].allocatable
    /\ count >= 1
    /\ MEM_pf_alloc
    /\ pte' = [pte EXCEPT ![storing] = Mapped(page_head')]
    /\ UNCHANGED <<tables, heapIndex, stackIndex, halted, tlb, storing, histories>>

PT_can_allocate ==
    /\ storing # None /\ ~Translated(storing) /\ ~pte[storing].present
    /\ pte[storing].allocatable
    /\ count >= 1
    /\ \/ /\ page_head \notin TableFrames
          /\ MEM_pf_alloc
          /\ pte' = [pte EXCEPT ![storing] = Mapped(page_head)]
          /\ UNCHANGED halted
       \/ /\ page_head \in TableFrames \cup {nullptr, Junk}
          /\ Halt
          /\ UNCHANGED <<frameVars, pte>>
    /\ UNCHANGED <<tables, heapIndex, stackIndex, tlb, storing, histories>>

(* kmain starts a store.                                                   *)
BeginStore(v) ==
    /\ storing' = v
    /\ UNCHANGED <<frameVars, pte, tables, heapIndex, stackIndex, halted, tlb,
                   histories>>

(* The store goes through a held translation, or else through the entry,   *)
(* which the processor then holds.                                         *)
Store(w) ==
    /\ storing # None
    /\ \E f \in Words :
        /\ IF Translated(storing) THEN <<storing, f>> \in tlb
           ELSE pte[storing].present /\ f = pte[storing].frame
        /\ tlb' = tlb \cup {<<storing, f>>}
        /\ word' = [word EXCEPT ![f] = w]
        /\ AfterStore(f)
    /\ storing' = None
    /\ UNCHANGED <<page_head, page_tail, count, held, free, intact, pte, tables,
                   heapIndex, stackIndex, histories>>

(* The processor may forget a translation at any time.                     *)
Evict ==
    /\ \E t \in tlb : tlb' = tlb \ {t}
    /\ UNCHANGED <<frameVars, pte, tables, heapIndex, stackIndex, halted, storing,
                   histories>>
-----------------------------------------------------------------------------
Freed == Granted \ inUse

(* kmain between two stores.                                               *)
Kmain ==
    /\ Booted /\ storing = None
    /\ \/ MMU_alloc_page
       \/ \E num \in 0..MaxPages : MMU_alloc_pages(num)
       \/ Cardinality(stackPages) < MaxStack /\ MMU_alloc_stack_page
       \/ \E v \in inUse : MMU_free_page(v)
       \/ \E v \in inUse : BeginStore(v)
       \/ DanglingStores /\ \E v \in Freed : BeginStore(v)

PagingNext ==
    /\ ~halted
    /\ \/ PT_init
       \/ Kmain
       \/ PT_can_allocate
       \/ \E w \in ClientWords : Store(w)
       \/ Evict

(* Instructions retire and gates are entered as soon as they can be.       *)
Fairness ==
    /\ WF_vars(~halted /\ PT_init)
    /\ WF_vars(~halted /\ PT_can_allocate)
    /\ WF_vars(~halted /\ \E w \in ClientWords : Store(w))

PagingSpec == PagingInit /\ [][PagingNext]_vars /\ Fairness

(* The runs in which no page is handed out twice, no allocation takes the  *)
(* last free frame and page 0 is not freed: the code's list survives these *)
(* only (see FrameList), and in these nothing else may break it.           *)
CarefulPagingSpec == PagingInit /\ [][PagingNext /\ exclusive' /\ intact']_vars
-----------------------------------------------------------------------------
Present == {v \in VPages : pte[v].present}

(* The free list survives its clients as long as no page was handed out    *)
(* twice and kmain stores to no page it has freed (DanglingStores is       *)
(* FALSE, so that no stale translation is ever used): no store of kmain    *)
(* reaches a frame that is on the list.                                    *)
ListSurvives == exclusive => WellLinked

(* As long as no page was handed out twice, every frame is in one place:   *)
(* free, a page table, or mapped by one page, which can still be freed.  No*)
(* sequence of operations shares a frame between two pages, shows kmain a  *)
(* page table or a free frame, or loses a frame (DanglingStores is FALSE). *)
FramesAccounted ==
    intact /\ exclusive =>
        /\ held = TableFrames \cup {pte[v].frame : v \in Present}
        /\ Present \subseteq inUse
        /\ \A v \in Present : pte[v].frame \notin TableFrames
        /\ \A v, u \in Present : pte[v].frame = pte[u].frame => v = u

(* A page handed out can be stored to at once (present) or after one page  *)
(* fault (allocatable), never both; any other page faults for good.  It    *)
(* holds past a broken list too, up to the first store into a page table,  *)
(* where the model stops (Halt).                                           *)
InUseUsable ==
    \A v \in VPages : /\ v \in inUse <=> pte[v].present \/ pte[v].allocatable
                      /\ ~(pte[v].present /\ pte[v].allocatable)

(* page_table.c:246, "Addresses allocated will be sequential": the pages   *)
(* of one call follow each other and everything handed out before, so that *)
(* a caller may use them as one block.                                     *)
ConsecutivePages ==
    [][heapIndex' # heapIndex /\ ~halted' =>
        \E first, last \in VPages :
            /\ first <= last /\ heapPages' \ heapPages = first..last
            /\ \A v \in heapPages : v < first]_vars

(* The store of kmain that faults on a page it was given completes as long *)
(* as a frame is free, and is not retried for ever, unless the kernel does *)
(* not come back (Halt), as it may once the list is broken.                *)
StoreCompletes ==
    storing # None /\ storing \in inUse /\ count > 0 ~> storing = None \/ halted

(* main.c:49, "To show how stack addresses differ from heap": no page is   *)
(* handed out twice before the two kinds have used up one pml1 table       *)
(* between them (the stack never leaves the first, its borrows being lost  *)
(* in unsigned indices).                                                   *)
HandedOutOnce ==
    exclusive \/ Cardinality(heapPages) + Cardinality(stackPages) >= Pml1Size

(* main.c:90, "Freed alloc, expecting PF at write": a store to a page that *)
(* was freed does not go through, unless the processor still holds the     *)
(* translation of before (MMU_free_page has no invlpg).                    *)
FreedPageFaults ==
    [][(storing \in Freed /\ storing' = None) => \E t \in tlb : t[1] = storing]_vars
=============================================================================
