------------------------------ MODULE FrameList ------------------------------
(***************************************************************************)
(* The list of free page frames of memory_manager.c: the structure         *)
(* free_pages (page_head, page_tail, count), threaded through the first    *)
(* word of every free frame, and its two run-time operations MEM_pf_alloc  *)
(* and MEM_pf_free.  The list starts as PRE_add_address_space leaves it.   *)
(*                                                                         *)
(* Frame numbers are abstract.  nullptr is the null pointer, and it is     *)
(* also the number of physical page 0, whose first word the code can and   *)
(* does overwrite (page 0 stays mapped, see PageTable).  Junk stands for   *)
(* any word that is not the address of a frame.                            *)
(*                                                                         *)
(* The list has no lock of its own.  MEM_pf_free runs between cli and sti  *)
(* (MMU_free_page) and MEM_pf_alloc in the page fault gate or before       *)
(* interrupts are on (PT_init), so each operation is one step.             *)
(***************************************************************************)
EXTENDS Integers, Sequences, FiniteSets

CONSTANTS
    Frames,         \* the page frames put on the list at boot
    nullptr,        \* the null pointer, and physical page 0
    Junk,           \* a word of client data that is no frame's address
    BootOrder,      \* the order in which boot links the frames
    CountMod        \* 2^32: free_pages.count is a uint32_t

ASSUME FramesAssumption ==
    /\ IsFiniteSet(Frames)
    /\ nullptr \notin Frames
    /\ Junk \notin Frames \cup {nullptr}

ASSUME BootOrderAssumption ==
    /\ BootOrder \in Seq(Frames) \ {<<>>}
    /\ \A i, j \in 1..Len(BootOrder) : BootOrder[i] = BootOrder[j] => i = j
    /\ \A f \in Frames : \E i \in 1..Len(BootOrder) : BootOrder[i] = f

ASSUME CountModAssumption ==
    CountMod \in Nat /\ Cardinality(Frames) < CountMod

Pages == Frames \cup {nullptr}

Words == Pages \cup {Junk}

VARIABLES
    page_head,      \* free_pages.page_head
    page_tail,      \* free_pages.page_tail
    count,          \* free_pages.count
    word,           \* the first 8 bytes of every page
    held,           \* frames handed out and not given back
    free,           \* history: frames free to be handed out, oldest first
    intact          \* history: no allocation has taken the last free frame
                    \* and page 0 has not been freed

frameVars == <<page_head, page_tail, count, word, held, free, intact>>
-----------------------------------------------------------------------------
(* What PRE_add_address_space leaves: every frame linked to the next, the  *)
(* last one to nullptr.                                                    *)
Linked(p) ==
    LET position == {i \in 1..(Len(BootOrder) - 1) : BootOrder[i] = p}
    IN  IF position = {} THEN nullptr
        ELSE BootOrder[1 + CHOOSE i \in position : TRUE]

FrameInit ==
    /\ page_head = BootOrder[1]
    /\ page_tail = BootOrder[Len(BootOrder)]
    /\ count = Len(BootOrder)
    /\ word = [p \in Pages |-> Linked(p)]
    /\ held = {}
    /\ free = BootOrder
    /\ intact = TRUE

(* The word a pointer points to.  Reading through Junk yields anything;    *)
(* it may also not come back, which PageTable adds (halted).               *)
Loaded(p) == IF p \in Pages THEN {word[p]} ELSE Words

(* Faulty variants, told apart from the code by the properties below: the  *)
(* counter wider than 32 bits, or forgotten; the tail not moved; the freed *)
(* frame put in front.                                                     *)
AllocWideCount ==
    /\ page_head # nullptr
    /\ page_head' \in Loaded(page_head)
    /\ count' = count - 1
    /\ held' = held \cup ({page_head} \cap Frames)
    /\ free' = IF intact THEN Tail(free) ELSE free
    /\ intact' = (intact /\ Len(free) > 1)
    /\ UNCHANGED <<page_tail, word>>

AllocUncounted ==
    /\ page_head # nullptr
    /\ page_head' \in Loaded(page_head)
    /\ held' = held \cup ({page_head} \cap Frames)
    /\ free' = IF intact THEN Tail(free) ELSE free
    /\ intact' = (intact /\ Len(free) > 1)
    /\ UNCHANGED <<page_tail, word, count>>

FreeTailStays(pf) ==
    /\ word' = [word EXCEPT ![page_tail] = pf]
    /\ count' = (count + 1) % CountMod
    /\ held' = held \ {pf}
    /\ free' = IF intact THEN Append(free, pf) ELSE free
    /\ intact' = (intact /\ pf # nullptr)
    /\ UNCHANGED <<page_head, page_tail>>

FreeToFront(pf) ==
    /\ word' = [word EXCEPT ![pf] = page_head]
    /\ page_head' = pf
    /\ count' = (count + 1) % CountMod
    /\ held' = held \ {pf}
    /\ free' = IF intact THEN Append(free, pf) ELSE free
    /\ intact' = (intact /\ pf # nullptr)
    /\ UNCHANGED page_tail

(* void* MEM_pf_alloc(void).  The frame returned is page_head; a head of   *)
(* nullptr ends in `int $13', see PageTable.                               *)
MEM_pf_alloc ==
    /\ page_head # nullptr
    /\ page_head' \in Loaded(page_head)
    /\ count' = (count - 1) % CountMod
    /\ held' = held \cup ({page_head} \cap Frames)
    /\ free' = IF intact THEN Tail(free) ELSE free
    /\ intact' = (intact /\ Len(free) > 1)
    /\ UNCHANGED <<page_tail, word>>

(* void MEM_pf_free(void* pf).  The store through page_tail reaches no     *)
(* frame when page_tail is Junk (PageTable adds that it may not come       *)
(* back); the word of pf itself is left as its client left it.             *)
MEM_pf_free(pf) ==
    /\ word' = [word EXCEPT ![page_tail] = pf]
    /\ page_tail' = pf
    /\ count' = (count + 1) % CountMod
    /\ held' = held \ {pf}
    /\ free' = IF intact THEN Append(free, pf) ELSE free
    /\ intact' = (intact /\ pf # nullptr)
    /\ UNCHANGED page_head
-----------------------------------------------------------------------------
(* The clients.  A frame in a client's hands has any contents; clients     *)
(* free frames they hold, or page 0: MMU_free_page passes the frame number *)
(* of a page that was never touched, which is 0.                           *)
ClientWrite(f, w) ==
    /\ word' = [word EXCEPT ![f] = w]
    /\ UNCHANGED <<page_head, page_tail, count, held, free, intact>>

FrameNext ==
    \/ MEM_pf_alloc
    \/ \E pf \in held \cup {nullptr} : MEM_pf_free(pf)
    \/ \E f \in held, w \in Words : ClientWrite(f, w)

FrameSpec == FrameInit /\ [][FrameNext]_frameVars
-----------------------------------------------------------------------------
FrameTypeOK ==
    /\ page_head \in Words
    /\ page_tail \in Words
    /\ count \in 0..(CountMod - 1)
    /\ word \in [Pages -> Words]
    /\ held \subseteq Frames
    /\ free \in Seq(Words)
    /\ intact \in BOOLEAN

(* The list threads exactly the free frames: page_head leads, through the  *)
(* first words, to page_tail, and each frame is either on it or held.      *)
OnList(f) == \E i \in 1..Len(free) : free[i] = f

Threaded ==
    /\ Len(free) > 0
    /\ page_head = free[1]
    /\ page_tail = free[Len(free)]
    /\ \A i \in 1..(Len(free) - 1) : word[free[i]] = free[i + 1]

NoRepeats == \A i, j \in 1..Len(free) : free[i] = free[j] => i = j

Partition ==
    /\ \A f \in Frames : f \in held <=> ~OnList(f)
    /\ \A i \in 1..Len(free) : free[i] \in Frames

WellLinked ==
    intact => Threaded /\ NoRepeats /\ Partition /\ count = Len(free)

(* Free frames and count agree with what the clients hold: the check       *)
(* MEM_count_free_pages() < 1 in PT_can_allocate relies on it, and the     *)
(* frame MEM_pf_alloc is about to hand out is nobody's.                    *)
CountExact ==
    intact => /\ count = Cardinality(Frames \ held)
              /\ page_head \in Frames \ held

(* Neither MEM_pf_alloc nor MEM_pf_free (the store through page_tail)      *)
(* changes a word of a frame that a client goes on holding.                *)
ClientDataKept ==
    [][intact /\ held' # held =>
        \A f \in held \cap held' : word'[f] = word[f]]_frameVars

(* Frames are handed out in the order in which they became free, and no    *)
(* frame is handed out twice: until a client takes the last frame or frees *)
(* page 0, every step is one of a first-in first-out pool.                 *)
Pool == INSTANCE FramePool

ImplementsPool ==
    /\ Pool!PoolInit
    /\ [][intact' => [Pool!PoolNext]_(Pool!poolVars)]_frameVars
=============================================================================
