------------------------------ MODULE BootMemory ------------------------------
(***************************************************************************)
(* How the list of free page frames comes to be: multiboot_parser.c passes *)
(* the kernel's ELF sections to PRE_add_allocated_span and then the usable *)
(* entries of the memory map to PRE_add_address_space, which links every   *)
(* page it finds free (memory_manager.c).                                  *)
(*                                                                         *)
(* MUL_parse runs with interrupts off.  The recursion of find_free_page    *)
(* takes one step per call, so that a search that never ends is seen.      *)
(* A tag of an unsupported size or version, which the parsers skip, is a   *)
(* tag without entries; where the tags lie is not modelled.                *)
(***************************************************************************)
EXTENDS Integers, Sequences, FiniteSets, FiniteSetsExt

CONSTANTS
    PAGE_SIZE,              \* 4096
    AVOID_REGION_COUNT,     \* 6
    Word64,                 \* 2^64
    LastPage,               \* bound: number of the last page in use
    None,                   \* no address, no entry
    SectionTables,          \* the tables of ELF sections to try
    MemoryMaps              \* the memory maps to try

Span == [address : 0..(LastPage * PAGE_SIZE), size : 0..(LastPage * PAGE_SIZE)]

ASSUME BootAssumption ==
    /\ {PAGE_SIZE, AVOID_REGION_COUNT, LastPage} \subseteq Nat \ {0}
    /\ Word64 \in Nat /\ 2 * (LastPage + 1) * PAGE_SIZE < Word64
    /\ None \notin Nat
    /\ SectionTables \subseteq Seq(Span)
    /\ MemoryMaps \subseteq Seq([address : Nat, size : Nat, type : Nat])

(* The usable entries of a map end, and the spans with room for a page     *)
(* behind them, before the last page.                                      *)
ASSUME RoomAssumption ==
    /\ \A table \in SectionTables : \A i \in 1..Len(table) :
          table[i].address + table[i].size <= (LastPage - 1) * PAGE_SIZE
    /\ \A map \in MemoryMaps : \A i \in 1..Len(map) :
          map[i].address + map[i].size <= LastPage * PAGE_SIZE

Pages == {n * PAGE_SIZE : n \in 1..LastPage}
nullptr == 0

VARIABLES
    sections,       \* the ELF sections of the tag, fixed
    entries,        \* the entries of the memory map, fixed
    section, entry, \* the loop indices of parse_elf and parse_mem_map
    spans,          \* allocated_addresses, allocated_sizes up to
                    \* current_allocated_index
    page_head, page_tail, count,    \* free_pages
    word,           \* the first 8 bytes of each page
    curr_address,   \* of PRE_add_address_space, or None outside it
    search,         \* the argument of find_free_page, or None outside it
    linked,         \* history: the pages linked, in order
    dropped,        \* history: a span did not fit in the table
    outside         \* history: a page outside the entry it was found for is linked

tags == <<sections, entries, section, entry>>
freePages == <<page_head, page_tail, count, word, linked, outside>>
bootVars == <<tags, spans, dropped, freePages, curr_address, search>>
-----------------------------------------------------------------------------
(* MEM_init, with what the boot loader passes.                             *)
BootInit ==
    /\ sections \in SectionTables
    /\ entries \in MemoryMaps
    /\ section = 1 /\ entry = 1
    /\ spans = <<>>
    /\ page_head = nullptr /\ page_tail = nullptr /\ count = 0
    /\ word = [p \in Pages |-> nullptr]
    /\ curr_address = None
    /\ search = None
    /\ linked = <<>> /\ dropped = FALSE /\ outside = FALSE

SpanEnd(i) == spans[i].address + spans[i].size
-----------------------------------------------------------------------------
(* PRE_add_allocated_span for a section of some size: joined to the last   *)
(* span when it begins at most a page behind its end (the difference is    *)
(* unsigned), else a span of its own, if the table has room.               *)
Gap(s) == (s.address - SpanEnd(Len(spans))) % Word64
Follows(s) == spans # <<>> /\ Gap(s) <= PAGE_SIZE

JoinedWithoutGap(s) ==      \* a faulty variant: the gap is not added
    [spans EXCEPT ![Len(spans)].size = @ + s.size]

Joined(s) == [spans EXCEPT ![Len(spans)].size = @ + s.size + Gap(s)]

PRE_add_allocated_span(s) ==
    \/ /\ s.size = 0
       /\ UNCHANGED <<spans, dropped>>
    \/ /\ s.size > 0 /\ Follows(s)
       /\ spans' = Joined(s)
       /\ UNCHANGED dropped
    \/ /\ s.size > 0 /\ ~Follows(s)
       /\ IF Len(spans) < AVOID_REGION_COUNT
          THEN spans' = Append(spans, s) /\ UNCHANGED dropped
          ELSE dropped' = TRUE /\ UNCHANGED spans

parse_elf ==
    /\ section <= Len(sections)
    /\ PRE_add_allocated_span(sections[section])
    /\ section' = section + 1
    /\ UNCHANGED <<sections, entries, entry, freePages, curr_address, search>>
-----------------------------------------------------------------------------
align_page_size(v) ==
    IF v % PAGE_SIZE = 0 THEN v ELSE v + (PAGE_SIZE - (v % PAGE_SIZE))

(* 0, or the end of the first span the page at a meets.  Both ends count.  *)
Meets(a) == {i \in 1..Len(spans) :
                a <= SpanEnd(i) /\ spans[i].address <= a + PAGE_SIZE}

SpanStartInstead(a) ==      \* a faulty variant of ok_address
    IF Meets(a) = {} THEN 0 ELSE spans[Min(Meets(a))].address

ok_address(a) == IF Meets(a) = {} THEN 0 ELSE SpanEnd(Min(Meets(a)))

EndOfEntry == entries[entry].address + entries[entry].size

FoundOutside(p) ==
    outside' = (outside \/ p + PAGE_SIZE > EndOfEntry)

EndEntry == entry' = entry + 1 /\ curr_address' = None /\ search' = None

(* The while condition of PRE_add_address_space, after page p was linked.  *)
SearchOrEnd(p) ==
    IF p + PAGE_SIZE <= EndOfEntry
    THEN curr_address' = p /\ search' = p + PAGE_SIZE /\ UNCHANGED entry
    ELSE EndEntry

(* The first page found for an entry is linked wherever it lies.           *)
LinkFirst(p) ==
    /\ IF page_head # nullptr
       THEN /\ word' = [word EXCEPT ![page_tail] = p, ![p] = nullptr]
            /\ UNCHANGED page_head
       ELSE /\ word' = [word EXCEPT ![p] = nullptr]
            /\ page_head' = p
    /\ page_tail' = p
    /\ count' = count + 1
    /\ linked' = Append(linked, p)
    /\ FoundOutside(p)
    /\ SearchOrEnd(p)

(* A further page is linked if it lies in the entry; else the page before  *)
(* it becomes the tail.                                                    *)
LinkNextTailStays(p) ==     \* a faulty variant: it does not become the tail
    \/ /\ p + PAGE_SIZE <= EndOfEntry
       /\ word' = [word EXCEPT ![curr_address] = p]
       /\ count' = count + 1
       /\ linked' = Append(linked, p)
       /\ UNCHANGED <<page_head, page_tail, outside>>
       /\ SearchOrEnd(p)
    \/ /\ p + PAGE_SIZE > EndOfEntry
       /\ word' = [word EXCEPT ![curr_address] = nullptr]
       /\ UNCHANGED <<page_head, page_tail, count, linked, outside>>
       /\ EndEntry

LinkNext(p) ==
    \/ /\ p + PAGE_SIZE <= EndOfEntry
       /\ word' = [word EXCEPT ![curr_address] = p]
       /\ count' = count + 1
       /\ linked' = Append(linked, p)
       /\ UNCHANGED <<page_head, page_tail, outside>>
       /\ SearchOrEnd(p)
    \/ /\ p + PAGE_SIZE > EndOfEntry
       /\ word' = [word EXCEPT ![curr_address] = nullptr]
       /\ page_tail' = curr_address
       /\ UNCHANGED <<page_head, count, linked, outside>>
       /\ EndEntry

(* One call of find_free_page, and what is done with a page it returns.    *)
StartBehind(a) == align_page_size(a + 1)    \* a faulty variant

Start(a) == align_page_size(IF a = 0 THEN 1 ELSE a)

find_free_page ==
    /\ search # None
    /\ \/ /\ ok_address(Start(search)) # 0
          /\ search' = align_page_size(ok_address(Start(search)))
          /\ UNCHANGED <<entry, freePages, curr_address>>
       \/ /\ ok_address(Start(search)) = 0
          /\ IF curr_address = None THEN LinkFirst(Start(search))
             ELSE LinkNext(Start(search))
    /\ UNCHANGED <<sections, entries, section, spans, dropped>>

(* An entry of type 1 is passed to PRE_add_address_space, another skipped. *)
parse_mem_map ==
    /\ section > Len(sections) /\ entry <= Len(entries) /\ search = None
    /\ IF entries[entry].type = 1
       THEN search' = align_page_size(entries[entry].address) /\ UNCHANGED entry
       ELSE entry' = entry + 1 /\ UNCHANGED search
    /\ UNCHANGED <<sections, entries, section, spans, dropped, freePages, curr_address>>

BootNext == parse_elf \/ parse_mem_map \/ find_free_page

BootSpec == BootInit /\ [][BootNext]_bootVars /\ WF_bootVars(BootNext)
-----------------------------------------------------------------------------
Parsed == section > Len(sections) /\ entry > Len(entries)
Linked == {linked[i] : i \in 1..Len(linked)}

(* As long as the table of spans has not overflowed, no byte of an ELF     *)
(* section is in a page on the free list, in whatever order the sections   *)
(* come, touch or overlap: joining spans loses none.                       *)
SectionsKept ==
    ~dropped =>
        \A p \in Linked : \A i \in 1..Len(sections) :
            sections[i].size > 0 =>
                \/ p + PAGE_SIZE <= sections[i].address
                \/ sections[i].address + sections[i].size <= p

(* Between entries the pages linked are one list, each page on it once,    *)
(* with head, tail, count and a last link of 0: what FrameInit assumes.    *)
(* Only a page linked outside its entry breaks this.                       *)
ListReady ==
    search = None /\ ~outside =>
        /\ count = Len(linked) /\ Cardinality(Linked) = Len(linked)
        /\ IF linked = <<>> THEN page_head = nullptr
           ELSE /\ page_head = linked[1]
                /\ page_tail = linked[Len(linked)]
                /\ word[page_tail] = nullptr
                /\ \A i \in 1..(Len(linked) - 1) : word[linked[i]] = linked[i + 1]

(* No page is forgotten: each that lies in a usable entry, is not page 0   *)
(* and meets no span is on the list in the end, across every jump of the   *)
(* search.                                                                 *)
AllFreeLinked ==
    Parsed =>
        \A p \in Pages : \A i \in 1..Len(entries) :
            /\ entries[i].type = 1
            /\ entries[i].address <= p
            /\ p + PAGE_SIZE <= entries[i].address + entries[i].size
            /\ ok_address(p) = 0
            => p \in Linked

(* The tags are parsed to the end, unless a span ends with a page.         *)
ParsingEnds ==
    <>(Parsed \/ \E i \in 1..Len(spans) : SpanEnd(i) % PAGE_SIZE = 0)
=============================================================================
