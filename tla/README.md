# A TLA+ model of Implement-OS

Implement-OS (`src/` below; CSC 454) is a small 64-bit kernel in C and assembly:
it takes over from GRUB, builds a list of free page frames and page tables, and
runs one thread, `kmain`, together with interrupt handlers for the keyboard,
the serial port and the page fault.  This directory holds TLA+ models of it,
configurations that check them with TLC, and proofs checked by TLAPS.

    tlc -workers 2 -config FrameList.cfg MCFrameList     model-check one run
    tlapm PagingProofs.tla                               check one module's proofs

`PROJECT.json` lists the runs, the mutants that show each property can fail,
the source lines behind every definition, the findings and the hazards.

## 1. The system

One processor, one thread, no user mode.  Concurrency comes from interrupts,
which run to completion behind interrupt gates (a handler is not interrupted),
from exceptions, which may also occur inside a handler, and from the devices,
which go on by themselves.  `cli()` returns whether interrupts were on and
`sti(flag)` restores that; nearly every operation on shared state runs between
the two.

| component (files under `src/src/`) | state | operations | talks to |
|---|---|---|---|
| frame list (`c/memory_manager.c` 178-224) | `free_pages`: head, tail, count; the first word of each free frame is the link | `MEM_pf_alloc`, `MEM_pf_free`, `MEM_count_free_pages` | called by virtual memory |
| boot memory map (`c/memory_manager.c` 30-177, `c/multiboot_parser.c`) | the reserved spans (6 at most), the page last linked | `PRE_add_allocated_span`, `PRE_add_address_space`, the walk over the multiboot tags | leaves the frame list |
| virtual memory (`c/page_table.c`) | three levels of tables, next heap page, next stack page | `PT_init`, `MMU_alloc_page(s)`, `MMU_alloc_stack_page`, `MMU_free_page(s)`, `PT_can_allocate` | frame list below; heap, `kmain` and the page fault handler above |
| kernel heap (`c/allocator.c`) | three pools of blocks (64, 512, 2048 bytes), a header before each allocation | `kmalloc`, `kmalloc_big`, `kfree`, `kfree_big` | `MMU_alloc_page`, `MMU_free_page` |
| ring buffer (`c/buffer.c`) | 33 slots, producer and consumer index, a function that consumes | `BUF_init`, `BUF_produce`, `BUF_consume`, two queries | used by serial output |
| serial output (`c/serial.c`) | the ring buffer, the UART's registers | `SER_init`, `SER_write_c`, `SER_write_str`, `SER_interrupt` | IRQ 4, UART, everything that prints |
| console (`c/vga_api.c`, `c/console.c`) | cursor, the 80 x 25 cells, whether the line is a prompt, pressed keys | `VGA_*`, `printkln`, the keyboard handler | prints to serial too; IRQ 1 |
| interrupt dispatch (`c/interrupts.c`, `asm/interrupt_init.asm`) | IDT, PIC masks, one shared slot per return label | 256 entry stubs, one C dispatcher, end of interrupt | all handlers |
| PS/2 (`c/ps2.c`) | controller and keyboard status | polling set-up, one read per IRQ 1 | console |
| formatted printing (`c/vga_api.c` `_printk`, `c/lib.c` `to_string`) | position in the format, the arguments left, a buffer per directive | `_printk`, `to_string` | console, serial |
| helpers (`c/lib.c`) | the interrupt flag | `cli`, `sti`, string loops | all |
| GDT/TSS (`c/gdt.c`) | three stacks for exceptions | set up once | dispatch |
| entry code, generators, build files | constants | run once | |

Behaviours that are hard to test, component by component (each at its line in
`PROJECT.json` under "hazards"):

* *Frame list.*  Long sequences of allocations and frees over a list threaded
  through memory that its clients have written; the list at its last frame; a
  frame number 0 given back for a page that never had a frame; an unsigned
  counter trusted by `PT_can_allocate`.  Correct when the links thread exactly
  the free frames, the counter counts them, and frames in use are left alone.
* *Virtual memory.*  Pages are handed out first and get their frame in a page
  fault, on the first store; frees and faults interleave; the processor's
  translation cache is never invalidated; the indices of heap and stack pages
  are carried over three levels.  Correct when no frame is in two places, none
  is lost, and a store to a page that was handed out succeeds.
* *Heap.*  Pools run empty and are refilled, blocks return in any order; sizes
  are added, cut to 32 bits and compared as signed numbers.  Correct when
  allocations never overlap each other, the free lists or the headers, and
  when what is freed can be allocated again.
* *Serial output.*  Writers, the interrupt handler and the UART race; the
  interrupt controller notices edges only, and two conditions share one line.
  Correct when bytes go out in order, once, and do not wait for ever.
* *Boot.*  Overlaps at the ends of spans, a table of six, tags whose sizes are
  taken on trust.
* *Console.*  Prompt and cursor moved by a key between two characters of a
  message; a row index one past the screen; erasing, wrapping and scrolling in
  any order.  Correct when the screen is always the end of one text.
* *Dispatch.*  An exception inside a handler overwrites the return labels of the
  outer entry; ends of interrupt that are not specific; nested `cli` and `sti`.
  Correct when every entry runs its own handler and returns, and when no line is
  left in service.
* *PS/2.*  Waits without bound, answers nobody reads, one byte per interrupt.
  Correct when the waits end and no key stays behind.
* *Formatted printing.*  One list of arguments walked twice, buffers of fixed
  size, numbers at the limits of their types.

## 2. The modules

| module | models | abstract specification | proofs |
|---|---|---|---|
| `BootMemory` | reserved spans and the linking of the usable memory at boot | | `BootProofs` |
| `FrameList` | the frame list at run time, any client | `FramePool`, a FIFO pool | `PagingProofs` |
| `PageTable` (extends `FrameList`) | virtual memory on the frame list, with kmain's stores, page faults and the translation cache | | `PagingProofs` |
| `Kmalloc` | the heap | `Heap`, disjoint allocations | `KmallocProofs` |
| `Buffer` | the ring buffer | `BoundedFifo` | `BufferProofs` |
| `Serial` (instantiates `Buffer`) | serial output with UART, interrupt controller and handler | | `OutputProofs` |
| `Console` | the text screen, messages and the keyboard's part of it | `Terminal`, an endless text | `ConsoleProofs` |
| `Interrupts` | entry stubs, dispatch, interrupt flag, both interrupt controllers | | `InterruptsProofs` |
| `Keyboard` | set-up and interrupt handler of PS/2, with controller and keyboard | | `ConsoleProofs` |
| `Printk` | formatted printing and number conversion | | `OutputProofs` |
| `CommonLemmas` | induction and recursion over the numbers, division, counting: what several proofs need | | |
| `MC...` | the values TLC gives the constants | | |

Each module names the code's variables where it can; variables marked *history*
record what the properties talk about; a step depends on one only in a client's
choice (it frees what it holds) or in a bound.  Faulty variants of an operation (for
example `FreeTailStays` before `MEM_pf_free`) are not part of any
specification: they are the bugs against which the properties are tried.

### BootMemory

`sections` and `entries` are the inputs: the ELF section table and the memory map
of the multiboot information, any member of the constants `SectionTables` and
`MemoryMaps`; a tag the parsers refuse (another entry size or version) is one
without entries.  A step is one section (`parse_elf` calling
`PRE_add_allocated_span`), one entry (`parse_mem_map` starting
`PRE_add_address_space`) or one call of `find_free_page`, with what its caller
does with the page it returns (`LinkFirst` before the while loop of
`PRE_add_address_space`, `LinkNext` in it).  `search` is the argument of
`find_free_page`; each recursive call is a step, so a search that does not end is
a behaviour that stays where it is.  `spans` is the pair of arrays up to
`current_allocated_index`.

In the end the list is what `FrameInit` of `FrameList` starts from (`ListReady`),
unless `outside`: the first page found for an entry is linked without a look at
the entry's end (memory_manager.c:115), so an entry smaller than a page, or wholly
reserved, puts a page on the list that is not in it, and a later entry may link
that page again.

### FrameList

`page_head`, `page_tail`, `count` are the fields of `free_pages`; `word[p]` is
the first 8 bytes of page `p`.  `FrameInit` is the list the boot code leaves:
the frames in the order `BootOrder`, the last one linked to 0.
`MEM_pf_alloc` pops, `MEM_pf_free` stores the frame's address at `page_tail`
and makes it the tail; as in the code it writes nothing in the freed frame.
`ClientWrite` lets the holder of a frame put anything there, including words
that look like addresses of frames.  Page 0 is a page like others (the
kernel's identity map covers it) and its number is the null pointer.

The list only works as a list until an allocation takes the last frame or
page 0 is freed; `intact` (history) says that neither has happened, and the
properties are stated under it.  What the code does afterwards stays in the
model, for `FrameTypeOK` and for `PageTable`:

* after the last frame is taken, `page_tail` still names it, and `page_head` is
  whatever its first word held: a frame freed next hangs on the old tail and
  cannot be reached (memory_manager.c:197 calls it "tail of free pages");
* a page that was never touched has frame 0 in its entry, so freeing it
  (page_table.c:263) puts page 0 on the list.

### PageTable

The three upper levels are set up by `PT_init` and never change; the last-level
entries are the function `pte` over virtual page numbers.  `Pml1Size` and
`Pml2Size` are 512 in the code; the indices are the code's, with their carries
(`Raised`), the borrow in `uint16_t` arithmetic (`Lowered`) and the 9-bit fields
of `struct VirtualAddress` (`PageOf`).  `PT_init` takes one frame for `pml2` and
one per `pml1` table, a step each.

A store by `kmain` is a conversation: `BeginStore`, then `Store` if the
processor holds a translation or the entry is present, else the page fault,
`PT_can_allocate`, and `Store` again.  `tlb` is the set of translations held,
`Evict` drops one at any time, and no operation of page_table.c flushes them.
`halted` says that the kernel does not come back.  `int $13` and `int $14` do that:
their entry stubs pop an error code that the `int` instruction does not push.  So may
a load or a store through `Junk`, a word of client data taken for an address, once the
list is broken: in `MEM_pf_alloc` that is a page fault inside the page fault handler,
at an address where no entry is allocatable.  Both outcomes are in the model, since such a
word may also be an address that is mapped.  And the model stops at a store into a
frame that holds a page table, which a broken list can hand to `kmain`: the words there
are the entries themselves, and `pte` would no longer be what the processor reads.

Two histories delimit what can be expected: `exclusive` (no page was handed
out twice, which stops being true when the stack pages meet the heap pages)
and `intact`.

### Kmalloc

Addresses are numbers; a block is known by where it starts, `word` is its
first word (link when free, pool when in use) and `size_at` the size in its
header.  `MMU_alloc_page` is the counter `next_page`, which `ConsecutivePages`
of `PageTable` justifies.  The arithmetic is the code's: `Required` in 32 bits,
`AsInt` where a `uint32_t` is assigned to an `int`, `Rounds` for the loops that
take a page size off a counter.  `traverse` from a null head walks from address
0, as in the code: `kfree` then links the block there.

The last block of a new page keeps the former contents of its frame as its link
(allocator.c:48-57 writes none there although line 66 relies on one, and neither
`MEM_pf_alloc` nor `MEM_pf_free` clears a frame).  `FreshWords` says what that word can
be.  After such a page the free list goes on to wherever the word points, and
kmalloc hands that out; the model follows it while the memory is mapped (`Readable`).
The history `clean` is true as long as the word was 0 in every page cut into blocks: the
properties of the heap are stated under it.  Without it they do not hold: as soon as
`FreshWords` holds the address of a block, TLC finds a walk that does not end, so frames
that served the heap before are what the code cannot cope with (section 4).

### Buffer and Serial

`Buffer` is buffer.c line by line, with the slots as a function and the byte
passed to the consumer in `out`.  `Serial` instantiates it with `out` the
UART's transmit register.  `SER_write_c` has its four branches and is one step,
since it runs with interrupts off and reads the register at most once with
consequences.  The handler is interruptible by the hardware only, so it is four
steps: `ReadIIR` (reading the identification register withdraws the
empty-register condition), `read_lsr` or `trigger_write`, and the end of
interrupt.  The hardware is external: `Transmit` empties the register and raises
the condition, `LineError` raises the other condition on the same line, and
`Edge` latches a request when the line rises.  Printing is modelled from the
first instruction on, before `SER_init` too (`phase`): the model stops at
"crashed" when the function to consume with is still NULL.

The n-th character is the number n, so that loss, repetition and order show.

### Console

`vga_buff`, `current_row`, `current_col` and the three modifier flags are the
code's.  A call of `printk` or `printkln` is `Begin`, the rounds of `is_prompt` (one
cell each, since the row may change between two), then `DisplayNext` for each
character it displays: the line feed off the prompt line, the text, the line feed and
the prompt of `CON_write_prompt` (`ToDisplay`).  `VGA_display_char` and
`VGA_erase` run with interrupts off, so each is one step; between any two of those steps
may come `CON_key_action`, the handler of IRQ 1, or a `Report`: the message of another
handler, in one go, or the line feed that is left of `printkln_no_serial`.  Row `MAX_ROW` is the
video memory below the screen: a line feed on the last row leaves `current_row` there.
`pressed_keys` is represented by one entry of each kind (backspace, tab, line feed,
letter, no character); for the codes behind its 83 entries `BeyondTable` says what
byte may be there.

`Terminal` is what a screen promises: the last lines of one text, in which only the
open line changes.  The mapping reads the lines off the rows, each up to its last cell
that is not blank.  Only where `scroll` works on a line that fills the last row is `Terminal` no
better than the code: the line after a full one is empty, but when the screen is full, too, it
shows the full one again (`IsCopy`), because `scroll` does not clear the row it has copied
(vga_api.c:163).  The next character takes the place of the copy, the erase key blanks its
first character, and a line feed leaves it in the text for good.  `Terminal` has no choice in
this: what it is fed determines its lines, so a line doubled anywhere else is an error.

### Interrupts

A handler entered is a record of `calls`: its vector, whether the processor pushed an
error code, the flag it saved, and how far it is (`at`): about to store the first or
the second label, pushing registers, in C, about to end the interrupt, popping.
`push_reg` jumps to the label in `after_push`, `pop_reg` to that in `after_pop`, each
known by its vector: they are *one* pair for all 256 stubs.  Every vector has the stub
the generator wrote; they differ only in the error code that some drop before `iretq`
(`PopsErrorCode`) and in the stack that `setup_idt` and the TSS give vectors 8, 13 and
14 (`OwnStack`).  Hardware is external: `Raise`, the priorities of two cascaded
controllers (`Acceptable`), `Fault` in C code, `NonMaskable` between any two
instructions.

An entry comes home as long as exceptions come at moments when the labels can be
shared, which `Survivable` (history `tangled`) names: the interrupted stub has not
stored its first label yet, or it is in C or popping and the exception's stub drops as
much as it does itself.  `ReturnsHome` says that this is enough.  Outside:

* a page fault in the handler of an IRQ (a handler that touches a page not yet backed by
  a frame) leaves `isr14.after_pop` behind; the IRQ's stub then drops 8 bytes of a frame
  without error code, and `iretq` fails.  Handlers that only
  touch static memory do not do it;
* an NMI in the page fault handler: the reverse;
* an NMI between the two stores, or between them and the jump, goes on in the wrong
  handler;
* a second fault 13 or 14 inside the first one's handler uses the same stack from its
  start and overwrites the outer frame;
* `int $13` and `int $14` push no error code at all.

### Keyboard

`PS2_setup_keyboard` is the sequence of its reads and writes; `SetUp` does the next
one when `wait_for_write` or `wait_for_read` lets it.  The controller with its two
buffers, the keyboard and IRQ 1 are external.  What is assumed of them: a command is
obeyed some time after it is written and answered in the order asked; a byte for the
data port enables the first port again and goes to the keyboard, which acknowledges
it; keyboard bytes wait while the port is disabled or the output buffer full; the
request is made when the line rises and may or may not survive a byte that is read
before it is accepted.  `stray` (history) says that one has survived.

`wait_for_read` (ps2.c:57) lets `sr` point to a variable of the loop's block; the
kernel is built without optimisation, where that variable keeps its place, and the
model reads it so.

### Printk

A format is a sequence of parts: plain characters, directives and what only looks like one,
each what one round of `_printk`'s loop is meant for.  The walk does not know them: it goes
through the spelling character by character, `fmt` is where it is, and a format that is cut
short within a directive takes it beyond the terminator (`walk` = "beyond").  It is made twice,
with the functions of the screen and, the arguments from their start, with those of the serial
port.  `screen` and `serial` have an element for each round: its calls, each with its text.
`c_count` adds what the calls return: the characters shown, four for a tab
(vga_api.c:154, `Spread`).
Arguments are 64-bit words in four limbs of 16 bits, `to_string` computes on them
(`Divide`, `Negate`), and the property reads the numeral back independently
(`Value`).  A `%c` or `%s` stands for its argument.

## 3. The runs

| run | question | states |
|---|---|---|
| `frame_list` | the list under every sequence of operations and client writes; implements `FramePool` | 313 000 |
| `boot_memory` | from any sections and map: sections kept off the list, list well formed, no free page forgotten, parsing ends | 164 000 |
| `paging` | frames in one place, none lost, list untouched, consecutive pages, as long as no freed page is stored to | 1 123 000 |
| `paging_any` | the same machine after heap and stack have met or the list was drained: usable pages, each handed out once until the two kinds meet, stores that complete, freed pages that fault unless a translation is held | 813 000 |
| `kmalloc` | while clean: walks end, allocations, free lists and headers apart, freed blocks back in their pool; implements `Heap` | 119 000 |
| `buffer` | implements `BoundedFifo` | 1 600 |
| `serial` | order, everything sent | 246 000 |
| `console` | the screen implements `Terminal`, which doubles a line that fills the last row and no other; blank behind the cursor; messages off the prompt line, the prompt back after them | 806 000 |
| `interrupts` | every entry comes home, handlers alone, every interrupt ended, the keyboard served | 288 000 |
| `keyboard` | set-up gets its own answers and ends, no idle wait, every key read | 114 000 |
| `printk` | every directive printed in full with its own argument, twice the same, buffers and format bounds | 196 000 |
| `serial_holes` (violation) | serial.c:130, no holes in the data | |

The types of every module are proved (section 5), alone or as a part of the
inductive invariant (those of `Printk` are in `PrintsFormat`'s), as are `ThrNotOverwritten`
and `QueriesExact`; only those of `FrameList`, which speak of a list that has been broken, are
checked as well.  `BlankBehind` has the limits of the cursor.

*Bounds.*  `boot_memory` has six pages of 4 units and room for two spans; its
18 130 inputs are all tables of up to three of six sections (inside a page, over a
boundary, touching, overlapping, within a page of another, ending with a page,
empty), so that spans are joined, kept apart and dropped, and all pairs of
entries between six cut points at and off page boundaries.  `LastPage` bounds the
memory.  `frame_list` has three frames, enough for head, middle and tail to
differ and for clients to drain the list; client words range over all frames, 0
and junk.  `paging` has two `pml1` tables of three entries, so that the heap
index carries once within the window and once out of it, and the first heap page
(1) and stack page (2) are apart; three frames go to tables and three to data,
fewer than there are pages; `kmain` stores only to pages it holds (`DanglingStores` is FALSE), so stale
translations are kept but never used.  `paging_any` has one table of three entries and two
data frames, and lets `kmain` store to freed pages; `MaxStack` bounds the stack pages handed out at three, all there
are.  `MaxPages` is the largest argument of `MMU_alloc_pages`.  `kmalloc` has
pages of 8 units and blocks of 2 and 4, so each list is emptied, refilled and
walked; `MaxPages` 3 and `MaxLive` 2 leave room for two refills and a large
allocation; sizes just fit, just miss, are zero, or need their own pages; a new page
holds 0 or a word that is no block's address.
`buffer` has 5 slots and `serial` 3 (one of them never used; the proofs cover every size);
`MaxBytes` is 6, enough to fill the register and the buffer, be refused, and go
round the array.  `console` has a screen of 2 rows and 4 columns, so that the prompt,
two characters and a wrap fit a row, a message of three characters wraps and scrolls,
and four keys (backspace, tab, line feed, letter, shift down and up, one code behind the
table) or reports of one character come at any point of it; the memory below the screen is blank or not.
`interrupts` has the timer, the keyboard and lines 8 and 12, page faults, NMIs and
software interrupts, three handlers deep: an IRQ, an exception in it and an NMI in that.
No mask is set by the firmware: the model puts none in the way.  `keyboard` sends up to
four keys, more than the set-up has places to swallow them at, starting from an empty or
a full output buffer.  `printk` has every directive, alone and in pairs, literal and cut
short, and tabs, with ten values at the limits of 8, 16, 32 and 64 bits.  `MaxStack`, `MaxPages`,
`MaxLive`, `MaxBytes`, `MaxKeys`, `MaxEvents`, `MaxDepth` and the keyboard's `Fifo` are the only guards
the code does not have.

Deadlock is checked for `buffer` and `printk`, elsewhere not: `kmain` ends in a `hlt` loop, `halted` and "crashed"
end the run, and the bounds exhaust the calls.

*Specifications.*  `PagingSpec` lets `kmain` do anything.  `CarefulPagingSpec`
keeps to the runs in which no page is handed out twice, the last frame is not
taken and page 0 is not freed; outside them the code's own list is already broken
(section 2), so nothing could be said of frames.

*Fairness.*  `BootSpec`: one thread with interrupts off goes on.  `PagingSpec`: a store whose translation exists retires, a fault is
handled, `PT_init` goes on: one thread, nothing to wait for.  `SerialSpec`: the
UART transmits, a latched request is delivered while interrupts are on, the
handler runs.  Nothing makes the kernel print another character, so
`EveryByteSent` holds without help from later writers.  It is stated up to the
first receive error: an error that arrives together with the empty-register
condition keeps the line high while the handler serves only one of them, no new
edge comes, and the buffer rests until someone prints.  The comment at
serial.c:122 ("missed interrupt") shows that the code expects it.
`InterruptsSpec`: at each depth, handlers that are interrupted again and again still go
on (strong fairness: a fault or an NMI comes back, but not before every instruction), and
a request is accepted at an instruction boundary with interrupts on, before anything
else.  `KeyboardServed` says that this serves the keyboard whatever else is requested; it
has the highest priority of the lines `kmain` leaves unmasked.  `KeyboardSpec`: the
controller obeys and answers, the keyboard sends what waits, code that need not wait goes
on; nobody has to press a key.

## 4. Disagreements between the code and what it says

Run `serial_holes` states what a comment says and TLC refutes it: with the register empty and
the buffer not, `SER_write_c` sends a buffered character, drops the new one and answers 1; a
string loses a character in its middle (serial.c:130, "Rather short data than holes in it").

Other disagreements are the exceptions that properties make, each of them exact: the
property says that nothing else goes wrong.

* `ParsingEnds`: `ok_address` compares with `<=` (memory_manager.c:77, under a comment
  that says "excluding end"), so the page at the end of a reserved span that ends with a
  page is refused, and `find_free_page` calls itself with it again, for ever.
* `HandedOutOnce`: the stack indices start at 512, which a 9-bit field cuts to 0, and are
  never negative, being unsigned: the stack pages are those of the heap's first table
  (main.c:49, "how stack addresses differ from heap"), and both are handed out once
  that table is used up between them.
* `FreedPageFaults`: without `invlpg` (page_table.c:266) a store to a freed page goes through
  while the processor holds its translation, and by nothing else (main.c:90, "Freed alloc,
  expecting PF at write").  The frame may be another page's by then.
* `StoreCompletes`, `InUseUsable`: once the list is broken, up to the moment the kernel does not
  come back or a page table is written (`halted`, section 2).
* `FreeListsApart`, `HeadersKept`, `LivePagesKept`, `ImplementsHeap`, `BlockReturned`,
  `WalksEnd`: until a page is cut up whose last block's word is not 0.  The word is the one
  its frame held (allocator.c:53); a frame that was part of the heap before makes the free
  list run into itself or into another's blocks, and `traverse` need not end (allocator.c:66,
  "This node will be pointing to nullptr").
* `BlockReturned`: a block freed while its pool has no free block is linked at address 0
  and lost (allocator.c:21).
* `ServiceEnded`: the end of interrupt is not sent to PIC2 for line 8 (interrupts.c:100,
  `irq > 8`), after which nothing on PIC2 is accepted any more.
* `AnswersMatch`: the output buffer is not emptied before the configuration is asked for
  (ps2.c:98); a key pressed before is taken for it and written back.
* `NoIdleWait`: a request that outlived its byte makes the handler wait, with interrupts
  off, until the next key.
* `BlankBehind`, `ImplementsTerminal`: `scroll` leaves the last row as it is (vga_api.c:163), so
  a line that fills it is there twice.  The next character replaces the second; a line feed
  leaves both on the screen for good (vga_api.c:85, "Scroll the console one line up").
* `PromptBack`: a key or a report between the characters of a message may put its characters before
  or into the prompt that follows.
* `BuffersHold`: the buffers of `_printk` lack the byte for the terminator, except that of
  `%ld`; those of `%u`, `%x`, `%p` and `%lx` hold 32 bits although a long is
  taken.
* `ReadsInside`: a format that ends within a directive is read beyond its terminator.
* `PrintsFormat`: `%u` and its relatives print values of 2^63 and more with a sign;
  `%h` before another letter prints an x in its place (vga_api.c:292).

Noticed and not given a run, because a property would only restate the line:
`MEM_pf_free` does not clear the frame it appends although memory_manager.c:23
says that the tail holds 0 (when that frame is allocated, `page_head` becomes client
data); `kmalloc_big` takes one page more than `kfree_big` frees (allocator.c:31,
"the pages are also freed in the MMU");
`size + KMALLOC_HEADER_SIZE` wraps for sizes near 2^32 (allocator.c:102);
`kfree` of an allocation of 0 bytes returns nothing (allocator.c:174);
`SER_write_c` answers 1 for the dropped character (serial.c:104 says otherwise);
`VGA_erase` clears a cell even when the cursor does not move, and below the screen when
the row is there (vga_api.c:112); F11 and F12 index `pressed_keys` behind its end
(console.c:38); `IRQ_get_full_mask` reads PIC1 twice (interrupts.c:91); no code clears the
mask of IRQ 1, so the keyboard works only where the firmware left it clear.

## 5. What is proved

Every theorem is for all values of the constants that their assumptions allow; what it
needs beyond that is a named hypothesis of the theorem.

*`PagingProofs`*, for every finite set of frames, boot order, table size and client, with
`CountMod` larger than the number of frames (`CountModAssumption`: 2^32 frames of
4 KB do not exist).  About `FrameList`:

* `FramesTyped`, `ListWellLinked`, `CountIsExact`, `ClientDataIsKept`: the three
  invariants and the action property of run `frame_list`;
* `ListImplementsPool`: the list implements the FIFO pool while `intact`.

The inductive invariant is `FrameTypeOK /\ WellLinked`.  `CountExact` alone is not
inductive: that the next head is a free frame depends on the link in the present
head, hence on the whole chain, on no frame being on it twice (a store through
`page_tail` would otherwise change an inner link) and on held frames being off it
(a client's store would).  `DistinctBound` bounds the chain by the number of
frames, so the 32-bit counter does not wrap; `DistinctCount` turns a repetition-free
list of a set into its cardinality.

About `PageTable`:

* `PagingTyped` and `PagesUsable` (a page handed out and not freed is present or
  allocatable and never both, and no other page is), also after the free list has been
  broken, up to the first store into a page table, where the model stops;
* `ListIsKept` and `EveryFrameAccounted`, if `kmain` stores only to pages it has not freed
  (`~DanglingStores`; a store to a freed page by a translation still held can reach
  the frame's next owner, and run `paging`, which checks the two properties, makes none).
  The invariant `OwnedInv` is an account of the frames: those held are the tables' and
  those of the present entries, no two of which name the same; an absent entry names
  none; and a translation of a page in use says what its entry says;
* `FreedPagesFault`: no entry of a freed page is present, so only a translation lets a
  store through;
* `PagesConsecutive`: `OrderInv` says that the heap's pages are those from the first up to
  where its indices stand; that `RaisedBy`, the indices raised n times, stands n pages
  further across every carry is an induction over n;
* `PagesHandedOutOnce`: `OnceInv` adds that the stack's pages go down from the end of the
  first table, until they have filled it; counting does the rest.

*`BootProofs`*, for every page size, section table and memory map that end before the last
page.  `BootInv` holds in every state (`BootIsKept`): the tables stay in their bounds, every
section parsed lies in the spans (or one was dropped), linked pages meet no span, and the
search has left no free page of its entry behind.  From it `SectionsStay` and
`NoFreePageForgotten`.  `ListIsReady` needs more (`Chained`: each page linked comes from an
entry, none behind the one just linked, the links thread them once each, and the tail is the
last) and a hypothesis, `OrderlyMaps`: the usable entries of a map do not overlap.  A page
of two entries would be on the list twice; the maps of run `boot_memory` satisfy it.

*`KmallocProofs`*, for all block sizes, pages and numbers of allocations, under
`KmallocAssumption`: blocks divide a page, are smaller than one and are multiples of
the smallest, which is larger than the header (64, 512, 2048 and 12 in the code).  The six
theorems are `ListsStayApart`, `HeadersStay`, `LivePagesStay`, `CleanWalksComeBack`, the refinement
`KmallocIsHeap` and the action property `FreedBlocksReturn`.  All have the hypothesis `IntSizes`:
a size stays an `int` after the header is added.  Nothing is assumed of new pages: a page may
hold any word (`FreshWords`), and the properties themselves say up to when they hold, which is
until the last block of a page that is cut up holds another word than 0 (`clean`).  Beyond
that the code breaks them.  The inductive invariant says that there is a layout: each page
of the heap is cut up for one pool or handed out whole; a pool's free blocks are a set that its head
and links do not leave, and no two links in it are the same; the blocks lost at address 0
are another; the live allocations are in neither, with their headers and pages.
The lemmas about chains say that a walk of such a list ends and what removing the head,
appending at the end (`traverse`) and cutting up a new page do to it.

*`BufferProofs`*, for every `BUFFER_SIZE` from 2 to 256: `BufferTyped`,
`BufferIsFifo` (refinement of `BoundedFifo` with the contents read off the ring as
the abstract queue) and `QueriesAreExact`.  The invariant is the types: both
indices inside the array.  The arithmetic is in the lemmas about `Used` and
`Contents`, one for each operation.

*`InterruptsProofs`*, for every set of lines, firmware masks, exceptions and depth:

* `TypeCorrect`: the types, among them that the labels and the handlers stay in range;
* `HandlersRunAlone`: only the outermost handler can be that of an IRQ.  The inductive
  invariant adds that interrupts are off whenever a handler is in progress (`sti` gets
  what `cli` answered, and that is the flag the gate cleared);
* `AllReturnHome`: while not tangled, every handler runs the C code of its own vector and
  returns.  `ReturnsHome` speaks of the code taken and not of the labels, so it is not
  inductive; the invariant (`Homeward`) says that each handler in progress has a whole frame and
  runs its own vector; that every one but the last is before its first store, or in C or
  popping; that in C or popping the stored pop label drops what its frame needs, and so
  does every handler above it; and that the labels are the last one's own from its second
  store on;
* `EndedByItsHandler`: what is in service is line 8 alone, or the line of the outermost
  handler before its end (`InService`, together with `Homeward`), since only the handler
  of a line sends an end of interrupt and it comes to the line with the highest priority.

*`OutputProofs`*, about what is printed.  About `Serial`, for every buffer size from 2 to 256, every number of bytes and every
interleaving of writers, handler and UART:

* `SerialTyped`: the types;
* `NoOverwrite`: a byte in the transmit register leaves it only by being transmitted.  It
  needs no invariant: whoever writes the register sees it empty in the same step;
* `InOrder`: wire, register and ring together are what was stored, in order.  The
  inductive invariant is `SerialTypeOK /\ BytesInOrder`.  What the ring does is not
  proved again: `OutputProofs` instantiates `BufferProofs` with the register as the
  consumer's byte, and its lemmas say what each operation does to `Contents`.  The rest
  is one lemma about sequences for each way a byte can move.

About `Printk`, for all formats (any sequences of parts, the last one cut short or not) and all
64-bit arguments; the assumption says no more than what a part is:

* `PrintkBuffersHold`: `BuffersHold`.  The invariant is only that arguments are words; the work
  is in `to_string`.  `DivideNum` says that the long division over the limbs is a division of
  the number the word stands for (`Num`), so the quotients get smaller, the recursion of
  `Digits` is one (`DigitsIs`), and a number below the k-th power of the base gives at most k
  digits (`DigitCount`).  `NegateNum` says that a word and its complement add up to 2^64.
  `LongestTexts`, `IntTexts`, `NumberTexts` and `ExtendedIs` give the lengths of the types,
  and `TextsFit` compares them with each of the fourteen buffers;
* `NumeralStands` (a lemma): for every word and base, what `to_string` writes is a numeral
  without leading zeros, with a sign exactly when the word is negative in base 10, that is
  worth the word.  Appending a digit undoes a division (`DivisionUndone`), and reading the text
  from its front undoes `Digits` (`DigitsValue`);
* `PrintkReadsInside` and `PrintkPrintsFormat`.  Neither property is inductive: both are about
  the end of a walk.  The inductive invariant (`PrintkWalks`) says of a walk that has made p
  rounds that it stands where part p + 1 begins in the spelling, that the arguments taken are
  those of the directives before it, that each round handed on what its part stands for
  (`Round`), and that `c_count` counts the characters so far.  Where parts begin in a spelling
  is `LayoutExists`, that what a round sees and takes is its part is `PlainRound`,
  `NumberRound`, `TextRound` and `LiteralRound`, and that only a part that is cut short takes
  the walk further is `CutRound`.  `RoundStands` and `NumeralStands` lead from there to
  `PrintsFormat`.

*`ConsoleProofs`*, about the console's two halves:

* `ScreenBlankBehind`: `BlankBehind`, for every screen of more than two columns and more than
  one row and every set of messages.  The screens that are blank behind the cursor are closed
  under `VGA_display_char` and `VGA_erase`; that they are closed under `VGA_display_str`
  and a tab is an induction over the fold (`FoldExists`, `FoldInside`);
* `MessagesKeptApart`, on the same screens, under `PlainTexts`: the welcome, the messages
  of kmain and the bytes behind the key table do not have the prompt's first character (no
  string of the code but the prompt has it, nor any key of the table; reports may).  Without
  it the property fails: a `>` typed on an empty line is no prompt yet when
  `is_prompt` asks, and a message that starts with a space makes it one.  The invariant
  `PrintInv` says what a call has left: text, then the prompt if it found one, of which a
  key may have come after the first character; that a `>` alone stands before the cursor
  only then; and, as long as the call was not disturbed, that the line is no prompt, or
  that the text starts with a line feed, or how much of the new prompt is there.  The
  lemmas behind it say which characters turn a screen's line into a prompt (`DisplayPlain`,
  `PromptOpens`, `PromptCloses`) and that a key (`KeyShut`) or a report (`ReportShut`)
  leaves no half of one;
* `PromptComesBack`, for all texts and keys: what an undisturbed printkln that found a
  prompt has left ends in a line feed and the prompt, or is the prompt at the start of a
  line, or its second character behind the first (`BackInv`);
* `ScreenIsTerminal`: the refinement `ImplementsTerminal`, on the same screens, under
  `Printable`: no text has a character that stands for an unwritten cell (`Blank`), the end
  of a string or the erase key, no report has a tab, and no byte behind the key table is
  `Blank` (0x0000 is never written in a cell, so these only keep the model's marks apart from
  characters; run `console` has TLC evaluate it on its constants).  The inductive invariant
  (`LinesInv`) says that the screen is `Legible`: blank behind the cursor, no blank before it, and,
  when the cursor stands at the start of the last row, that row empty or full to its last
  column (the copy `scroll` leaves, whose first character the erase key may have blanked).  That
  the copy is that of the line above is not needed: the open line of the text is the
  copy, too, and the invariant says that screen and text agree.  What a step does to the lines is one of
  four things: the open line replaced, closed with a new one below, the same with the top
  line lost, the top line lost alone (`Replaced`, `Fresh`, `Scrolled`, `Dropped`); `RoomLines`,
  `FeedLines`, `WrittenLines` and `EraseLines` say which one each function of vga_api.c does.  The
  screen `Shows` the end of a text, at least `MAX_ROW` lines of it or all, and each of the
  four keeps that when the text is fed the same character (`ShowsReplaced` and its like).
  A tab, a report and the prompt of a typed line feed are several characters in one step:
  two folds, of the screen and of the text, side by side (`FoldRuns`, `ShownAlong`);
* `NeverWaitsIdly` and `AnswersAreReplies`, for any number of keys and any length of the
  keyboard's buffer.  The first rests on `RequestInv` (a request outlives its byte only if
  `stray` says so), the second on where set-up and controller can be while nobody was early
  (`Progress`): after each of the first seven operations, what was taken so far, what is
  in the buffers, and what is still to be answered.

*Only model-checked:* liveness (`ParsingEnds`, `StoreCompletes`, `EveryByteSent`,
`KeyboardServed`, `SetUpEnds`, `EveryKeyRead`): fairness and ENABLED are outside the
prover. Every invariant, action property and refinement of a passing run is stated by a
theorem. The library's induction theorems take an operator, which the provers cannot
instantiate; where a proof needs induction it uses a set of numbers instead
(`NaturalInduction`), and `RecursionExists`, `RangeRecursion`, `MeasuredRecursion` and
`IterationExists` of `CommonLemmas` for the functions a recursion defines.

## 6. Not modelled, and the plan

Every component with behaviour of its own has a module.  What could follow is the
composition of `Console` and `Serial`: that screen and wire show the same messages
(`PrintsFormat` shows that they are given the same calls).

Two hazards have no property, because the code promises nothing there: several grants
of pages that together exceed the frames left (page_table.c:241), and links stored in pages the
parser still reads (multiboot_parser.c:87).

Left out for good: descriptors of GDT and TSS, entry code and linker script (straight-line
set-up of constants), string loops of lib.c, functions without a caller
(`poll_keyboard`, `slow_print`, `IRQ_get_mask`, `PRE_traverse`), the Python generators and the
Makefile (build time).
