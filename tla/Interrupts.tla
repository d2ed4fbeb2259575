------------------------------ MODULE Interrupts ------------------------------
(***************************************************************************)
(* How interrupts and exceptions are entered, handled and left:            *)
(* interrupts.c, the entry stubs of interrupt_init.asm, the stacks that    *)
(* setup_idt and gdt.c assign, cli and sti of lib.c, and the two interrupt *)
(* controllers (hardware).                                                 *)
(*                                                                         *)
(* Every stub stores the labels it wants to come back to in one shared     *)
(* pair, curr_isr, and jumps through it after the registers are pushed     *)
(* and again after they are popped.  Gates turn interrupts off, so an IRQ  *)
(* waits for the handler to end; an exception or an NMI does not, and its  *)
(* stub stores its own labels over those of the stub it interrupts.        *)
(***************************************************************************)
EXTENDS Integers, Sequences, FiniteSets

CONSTANTS
    Lines,          \* interrupt lines of devices: 0-7 but 2 on PIC1, 8-15 on PIC2
    FirmwareMasks,  \* what the controllers' masks may be at boot
    Faults,         \* exceptions that C code may raise
    MaxDepth        \* bound: handlers running at a time

ASSUME InterruptsAssumption ==
    /\ Lines \subseteq (0..15) \ {2} /\ {0, 1} \subseteq Lines
    /\ FirmwareMasks \subseteq SUBSET (Lines \cup {2})
    /\ Faults \subseteq 0..31
    /\ MaxDepth \in Nat \ {0}

Cascade == 2        \* the line of PIC1 that PIC2 is on
Vector(line) == 32 + line
NMI == 2

(* The stubs that drop an error code before they leave.                    *)
PopsErrorCode(v) == v \in {8, 10, 11, 12, 13, 14, 17}

(* ist and tss: vectors with a stack of their own, used from its start.    *)
OwnStack(v) == v \in {8, 13, 14}

VARIABLES
    imr, irr, inService,    \* the controllers: masked, requested, in service
    flag,                   \* the processor's interrupt flag
    calls,                  \* handlers entered and not left, the last one running
    after_push, after_pop,  \* curr_isr: the vector whose label is stored
    phase,                  \* kmain: "boot", "masked", "cleared", then "on"
    lost,                   \* left through a frame that is not there
    tangled                 \* history: see Survivable

pic == <<imr, irr, inService>>
slots == <<after_push, after_pop>>
vars == <<pic, flag, calls, slots, phase, lost, tangled>>

(* A handler entered: at its stub's first or second store, pushing, in C,  *)
(* about to send the end of interrupt, or popping.  runs is the vector     *)
(* whose label it took into C, error says whether the processor pushed an  *)
(* error code, whole whether its frame is still on its stack.              *)
Points == {"first", "second", "push", "c", "eoi", "pop"}
Running == calls[Len(calls)]
In(point) == calls # <<>> /\ Running.at = point
-----------------------------------------------------------------------------
(* The controllers.  Within one, the lower line goes first.                *)
Master(s) == {l \in s : l < 8}
Slave(s) == {l \in s : l >= 8}
First(s) == CHOOSE l \in s : \A k \in s : l <= k
WithoutFirst(s) == IF s = {} THEN {} ELSE s \ {First(s)}

Raise(line) ==
    /\ irr' = irr \cup {line}
    /\ UNCHANGED <<imr, inService, flag, calls, slots, phase, lost, tangled>>

(* The line a controller would pass on: requested, not masked, and ahead   *)
(* of everything in service on it.                                         *)
Ahead(s, served) ==
    {l \in s : /\ l \notin imr
               /\ \A k \in s \ imr : l <= k
               /\ \A k \in served : l < k}

Acceptable ==
    LET behind == Ahead(Slave(irr), Slave(inService))
        front  == Ahead(Master(irr) \cup (IF behind = {} THEN {} ELSE {Cascade}),
                        Master(inService))
    IN  IF Cascade \in front THEN behind ELSE front

IRQ_set_mask(irq_num) == imr' = imr \cup {irq_num}
IRQ_clear_mask(irq_num) == imr' = imr \ {irq_num}

(* Two faulty variants: PIC2 is never told, nobody is.                     *)
EndOnMasterOnly(irq) ==
    inService' = Slave(inService) \cup WithoutFirst(Master(inService))
EndForgotten(irq) == UNCHANGED inService

(* The end of interrupt is not specific: each controller takes it for the  *)
(* first line in service.  PIC2 is not told about line 8.                  *)
IRQ_end_of_interrupt(irq) ==
    inService' = WithoutFirst(Master(inService))
                 \cup IF irq > 8 THEN WithoutFirst(Slave(inService))
                      ELSE Slave(inService)
-----------------------------------------------------------------------------
(* Whether the handlers on the way can still return if v is entered now:   *)
(* one that has stored nothing yet stores over v's labels; one that is in  *)
(* C only needs a label that drops as much as its own; one in between goes *)
(* to v's handler.  And a stack of its own is used from its start again.   *)
Survivable(v) ==
    \A i \in 1..Len(calls) :
        /\ OwnStack(v) => calls[i].vector # v
        /\ \/ calls[i].at = "first"
           \/ /\ calls[i].at \in {"c", "eoi", "pop"}
              /\ PopsErrorCode(v) = calls[i].error

(* The processor enters v's stub through its gate.                         *)
Enter(v, error) ==
    /\ Len(calls) < MaxDepth
    /\ calls' = Append([i \in 1..Len(calls) |->
                            IF OwnStack(v) /\ calls[i].vector = v
                            THEN [calls[i] EXCEPT !.whole = FALSE] ELSE calls[i]],
                       [vector |-> v, error |-> error, flag |-> flag, at |-> "first",
                        runs |-> v, whole |-> TRUE])
    /\ flag' = FALSE
    /\ tangled' = (tangled \/ ~Survivable(v) \/ error # PopsErrorCode(v))
    /\ UNCHANGED <<slots, phase, lost>>

Accept ==
    /\ flag
    /\ \E line \in Acceptable :
        /\ irr' = irr \ {line}
        /\ inService' = inService \cup {line}
                        \cup (IF line >= 8 THEN {Cascade} ELSE {})
        /\ Enter(Vector(line), FALSE)
    /\ UNCHANGED imr

InC == IF calls = <<>> THEN phase = "on" ELSE Running.at = "c"

Fault(v) ==
    /\ InC
    /\ Enter(v, PopsErrorCode(v))
    /\ UNCHANGED pic

(* Between any two instructions, other than in the handler of an NMI.      *)
NonMaskable ==
    /\ \A i \in 1..Len(calls) : calls[i].vector # NMI
    /\ Enter(NMI, FALSE)
    /\ UNCHANGED pic

(* `int $13' in MEM_pf_alloc, which kmain and the page fault handler call, *)
(* `int $14' in the page allocators: no error code is pushed.              *)
SoftwareInterrupt ==
    /\ \/ calls = <<>> /\ phase = "on" /\ \E v \in {13, 14} : Enter(v, FALSE)
       \/ In("c") /\ Running.runs = 14 /\ Enter(13, FALSE)
    /\ UNCHANGED pic
-----------------------------------------------------------------------------
(* The stubs.                                                              *)
Goto(point) == calls' = [calls EXCEPT ![Len(calls)].at = point]

StoreAfterPush ==
    /\ In("first")
    /\ after_push' = Running.vector
    /\ Goto("second")
    /\ UNCHANGED <<pic, flag, after_pop, phase, lost, tangled>>

StorePushAgain ==   \* a faulty variant: the second label is not stored
    /\ In("second")
    /\ after_push' = Running.vector
    /\ Goto("push")
    /\ UNCHANGED <<pic, flag, after_pop, phase, lost, tangled>>

StoreAfterPop ==
    /\ In("second")
    /\ after_pop' = Running.vector
    /\ Goto("push")
    /\ UNCHANGED <<pic, flag, after_push, phase, lost, tangled>>

push_reg ==
    /\ In("push")
    /\ calls' = [calls EXCEPT ![Len(calls)] = [@ EXCEPT !.at = "c", !.runs = after_push]]
    /\ UNCHANGED <<pic, flag, slots, phase, lost, tangled>>

sti_always(c) == flag' = TRUE      \* a faulty variant

(* sti(c), with c what cli() answered.                                     *)
sti(c) == flag' = (c \/ flag)

(* generic_interrupt_handler.  The operations a handler calls do           *)
(* int_flag = cli(), ..., sti(int_flag), one pair or several nested; each  *)
(* pair gives sti the flag that its cli found, so one pair stands here for *)
(* all of them.                                                            *)
Handle ==
    /\ In("c")
    /\ LET int_flag == flag IN sti(int_flag)
    /\ Goto(IF Running.runs \in {Vector(l) : l \in 0..15} THEN "eoi" ELSE "pop")
    /\ UNCHANGED <<pic, slots, phase, lost, tangled>>

EndOfInterrupt ==
    /\ In("eoi")
    /\ IRQ_end_of_interrupt(Running.runs - Vector(0))
    /\ Goto("pop")
    /\ UNCHANGED <<imr, irr, flag, slots, phase, lost, tangled>>

(* Through after_pop to iretq, which needs the frame where it is looked    *)
(* for and restores the flag.                                              *)
pop_reg ==
    /\ In("pop")
    /\ IF Running.whole /\ PopsErrorCode(after_pop) = Running.error
       THEN /\ calls' = SubSeq(calls, 1, Len(calls) - 1)
            /\ flag' = Running.flag
            /\ UNCHANGED lost
       ELSE lost' = TRUE /\ UNCHANGED <<calls, flag>>
    /\ UNCHANGED <<pic, slots, phase, tangled>>

Stub == StoreAfterPush \/ StoreAfterPop \/ push_reg \/ pop_reg
-----------------------------------------------------------------------------
(* map_PIC keeps the masks of the firmware; kmain masks the timer, clears  *)
(* the mask of COM1 and turns interrupts on.                               *)
InterruptsInit ==
    /\ imr \in FirmwareMasks
    /\ irr = {} /\ inService = {}
    /\ flag = FALSE /\ calls = <<>>
    /\ after_push = 0 /\ after_pop = 0
    /\ phase = "boot"
    /\ lost = FALSE /\ tangled = FALSE

kmain ==
    /\ calls = <<>>
    /\ \/ phase = "boot" /\ IRQ_set_mask(0) /\ phase' = "masked" /\ UNCHANGED flag
       \/ phase = "masked" /\ IRQ_clear_mask(4) /\ phase' = "cleared" /\ UNCHANGED flag
       \/ phase = "cleared" /\ sti(TRUE) /\ phase' = "on" /\ UNCHANGED imr
    /\ UNCHANGED <<irr, inService, calls, slots, lost, tangled>>

InterruptsNext ==
    /\ ~lost
    /\ \/ \E line \in Lines : Raise(line)
       \/ Accept
       \/ \E v \in Faults : Fault(v)
       \/ NonMaskable
       \/ SoftwareInterrupt
       \/ Stub
       \/ Handle
       \/ EndOfInterrupt
       \/ kmain

(* Every handler gets on: faults and NMIs come back, but not before each   *)
(* of its instructions.  A request is accepted at the first instruction    *)
(* boundary with interrupts on, before anything else.                      *)
Fairness ==
    /\ \A depth \in 1..MaxDepth :
        SF_vars(~lost /\ Len(calls) = depth /\ (Stub \/ Handle \/ EndOfInterrupt))
    /\ SF_vars(~lost /\ Accept)

InterruptsSpec == InterruptsInit /\ [][InterruptsNext]_vars /\ Fairness
-----------------------------------------------------------------------------
Call == [vector : 0..47, error : BOOLEAN, flag : BOOLEAN, at : Points,
         runs : 0..47, whole : BOOLEAN]

InterruptsTypeOK ==
    /\ imr \subseteq Lines \cup {Cascade, 4} /\ irr \subseteq Lines
    /\ inService \subseteq Lines \cup {Cascade}
    /\ flag \in BOOLEAN
    /\ calls \in Seq(Call) /\ Len(calls) <= MaxDepth
    /\ after_push \in 0..47 /\ after_pop \in 0..47
    /\ phase \in {"boot", "masked", "cleared", "on"}
    /\ lost \in BOOLEAN /\ tangled \in BOOLEAN

(* Every entry reaches the C code of its own vector and returns to what it *)
(* interrupted, although the labels are shared, as long as no exception    *)
(* came at one of the moments Survivable rules out and none was raised by  *)
(* `int'.                                                                  *)
ReturnsHome ==
    ~tangled =>
        /\ ~lost
        /\ \A i \in 1..Len(calls) : calls[i].runs = calls[i].vector

(* No handler is interrupted by an IRQ: an IRQ's handler is always the     *)
(* outermost one.  The pair of cli and sti in a handler leaves the flag off*)
(* that the gate has cleared.                                              *)
HandlersAlone ==
    \A i \in 2..Len(calls) : calls[i].vector < Vector(0)

(* Every interrupt accepted is ended exactly once, by its own handler: a   *)
(* line is in service only while its handler has not come that far.  Line  *)
(* 8 alone stays in service, and with it everything on PIC2, for good      *)
(* (interrupts.c:100, `irq > 8').                                          *)
Serving(line) ==
    \E i \in 1..Len(calls) :
        /\ calls[i].vector = Vector(line)
        /\ calls[i].at # "pop"

ServiceEnded ==
    ~tangled =>
        \A l \in inService :
            \/ Serving(l)
            \/ l = Cascade /\ \E s \in Slave(Lines) : Serving(s)
            \/ l = 8

(* A request of the keyboard, the first line kmain leaves unmasked, is     *)
(* answered, however faults and other requests interleave.                 *)
KeyboardServed ==
    1 \in irr \ imr /\ phase = "on" ~> 1 \notin irr \/ tangled
=============================================================================
