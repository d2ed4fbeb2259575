-------------------------------- MODULE Serial --------------------------------
(***************************************************************************)
(* serial.c: characters printed by the kernel go to the UART's transmit    *)
(* holding register (THR) when it is empty, and wait in serial_buffer when *)
(* it is not; an interrupt says that the register is empty again.          *)
(*                                                                         *)
(* Three actors run concurrently: the code that prints (kmain, and the     *)
(* handlers of other interrupts: SER_write_c runs between cli and sti, so  *)
(* the callers interleave character by character), the handler of IRQ 4    *)
(* (not interruptible, but the UART goes on under it), and the UART with   *)
(* the interrupt controller, which are hardware.                           *)
(*                                                                         *)
(* The n-th call of SER_write_c passes the byte n, so that bytes lost,     *)
(* repeated or out of order can be told.                                   *)
(***************************************************************************)
EXTENDS Integers, Sequences

CONSTANTS
    BUFFER_SIZE,        \* 33 in buffer.h
    MaxBytes,           \* bound: calls of SER_write_c
    MaxString           \* bound: the longest argument of SER_write_str

ASSUME SerialAssumption ==
    /\ BUFFER_SIZE \in 2..256
    /\ {MaxBytes, MaxString} \subseteq Nat

NoByte == 0
Bytes == 1..MaxBytes

VARIABLES
    buff, prod_index, cons_index,   \* serial_buffer
    phase,      \* "boot" until SER_init, then "init" until sti(1), "running";
                \* "crashed" when serial_buffer.consume_func is called as NULL
    given,      \* calls of SER_write_c so far
    ret,        \* what the last one returned
    left,       \* characters SER_write_str has still to write, 0 outside it
    thr,        \* the UART's transmit holding register
    threPending, lsiPending,        \* interrupt conditions the UART has latched
    irr,        \* IRQ 4 requested at the interrupt controller
    handler,    \* the next step of SER_interrupt: "iir", "lsr", "trigger",
                \* "eoi"; "none" outside it
    wire,       \* history: bytes that have left the UART
    stored,     \* history: bytes put in the THR or the buffer, and not thrown
                \* away by SER_init
    string,     \* history: bytes passed by the last call of SER_write_str
    noisy       \* history: the line has had a receive error (overrun, break)

ring == <<buff, prod_index, cons_index>>
uart == <<thr, threPending, lsiPending, irr, wire, noisy>>
writer == <<given, ret, left, string, stored>>
vars == <<ring, uart, writer, phase, handler>>

INSTANCE Buffer WITH out <- thr

SerialInit ==
    /\ BufferInit
    /\ phase = "boot"
    /\ given = 0 /\ ret = 1 /\ left = 0
    /\ threPending = FALSE /\ lsiPending = FALSE /\ irr = FALSE
    /\ handler = "none"
    /\ wire = <<>> /\ stored = <<>> /\ string = {} /\ noisy = FALSE
-----------------------------------------------------------------------------
(* The hardware.                                                           *)
Enabled(p) == p \in {"init", "running"}     \* IER, written by SER_init

Level(the, lsi, p) == Enabled(p) /\ (the \/ lsi)

(* The controller is edge-triggered: a request is latched when the UART's  *)
(* line rises, not while it stays high.                                    *)
Edge ==
    irr' = (irr \/ ( /\ ~Level(threPending, lsiPending, phase)
                     /\ Level(threPending', lsiPending', phase')))

Transmit ==
    /\ thr # NoByte
    /\ thr' = NoByte
    /\ wire' = Append(wire, thr)
    /\ threPending' = Enabled(phase)
    /\ UNCHANGED <<ring, writer, lsiPending, phase, handler, noisy>>
    /\ Edge

LineError ==
    /\ Enabled(phase) /\ ~lsiPending
    /\ lsiPending' = TRUE /\ noisy' = TRUE
    /\ UNCHANGED <<ring, writer, thr, threPending, wire, phase, handler>>
    /\ Edge

is_thr_empty == thr = NoByte
-----------------------------------------------------------------------------
(* BUF_consume(&serial_buffer), whose consume_func write_to_serial fills   *)
(* the THR, which withdraws the UART's request; before SER_init the        *)
(* function pointer is NULL.                                               *)
Consume ==
    IF phase = "boot"
    THEN /\ phase' = "crashed"
         /\ UNCHANGED <<ring, thr, threPending>>
    ELSE /\ BUF_consume
         /\ threPending' = FALSE
         /\ UNCHANGED phase

(* A faulty variant of SER_write_c: the THR written without looking at the *)
(* buffer.                                                                 *)
WriteAhead(c) ==
    \/ /\ is_thr_empty
       /\ thr' = c /\ threPending' = FALSE
       /\ stored' = Append(stored, c) /\ ret' = 1
       /\ UNCHANGED <<ring, phase>>
    \/ /\ ~is_thr_empty /\ BUF_produceable > 0
       /\ BUF_produce(c)
       /\ stored' = Append(stored, c) /\ ret' = 1
       /\ UNCHANGED <<threPending, phase>>

(* int SER_write_c(char c), its four branches: straight to the THR; a byte *)
(* from the buffer to the THR instead; to the buffer; refused.             *)
SER_write_c(c) ==
    \/ /\ BUF_consumeable = 0 /\ is_thr_empty
       /\ thr' = c /\ threPending' = FALSE
       /\ stored' = Append(stored, c) /\ ret' = 1
       /\ UNCHANGED <<ring, phase>>
    \/ /\ BUF_consumeable > 0 /\ is_thr_empty
       /\ Consume
       /\ ret' = 1
       /\ UNCHANGED stored
    \/ /\ ~is_thr_empty /\ BUF_produceable > 0
       /\ BUF_produce(c)
       /\ stored' = Append(stored, c) /\ ret' = 1
       /\ UNCHANGED <<threPending, phase>>
    \/ /\ ~is_thr_empty /\ BUF_produceable = 0
       /\ ret' = 0
       /\ UNCHANGED <<ring, thr, threPending, stored, phase>>

Call ==
    /\ given < MaxBytes
    /\ given' = given + 1
    /\ SER_write_c(given + 1)
    /\ UNCHANGED <<lsiPending, wire, handler, noisy>>
    /\ Edge

(* A character printed by _printk or printkln, which drop the answer.      *)
PrintChar ==
    /\ handler = "none" /\ left = 0
    /\ Call
    /\ UNCHANGED <<left, string>>

(* int SER_write_str(const char* str): up to the first refusal.            *)
BeginString(length) ==
    /\ handler = "none" /\ left = 0 /\ given + length <= MaxBytes
    /\ left' = length /\ string' = {}
    /\ UNCHANGED <<ring, uart, given, ret, stored, phase, handler>>

SER_write_str ==
    /\ handler = "none" /\ left > 0
    /\ Call
    /\ string' = string \cup {given'}
    /\ left' = IF ret' = 1 THEN left - 1 ELSE 0

(* SER_init: an empty buffer, whatever it held, and the UART's interrupts. *)
SER_init ==
    /\ phase = "boot" /\ left = 0
    /\ BUF_init
    /\ phase' = "init"
    /\ threPending' = is_thr_empty
    /\ stored' = SubSeq(stored, 1, Len(stored) - Used)
    /\ UNCHANGED <<lsiPending, wire, given, ret, left, string, handler, noisy>>
    /\ Edge

(* sti(1) in kmain.                                                        *)
TurnOnInterrupts ==
    /\ phase = "init" /\ left = 0
    /\ phase' = "running"
    /\ UNCHANGED <<ring, uart, writer, handler>>
-----------------------------------------------------------------------------
(* IRQ 4 is delivered between two instructions of the interrupted code.    *)
Deliver ==
    /\ phase = "running" /\ irr /\ handler = "none"
    /\ irr' = FALSE
    /\ handler' = "iir"
    /\ UNCHANGED <<ring, writer, thr, threPending, lsiPending, wire, phase, noisy>>

(* The first instruction of SER_interrupt: reading IIR tells the condition *)
(* of the highest priority and, when that is the empty THR, withdraws it.  *)
ReadIIR ==
    /\ handler = "iir"
    /\ handler' = IF lsiPending THEN "lsr"
                  ELSE IF threPending THEN "trigger" ELSE "eoi"
    /\ threPending' = (threPending /\ lsiPending)
    /\ UNCHANGED <<ring, writer, thr, lsiPending, wire, phase, noisy>>
    /\ Edge

read_lsr ==
    /\ handler = "lsr"
    /\ lsiPending' = FALSE
    /\ handler' = "eoi"
    /\ UNCHANGED <<ring, writer, thr, threPending, wire, phase, noisy>>
    /\ Edge

(* A faulty variant of trigger_write: the interrupt is taken for nothing.  *)
TriggerNothing ==
    /\ handler = "trigger"
    /\ handler' = "eoi"
    /\ UNCHANGED <<ring, uart, writer, phase>>

trigger_write ==
    /\ handler = "trigger"
    /\ IF is_thr_empty /\ BUF_consumeable > 0
       THEN Consume ELSE UNCHANGED <<ring, thr, threPending, phase>>
    /\ handler' = "eoi"
    /\ UNCHANGED <<writer, lsiPending, wire, noisy>>
    /\ Edge

IRQ_end_of_interrupt ==
    /\ handler = "eoi"
    /\ handler' = "none"
    /\ UNCHANGED <<ring, uart, writer, phase>>

SER_interrupt == ReadIIR \/ read_lsr \/ trigger_write \/ IRQ_end_of_interrupt
-----------------------------------------------------------------------------
SerialNext ==
    /\ phase # "crashed"
    /\ \/ Transmit
       \/ LineError
       \/ PrintChar
       \/ \E length \in 1..MaxString : BeginString(length)
       \/ SER_write_str
       \/ SER_init
       \/ TurnOnInterrupts
       \/ Deliver
       \/ SER_interrupt

(* The hardware and the handler make progress; nothing makes the kernel    *)
(* print.                                                                  *)
Fairness ==
    /\ WF_vars(phase # "crashed" /\ Transmit)
    /\ WF_vars(phase # "crashed" /\ Deliver)
    /\ WF_vars(phase # "crashed" /\ SER_interrupt)

SerialSpec == SerialInit /\ [][SerialNext]_vars /\ Fairness
-----------------------------------------------------------------------------
SerialTypeOK ==
    /\ BufferTypeOK
    /\ phase \in {"boot", "init", "running", "crashed"}
    /\ given \in 0..MaxBytes /\ ret \in {0, 1} /\ left \in 0..MaxString
    /\ {threPending, lsiPending, irr} \subseteq BOOLEAN
    /\ handler \in {"none", "iir", "lsr", "trigger", "eoi"}
    /\ wire \in Seq(Bytes) /\ stored \in Seq(Bytes) /\ string \subseteq Bytes
    /\ noisy \in BOOLEAN

Held(b) == IF b = NoByte THEN <<>> ELSE <<b>>
Elements(s) == {s[i] : i \in 1..Len(s)}

(* What was stored is, in that order, what is on the wire, in the THR and  *)
(* in the buffer: whatever way the writers, the interrupt handler and the  *)
(* UART interleave, no stored byte is lost, repeated or overtaken.         *)
BytesInOrder == wire \o Held(thr) \o Contents = stored

(* A byte in the THR is never overwritten before it is transmitted.        *)
ThrNotOverwritten == [][thr # NoByte => thr' \in {thr, NoByte}]_vars

(* As long as the line has no errors, every byte accepted reaches the      *)
(* wire, however the interrupt races the writers: no wakeup is missed for  *)
(* good.                                                                   *)
EveryByteSent ==
    \A b \in Bytes :
        phase = "running" /\ b \in Elements(stored)
            ~> b \in Elements(wire) \/ noisy

(* serial.c:108, "end the message early than supply it with missing        *)
(* bytes", and 130, "Rather short data than holes in it": the characters   *)
(* of a string that are kept are its first ones.                           *)
NoHoles ==
    \A b \in string : b \in Elements(stored) =>
        \A a \in string : a < b => a \in Elements(stored)
=============================================================================
