-------------------------------- MODULE Buffer --------------------------------
(***************************************************************************)
(* The ring buffer of buffer.c.  One slot stays unused, so that equal      *)
(* indices mean an empty buffer.  Its only user, serial.c, calls every     *)
(* operation with interrupts off, so that each is one step.                *)
(***************************************************************************)
EXTENDS Integers, Sequences

CONSTANTS
    BUFFER_SIZE,    \* 33 in buffer.h
    Bytes,
    NoByte          \* what the array holds before anything is stored

(* 256 is as far as the uint8_t results of the two queries go.             *)
ASSUME BufferAssumption ==
    /\ BUFFER_SIZE \in 2..256
    /\ NoByte \notin Bytes

VARIABLES
    buff,
    prod_index,     \* where the next byte is stored
    cons_index,     \* where the next byte is taken from
    out             \* the byte consume_func was last called with

bufferVars == <<buff, prod_index, cons_index, out>>

Slots == 0..(BUFFER_SIZE - 1)

BufferInit ==
    /\ buff = [i \in Slots |-> NoByte]
    /\ prod_index = 0
    /\ cons_index = 0
    /\ out = NoByte
-----------------------------------------------------------------------------
BUF_init ==
    /\ prod_index' = 0
    /\ cons_index' = 0
    /\ UNCHANGED <<buff, out>>

(* An index incremented and, at the end of the array, set back to 0.       *)
Advance(i) == IF i + 1 >= BUFFER_SIZE THEN 0 ELSE i + 1

BUF_consume ==
    /\ prod_index # cons_index
    /\ out' = buff[cons_index]
    /\ cons_index' = Advance(cons_index)
    /\ UNCHANGED <<buff, prod_index>>

FullUnlessWrapped ==    \* a faulty variant: full only behind the consumer
    prod_index = cons_index - 1

Full ==
    \/ prod_index = cons_index - 1
    \/ prod_index = BUFFER_SIZE - 1 /\ cons_index = 0

BUF_produce(byte) ==
    /\ ~Full
    /\ buff' = [buff EXCEPT ![prod_index] = byte]
    /\ prod_index' = Advance(prod_index)
    /\ UNCHANGED <<cons_index, out>>

(* uint8_t BUF_consumeable, uint8_t BUF_produceable                        *)
BUF_consumeable ==
    IF prod_index >= cons_index THEN (prod_index - cons_index) % 256
    ELSE (BUFFER_SIZE - (cons_index - prod_index)) % 256

BUF_produceable ==
    IF prod_index = cons_index THEN (BUFFER_SIZE - 1) % 256
    ELSE (BUFFER_SIZE - BUF_consumeable - 1) % 256

BufferNext ==
    \/ BUF_init
    \/ BUF_consume
    \/ \E byte \in Bytes : BUF_produce(byte)

BufferSpec == BufferInit /\ [][BufferNext]_bufferVars
-----------------------------------------------------------------------------
BufferTypeOK ==
    /\ buff \in [Slots -> Bytes \cup {NoByte}]
    /\ prod_index \in Slots
    /\ cons_index \in Slots
    /\ out \in Bytes \cup {NoByte}

(* The bytes waiting: the slots from cons_index up to prod_index, round    *)
(* the end of the array.                                                   *)
Used ==
    IF prod_index >= cons_index THEN prod_index - cons_index
    ELSE BUFFER_SIZE - (cons_index - prod_index)

Slot(i) ==
    IF cons_index + i - 1 < BUFFER_SIZE THEN cons_index + i - 1
    ELSE cons_index + i - 1 - BUFFER_SIZE

Contents == [i \in 1..Used |-> buff[Slot(i)]]

(* The ring implements a first-in first-out queue of BUFFER_SIZE - 1       *)
(* bytes: however the indices run round the array, no byte is handed to    *)
(* consume_func twice, out of order, or lost, other than by BUF_init.      *)
Fifo == INSTANCE BoundedFifo
            WITH Capacity <- BUFFER_SIZE - 1, queue <- Contents, taken <- out

ImplementsFifo ==
    /\ Fifo!FifoInit
    /\ [][IF BUF_init THEN Fifo!Clear
          ELSE [Fifo!FifoNext]_(Fifo!fifoVars)]_bufferVars

(* What the two queries answer is what the operations then do: serial.c    *)
(* decides by them, and a wrong answer makes it call BUF_consume on an     *)
(* empty buffer or BUF_produce on a full one, which ignore the call.       *)
QueriesExact ==
    /\ BUF_consumeable = Len(Contents)
    /\ BUF_produceable = BUFFER_SIZE - 1 - Len(Contents)
    /\ BUF_consumeable > 0 <=> prod_index # cons_index
    /\ BUF_produceable > 0 <=> ~Full
=============================================================================
