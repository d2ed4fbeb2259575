----------------------------- MODULE BoundedFifo -----------------------------
(***************************************************************************)
(* What struct Buffer promises its clients: a queue of at most Capacity    *)
(* bytes, emptied in the order in which it was filled, that ignores a byte *)
(* offered while it is full.                                               *)
(***************************************************************************)
EXTENDS Naturals, Sequences

CONSTANTS Capacity, Bytes, NoByte

VARIABLES
    queue,      \* the bytes waiting, oldest first
    taken       \* the byte last taken out

fifoVars == <<queue, taken>>

FifoInit == queue = <<>> /\ taken = NoByte

Put(b) ==
    /\ queue' = IF Len(queue) < Capacity THEN Append(queue, b) ELSE queue
    /\ UNCHANGED taken

Take ==
    /\ queue # <<>>
    /\ taken' = Head(queue)
    /\ queue' = Tail(queue)

Clear == queue' = <<>> /\ UNCHANGED taken

(* Clear is apart: only a client that empties the queue may lose bytes.    *)
FifoNext == Take \/ \E b \in Bytes : Put(b)
=============================================================================
