--------------------------------- MODULE Heap ---------------------------------
(***************************************************************************)
(* What kmalloc and kfree promise: memory is handed out in pieces that do  *)
(* not overlap, each of them until it is given back.                       *)
(***************************************************************************)
EXTENDS Naturals

CONSTANT Sizes      \* the sizes asked for

VARIABLE live       \* the pieces handed out: records of an address and a size

Extent(r) == r.add..(r.add + r.size - 1)

Disjoint(r, s) == Extent(r) \cap Extent(s) = {} /\ r.add # s.add

HeapInit == live = {}

Malloc ==
    /\ \E r \in live' \ live :
        /\ live' = live \cup {r}
        /\ r.add > 0 /\ r.size \in Sizes
        /\ \A s \in live : Disjoint(r, s)

Free == \E r \in live : live' = live \ {r}

HeapNext == Malloc \/ Free

HeapSpec == HeapInit /\ [][HeapNext]_live
=============================================================================
