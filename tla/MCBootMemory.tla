----------------------------- MODULE MCBootMemory -----------------------------
(* Six pages of 4 units and room for two spans.                              *)
EXTENDS BootMemory

MCNone == -1

(* Sections inside a page, across a page boundary, touching, overlapping or  *)
(* within a page of another, one that ends with a page, one of size 0.       *)
SomeSections ==
    {[address |-> 5, size |-> 0], [address |-> 5, size |-> 2],
     [address |-> 7, size |-> 2], [address |-> 13, size |-> 1],
     [address |-> 18, size |-> 1], [address |-> 6, size |-> 2]}

AllTables == UNION {[1..n -> SomeSections] : n \in 0..3}

(* Two entries that do not overlap, at and off page boundaries, smaller and  *)
(* larger than a page.                                                       *)
Cuts == {0, 3, 8, 9, 16, 24}

AllMaps ==
    {<<[address |-> a, size |-> b - a, type |-> t], [address |-> c, size |-> d - c, type |-> 1]>> :
        <<a, b, c, d, t>> \in {x \in Cuts \X Cuts \X Cuts \X Cuts \X {1, 2} :
                                x[1] < x[2] /\ x[2] <= x[3] /\ x[3] < x[4]}}
=============================================================================
