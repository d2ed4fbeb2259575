----------------------------- MODULE MCPageTable -----------------------------
(* Instances of PageTable.  A pml1 table of 3 entries keeps the first heap   *)
(* page (1) and the first stack page (2) apart; two of them make the heap    *)
(* indices carry.  PT_init takes one frame more than there are pml1 tables.  *)
EXTENDS PageTable

MCnullptr == 0
MCJunk == 99
MCNone == 98

SixFrames == 1..6
SixInOrder == [i \in 1..6 |-> i]
FourFrames == 1..4
FourInOrder == [i \in 1..4 |-> i]

(* What kmain stores: a word that looks like a pointer to a frame, and one   *)
(* that does not.                                                            *)
TwoWords == {MCJunk, 4}
OneWord == {MCJunk}
=============================================================================
