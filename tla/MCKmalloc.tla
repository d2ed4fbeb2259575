------------------------------- MODULE MCKmalloc -------------------------------
(* Pages of 8 units with a header of 1, blocks of 2 and 4 units: 4 or 2      *)
(* blocks to a page, so that every list runs empty and is refilled.          *)
EXTENDS Kmalloc

TwoPools == <<2, 4>>

(* 0, sizes that just fit and just miss the smaller pool, and one too large  *)
(* for both (7 and the header fill a page).                                  *)
EverySize == {0, 1, 2, 7}

(* What the frame of a new page holds: 0, or a word that is no block's        *)
(* address.                                                                  *)
UsedWords == {0, 99}
=============================================================================
