------------------------------- MODULE MCBuffer -------------------------------
(* Five slots: every pair of indices is reached, on either side of the wrap, *)
(* and with two different bytes no misplaced byte goes unseen.               *)
EXTENDS Buffer

TwoBytes == {1, 2}
MCNoByte == 0
=============================================================================
