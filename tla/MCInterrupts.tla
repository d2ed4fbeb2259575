----------------------------- MODULE MCInterrupts -----------------------------
(* Timer and keyboard of PIC1; the first line of PIC2 and one more.          *)
EXTENDS Interrupts

FourLines == {0, 1, 8, 12}
NoMask == { {} }
PageFault == {14}
=============================================================================
