------------------------------ MODULE MCKeyboard ------------------------------
(* Keyboard is checked as it stands; its constants are numbers.             *)
EXTENDS Keyboard
=============================================================================
