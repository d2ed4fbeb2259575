------------------------------- MODULE MCSerial -------------------------------
(* Serial is checked as it stands; its constants are numbers.               *)
EXTENDS Serial
=============================================================================
