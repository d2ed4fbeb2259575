------------------------------ MODULE MCConsole ------------------------------
EXTENDS Console

OneLine == <<"m", LineFeed>>
OneMessage == { <<"m", "m", "m">> }
OneReport == { <<"m">> }
Keys == {14, 15, 28, 30, 42, 87, 170}
BlankOrNot == { BlankRow, [col \in Columns |-> "m"] }
AnyOf == {NoChar, "m"}

(* The hypothesis of ScreenIsTerminal holds here.                          *)
ASSUME MCPrintable == Printable
=============================================================================
