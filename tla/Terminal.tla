------------------------------- MODULE Terminal -------------------------------
(***************************************************************************)
(* What the console promises: an endless text of which the screen shows    *)
(* the end.  Only the last line, the open one, changes; a full line is     *)
(* closed; lines that leave the screen at the top are forgotten, but never *)
(* any of the last Height lines.                                           *)
(*                                                                         *)
(* One thing is not what a terminal should do: when a line is full and the *)
(* screen too, the new line is not empty but shows the full one again.  The*)
(* first character takes its place; a line feed leaves it in the text for  *)
(* good.                                                                   *)
(***************************************************************************)
EXTENDS Integers, Sequences, SequencesExt

CONSTANTS
    Width, Height,
    Kept,               \* characters of a line that cannot be erased
    LineFeed, Erase,    \* the two inputs that are not characters to show
    Blank,              \* where a character was
    Inputs              \* what is fed to the terminal in one step: sequences

VARIABLE lines          \* the last one is open

Open(ls) == Last(ls)
OpenReplaced(ls, line) == Append(Front(ls), line)

(* What was entered on the open line: a full one is the copy.              *)
IsCopy(line) == Len(line) = Width
Entered(ls) == IF IsCopy(Open(ls)) THEN <<>> ELSE Open(ls)

Enter(ls, c) ==
    LET line == Append(Entered(ls), c)
    IN  IF Len(line) < Width THEN OpenReplaced(ls, line)
        ELSE Append(OpenReplaced(ls, line),
                    IF Len(ls) >= Height THEN line ELSE <<>>)

(* Of the prompt nothing is erased; of the copy, its first character.      *)
EraseLast(ls) ==
    IF Len(Entered(ls)) > Kept THEN OpenReplaced(ls, Front(Open(ls)))
    ELSE IF IsCopy(Open(ls)) THEN OpenReplaced(ls, [Open(ls) EXCEPT ![1] = Blank])
    ELSE ls

Feed(ls, c) ==
    IF c = LineFeed THEN Append(ls, <<>>)
    ELSE IF c = Erase THEN EraseLast(ls)
    ELSE Enter(ls, c)

FedAll(ls, input) == FoldLeft(Feed, ls, input)

TerminalInit == lines = << <<>> >>

TerminalNext ==
    \E now \in {lines}, next \in {lines'}, input \in Inputs :
        \E text \in {FedAll(now, input)} :
            /\ IsSuffix(next, text)
            /\ next = text \/ Len(next) >= Height
=============================================================================
