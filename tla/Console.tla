-------------------------------- MODULE Console --------------------------------
(***************************************************************************)
(* The VGA text screen of vga_api.c and the keyboard's part of it,         *)
(* console.c.  Two actors write on one cursor: kmain, which prints a       *)
(* message character by character, and the handlers of interrupts, which   *)
(* run between two characters (VGA_display_char itself runs with interrupts*)
(* off): that of IRQ 1 shows a key, others print a message.  Whether the   *)
(* line is a prompt is asked before a message and acted upon after it.     *)
(*                                                                         *)
(* Cells hold a character or Blank (0x0000).  Row MAX_ROW is the video     *)
(* memory below the screen: a line feed on the last row leaves current_row *)
(* there until the next character.                                         *)
(***************************************************************************)
EXTENDS Integers, Sequences, SequencesExt

CONSTANTS
    MAX_COL, MAX_ROW,   \* 80 and 25
    Welcome,            \* what kmain displays before interrupts are on
    Messages,           \* what it prints later: sequences of characters
    ScanCodes,          \* what the keyboard sends
    BeyondTable,        \* the bytes behind pressed_keys that codes may index
    Reports,            \* what handlers print: sequences of characters
    MaxEvents,          \* bound: keys pressed or released, and reports
    Below               \* what the video memory below the screen may hold

Blank == "blank"
LineFeed == "lf"
Tab == "tab"
Backspace == "bs"
NoChar == "none"        \* the 0x0 entries of pressed_keys

CONSOLE_PROMPT == <<">", " ">>
is_alpha(c) == c = "A"
Lower(c) == "a"         \* c + 32

LeftShift == 42  RightShift == 54  CapsLock == 58
LeftShiftUp == 170  RightShiftUp == 182

(* One entry of each kind.  The table has 83; codes up to 88 index it.     *)
pressed_keys ==
    [code \in {14, 15, 28, 30, LeftShift, RightShift, CapsLock} |->
        CASE code = 14 -> Backspace
          [] code = 15 -> Tab
          [] code = 28 -> LineFeed
          [] code = 30 -> "A"
          [] OTHER -> NoChar]

LastIndexed == 88
TableSize == 83

Rows == 0..MAX_ROW
Columns == 0..(MAX_COL - 1)
BlankRow == [col \in Columns |-> Blank]

ASSUME ConsoleAssumption ==
    /\ MAX_COL \in Nat /\ MAX_COL > Len(CONSOLE_PROMPT)
    /\ MAX_ROW \in Nat /\ MAX_ROW > 1
    /\ \A row \in Below : row \in [Columns -> STRING] /\ row[0] # CONSOLE_PROMPT[1]
    /\ {Welcome} \cup Messages \cup Reports \subseteq Seq(STRING)
    /\ BeyondTable \subseteq STRING
    /\ \A code \in ScanCodes : code \in 1..TableSize => code \in DOMAIN pressed_keys

VARIABLES
    vga_buff, current_row, current_col,
    is_left_shift, is_right_shift, is_capslock,
    interrupts,         \* whether handlers can run
    printing,           \* the call of printkln or printk: [text, line], or NoCall
    asked,              \* prompt characters is_prompt has found so far
    is_p,               \* its answer
    left,               \* characters the call has still to display
    keys,               \* keys and reports so far
    quiet               \* history: no key or report since the call began

screenVars == <<vga_buff, current_row, current_col>>
keyVars == <<is_left_shift, is_right_shift, is_capslock>>
printVars == <<interrupts, printing, asked, is_p, left>>
consoleVars == <<screenVars, keyVars, printVars, keys, quiet>>

NoCall == [text |-> <<>>, line |-> FALSE]
-----------------------------------------------------------------------------
(* The screen as a value, so that a step may display several characters.   *)
Screen == [cells |-> vga_buff, row |-> current_row, col |-> current_col]

Show(s) ==
    /\ vga_buff' = s.cells
    /\ current_row' = s.row
    /\ current_col' = s.col

clear_row(cells, row) == [cells EXCEPT ![row] = BlankRow]

(* Every row but the last takes what is below it; the last one stays.      *)
scroll(cells) ==
    [row \in Rows |-> IF row < MAX_ROW - 1 THEN cells[row + 1] ELSE cells[row]]

RoomMade(s) ==
    IF s.row < MAX_ROW THEN s
    ELSE [s EXCEPT !.cells = clear_row(scroll(s.cells), MAX_ROW - 1),
                   !.row = MAX_ROW - 1]

WrittenOver(s, c) ==    \* a faulty variant: a new row is not cleared
    LET cells == [s.cells EXCEPT ![s.row][s.col] = c]
    IN  IF s.col + 1 < MAX_COL THEN [s EXCEPT !.cells = cells, !.col = s.col + 1]
        ELSE IF s.row + 1 < MAX_ROW
        THEN [cells |-> cells, row |-> s.row + 1, col |-> 0]
        ELSE [cells |-> scroll(cells), row |-> s.row, col |-> 0]

(* A character at the cursor: a new row is cleared first, a full one ended,*)
(* by scrolling when it is the last; what scrolls in is not cleared yet.   *)
Written(s, c) ==
    LET fresh == IF s.col = 0 THEN clear_row(s.cells, s.row) ELSE s.cells
        cells == [fresh EXCEPT ![s.row][s.col] = c]
    IN  IF s.col + 1 < MAX_COL THEN [s EXCEPT !.cells = cells, !.col = s.col + 1]
        ELSE IF s.row + 1 < MAX_ROW
        THEN [cells |-> cells, row |-> s.row + 1, col |-> 0]
        ELSE [cells |-> scroll(cells), row |-> s.row, col |-> 0]

VGA_display_char(s, c) ==
    LET t == RoomMade(s)
    IN  IF c = LineFeed THEN [t EXCEPT !.row = t.row + 1, !.col = 0]
        ELSE IF c = Tab THEN FoldLeft(Written, t, <<" ", " ", " ", " ">>)
        ELSE Written(t, c)

VGA_display_str(s, str) == FoldLeft(VGA_display_char, s, str)

EraseAnything(s) ==     \* a faulty variant: the prompt is not spared
    LET col == IF s.col >= 1 THEN s.col - 1 ELSE s.col
    IN  [s EXCEPT !.cells = [s.cells EXCEPT ![s.row][col] = Blank], !.col = col]

(* Clears a cell in any case: below the screen, too, when the row is there.*)
VGA_erase(s) ==
    LET col == IF s.col - 1 >= 2 THEN s.col - 1 ELSE s.col
    IN  [s EXCEPT !.cells = [s.cells EXCEPT ![s.row][col] = Blank], !.col = col]
-----------------------------------------------------------------------------
(* CON_key_action: the handler of IRQ 1.                                   *)
KeyChars(code) ==
    IF code <= TableSize THEN {pressed_keys[code]} ELSE BeyondTable

KeyShown(c) ==
    IF is_alpha(c) /\ ~(is_left_shift \/ is_right_shift \/ is_capslock)
    THEN VGA_display_char(Screen, Lower(c))
    ELSE IF c = Backspace THEN VGA_erase(Screen)
    ELSE IF c = LineFeed
    THEN VGA_display_str(VGA_display_char(Screen, c), CONSOLE_PROMPT)
    ELSE VGA_display_char(Screen, c)

KeyPressed(code) ==
    /\ code \in 1..LastIndexed
    /\ \E c \in KeyChars(code) :
        /\ c # NoChar
        /\ Show(KeyShown(c))
    /\ UNCHANGED keyVars

KeyOfModifier(code) ==
    /\ \/ code \in 1..LastIndexed /\ NoChar \in KeyChars(code)
       \/ code > LastIndexed
    /\ is_left_shift' = CASE code = LeftShift -> TRUE
                          [] code = LeftShiftUp -> FALSE
                          [] OTHER -> is_left_shift
    /\ is_right_shift' = CASE code = RightShift -> TRUE
                           [] code = RightShiftUp -> FALSE
                           [] OTHER -> is_right_shift
    /\ is_capslock' = (is_capslock # (code = CapsLock))
    /\ UNCHANGED screenVars

CON_key_action(code) ==
    /\ interrupts /\ keys < MaxEvents
    /\ keys' = keys + 1
    /\ KeyPressed(code) \/ KeyOfModifier(code)
    /\ quiet' = FALSE
    /\ UNCHANGED printVars
-----------------------------------------------------------------------------
(* printkln and printk.                                                    *)
char_at(col, row) == vga_buff[row][col]

Begin(text, line) ==
    /\ interrupts /\ printing = NoCall /\ left = <<>>
    /\ printing' = [text |-> text, line |-> line]
    /\ asked' = 0 /\ quiet' = TRUE
    /\ UNCHANGED <<screenVars, keyVars, interrupts, is_p, left, keys>>

printk(text) == Begin(text, FALSE)
printkln(text) == Begin(text, TRUE)

AskingOver == printing = NoCall \/ left # <<>>

PromptBreak(found) == IF found THEN <<LineFeed>> ELSE <<>>
LineEnd(call) == IF call.line THEN <<LineFeed>> ELSE <<>>

(* Two faulty variants: no prompt again, and no break before the text.     *)
NoPromptAgain(call, found) == PromptBreak(found) \o call.text \o LineEnd(call)
NoBreak(call, found) ==
    call.text \o LineEnd(call)
    \o (IF call.line /\ found THEN CONSOLE_PROMPT ELSE <<>>)

(* What a call displays, by is_prompt's answer: off the prompt line, the   *)
(* text, and for printkln a line feed and the prompt again.                *)
ToDisplay(call, found) ==
    PromptBreak(found) \o call.text \o LineEnd(call)
    \o (IF call.line /\ found THEN CONSOLE_PROMPT ELSE <<>>)

(* One round of its loop: the row may change between two.                  *)
is_prompt ==
    /\ ~AskingOver
    /\ IF char_at(asked, current_row) # CONSOLE_PROMPT[asked + 1]
       THEN is_p' = FALSE /\ left' = ToDisplay(printing, FALSE) /\ UNCHANGED asked
       ELSE IF asked + 1 = Len(CONSOLE_PROMPT)
       THEN is_p' = TRUE /\ left' = ToDisplay(printing, TRUE) /\ UNCHANGED asked
       ELSE asked' = asked + 1 /\ UNCHANGED <<is_p, left>>
    /\ UNCHANGED <<screenVars, keyVars, interrupts, printing, keys, quiet>>

DisplayNext ==
    /\ left # <<>>
    /\ Show(VGA_display_char(Screen, Head(left)))
    /\ left' = Tail(left)
    /\ printing' = IF Len(left) = 1 THEN NoCall ELSE printing
    /\ UNCHANGED <<keyVars, interrupts, asked, is_p, keys, quiet>>

PromptSeen ==
    \A i \in 1..Len(CONSOLE_PROMPT) :
        char_at(i - 1, current_row) = CONSOLE_PROMPT[i]

(* A handler reports with printkln, in one go, or, IRQ 4's and IRQ 6's,    *)
(* with printkln_no_serial, of which the line feed alone is left.          *)
Report ==
    /\ interrupts /\ keys < MaxEvents
    /\ \/ \E text \in Reports :
            LET call == [text |-> text, line |-> TRUE]
            IN  Show(VGA_display_str(Screen, ToDisplay(call, PromptSeen)))
       \/ Show(VGA_display_char(Screen, LineFeed))
    /\ keys' = keys + 1 /\ quiet' = FALSE
    /\ UNCHANGED <<keyVars, printVars>>

(* kmain: VGA_clear, the welcome and the prompt, then sti(1).              *)
VGA_clear ==
    /\ \E below \in Below :
        vga_buff = [row \in Rows |-> IF row < MAX_ROW THEN BlankRow ELSE below]
    /\ current_row = 0 /\ current_col = 0

ConsoleInit ==
    /\ VGA_clear
    /\ is_left_shift = FALSE /\ is_right_shift = FALSE /\ is_capslock = FALSE
    /\ interrupts = FALSE
    /\ printing = NoCall /\ asked = 0 /\ is_p = FALSE
    /\ left = Welcome \o CONSOLE_PROMPT
    /\ keys = 0 /\ quiet = TRUE

sti ==
    /\ ~interrupts /\ left = <<>>
    /\ interrupts' = TRUE
    /\ UNCHANGED <<screenVars, keyVars, printing, asked, is_p, left, keys, quiet>>

ConsoleNext ==
    \/ \E code \in ScanCodes : CON_key_action(code)
    \/ \E text \in Messages : printk(text)
    \/ \E text \in Messages : printkln(text)
    \/ is_prompt
    \/ DisplayNext
    \/ Report
    \/ sti

ConsoleSpec == ConsoleInit /\ [][ConsoleNext]_consoleVars
-----------------------------------------------------------------------------
(* The characters that take a cell, of all that can reach the screen.      *)
Chars ==
    ({">", " ", "a", "A"} \cup BeyondTable
        \cup UNION {ToSet(text) : text \in {Welcome} \cup Messages \cup Reports})
    \ {LineFeed, Tab, Backspace, NoChar}

(* The lines the screen holds: the rows down to the cursor, each up to its *)
(* last cell that is not blank.  Below the screen nothing is shown.        *)
Line(row) ==
    LET length == CHOOSE n \in 0..MAX_COL :
                    /\ n > 0 => vga_buff[row][n - 1] # Blank
                    /\ \A col \in n..(MAX_COL - 1) : vga_buff[row][col] = Blank
    IN  IF row = MAX_ROW THEN <<>> ELSE [i \in 1..length |-> vga_buff[row][i - 1]]

Lines == [i \in 1..(current_row + 1) |-> Line(i - 1)]

(* Texts the screen can tell apart from its own marks: Blank is a cell     *)
(* never written, NoChar no key, the erase key writes nothing; no handler  *)
(* prints a tab.                                                           *)
Printable ==
    /\ \A text \in {Welcome} \cup Messages \cup Reports :
          \A i \in 1..Len(text) : text[i] \notin {Blank, Backspace, NoChar}
    /\ \A text \in Reports : \A i \in 1..Len(text) : text[i] # Tab
    /\ Blank \notin BeyondTable

(* A character, a key's line feed with its prompt, a tab, or a report.     *)
TerminalInputs ==
    { <<c>> : c \in Chars \cup {LineFeed, Backspace} }
    \cup { <<LineFeed>> \o CONSOLE_PROMPT, <<" ", " ", " ", " ">> }
    \cup UNION { { ToDisplay([text |-> text, line |-> TRUE], found) :
                     found \in BOOLEAN } : text \in Reports }

Text == INSTANCE Terminal
            WITH Width <- MAX_COL, Height <- MAX_ROW, Kept <- Len(CONSOLE_PROMPT),
                 Erase <- Backspace, lines <- Lines,
                 Inputs <- TerminalInputs

(* The screen implements a terminal: whatever the interleaving of messages *)
(* and keys, no character is lost or moved by wrapping, scrolling, erasing *)
(* and clearing, and the last MAX_ROW lines are always there.  A line is   *)
(* doubled in one case, and in that always: filling the last row scrolls   *)
(* it up and leaves it there a second time (scroll, vga_api.c:163).  The   *)
(* next character takes the place of the copy; a line feed instead leaves  *)
(* it on the screen for good.                                              *)
ImplementsTerminal == Text!TerminalInit /\ [][Text!TerminalNext]_Lines

JustWrapped == current_row = MAX_ROW - 1 /\ current_col = 0

(* The cursor is on the screen, or at the start of the row below it, and   *)
(* behind it the screen is blank.  The one exception: a line that ends by  *)
(* filling the last row stays there a second time (scroll, vga_api.c:163,  *)
(* copies but does not clear) until the next character, or for good if     *)
(* that is a line feed, which takes the cursor below it.                   *)
BlankBehind ==
    /\ current_row \in Rows /\ current_col \in Columns
    /\ current_row = MAX_ROW => current_col = 0
    /\ \A row \in (current_row + 1)..(MAX_ROW - 1) : vga_buff[row] = BlankRow
    /\ \/ \A col \in current_col..(MAX_COL - 1) :
            current_row < MAX_ROW => vga_buff[current_row][col] = Blank
       \/ JustWrapped /\ current_row > 0

(* A message never continues a prompt line, however that was edited,       *)
(* wrapped or scrolled: what a call displays while no key or report comes  *)
(* is on a line without prompt, or is the prompt.                          *)
MessagesApart ==
    [][printing # NoCall /\ left # <<>> /\ left' # left /\ quiet =>
        (PromptSeen => current_col = Len(CONSOLE_PROMPT))']_consoleVars

(* A printkln that found a prompt leaves one behind, on a line of its own, *)
(* unless a key or a report came meanwhile: its characters may go before   *)
(* or into the prompt.                                                     *)
PromptBack ==
    [][printing.line /\ printing' = NoCall /\ is_p /\ quiet =>
        (PromptSeen /\ current_col = Len(CONSOLE_PROMPT))']_consoleVars
=============================================================================
