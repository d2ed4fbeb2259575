----------------------------- MODULE ConsoleProofs -----------------------------
(***************************************************************************)
(* Theorems about the two halves of the console: Console's screen, for     *)
(* every size of it and every set of messages, and the keyboard's set-up   *)
(* and interrupts of module Keyboard, for any number of keys and any       *)
(* length of the keyboard's own buffer.                                    *)
(*                                                                         *)
(* The screen: a set of screens, those blank behind the cursor, is closed  *)
(* under displaying a character and erasing one, hence under displaying a  *)
(* string, which is a fold.  Messages: PrintInv and BackInv, what a call   *)
(* has still to display and the line it will stand on.  The lines of the   *)
(* screen: LinesInv, and that each step shows what module Terminal makes of*)
(* the same input.  The keyboard: RequestInv, BytesOK, Progress.           *)
(***************************************************************************)
EXTENDS Console, Keyboard, CommonLemmas

-----------------------------------------------------------------------------
(* A fold over a sequence is what its steps compute one after the other.   *)
LEMMA MaxIsMember ==
    ASSUME NEW n \in Nat, NEW u \in SUBSET (1..n), u # {}
    PROVE  Max(u) \in u /\ \A x \in u : x <= Max(u)
<1> DEFINE T == {n - x : x \in u}
<1>1. T \in SUBSET Nat /\ T # {}
  <2>1. \A x \in u : x \in 1..n /\ n - x \in Nat
    OBVIOUS
  <2> QED BY <2>1
<1>2. \E m \in T : \A y \in T : m <= y
  BY <1>1, LeastElement
<1>3. PICK x \in u : \A y \in u : n - x <= n - y
  BY <1>2
<1>4. \A y \in u : x >= y
  BY <1>3
<1>5. \A y \in u : y \in Int
  OBVIOUS
<1>6. Max(u) \in u /\ \A y \in u : Max(u) >= y
  BY <1>3, <1>4 DEF Max
<1> QED BY <1>5, <1>6

FoldOf(g, D, base, f, str) ==
    g = [u \in SUBSET D |-> IF u = {} THEN base ELSE f[g[u \ {Max(u)}], str[Max(u)]]]

LEMMA FoldExists ==
    ASSUME NEW S, NEW T, NEW base \in S, NEW f \in [S \X T -> S], NEW str \in Seq(T)
    PROVE  \E g \in [SUBSET (1..Len(str)) -> S] : FoldOf(g, 1..Len(str), base, f, str)
<1>n. PICK n \in Nat : n = Len(str)
  OBVIOUS
<1>d. PICK D : D = 1..n
  OBVIOUS
<1>1. \A i \in 1..n : str[i] \in T
  BY <1>n, ElementOfSeq
<1>2. \A u \in SUBSET D : u # {} => Max(u) \in u /\ Max(u) \in 1..n /\ \A x \in u : x <= Max(u)
  BY <1>d, MaxIsMember
<1> DEFINE FoldUpTo(g, k) ==
        \A u \in SUBSET D : u \subseteq 1..k =>
            g[u] = IF u = {} THEN base ELSE f[g[u \ {Max(u)}], str[Max(u)]]
           Built(k) == k <= n => \E g \in [SUBSET D -> S] : FoldUpTo(g, k)
<1>3. Built(0)
  <2> DEFINE g == [u \in SUBSET D |-> base]
  <2>1. FoldUpTo(g, 0)
    <3>1. 1..0 = {}
      OBVIOUS
    <3> QED BY <3>1
  <2>2. g \in [SUBSET D -> S]
    OBVIOUS
  <2> HIDE DEF g, FoldUpTo
  <2> QED BY <2>1, <2>2
<1>4. ASSUME NEW k \in Nat, Built(k) PROVE Built(k + 1)
  <2> SUFFICES ASSUME k + 1 <= n PROVE \E g \in [SUBSET D -> S] : FoldUpTo(g, k + 1)
    OBVIOUS
  <2>0. k <= n
    BY <1>n
  <2>1. PICK g \in [SUBSET D -> S] : FoldUpTo(g, k)
    BY <1>4, <2>0
  <2>2. \A u \in SUBSET D : u # {} => f[g[u \ {Max(u)}], str[Max(u)]] \in S
    <3>1. ASSUME NEW u \in SUBSET D, u # {} PROVE f[g[u \ {Max(u)}], str[Max(u)]] \in S
      <4>1. g[u \ {Max(u)}] \in S /\ str[Max(u)] \in T
        BY <1>1, <1>2, <3>1
      <4> QED BY <4>1
    <3> QED BY <3>1
  <2> DEFINE h == [u \in SUBSET D |->
                    IF u \subseteq 1..k THEN g[u]
                    ELSE f[g[u \ {Max(u)}], str[Max(u)]]]
  <2>3. h \in [SUBSET D -> S]
    <3>1. ASSUME NEW u \in SUBSET D PROVE h[u] \in S
      <4>1. CASE u \subseteq 1..k
        BY <4>1
      <4>2. CASE ~(u \subseteq 1..k)
        BY <2>2, <4>2
      <4> QED BY <4>1, <4>2
    <3> QED BY <3>1
  <2>4. ASSUME NEW u \in SUBSET D, u \subseteq 1..(k + 1)
        PROVE  h[u] = IF u = {} THEN base ELSE f[h[u \ {Max(u)}], str[Max(u)]]
    <3>1. CASE u = {}
      BY <2>1, <3>1
    <3>2. CASE u # {}
      <4>m. PICK m : m = Max(u)
        OBVIOUS
      <4>1. m \in u /\ m \in 1..(k + 1) /\ \A x \in u : x <= m
        BY <1>2, <2>4, <3>2, <4>m
      <4>2. u \ {m} \subseteq 1..k /\ u \ {m} \in SUBSET D
        <5>1. ASSUME NEW x \in u, x # m PROVE x \in 1..k
          <6>1. x \in 1..(k + 1) /\ x <= m
            BY <2>4, <4>1, <5>1
          <6> QED BY <4>1, <5>1, <6>1
        <5> QED BY <5>1
      <4>3. h[u \ {m}] = g[u \ {m}]
        BY <4>2
      <4>4. CASE u \subseteq 1..k
        <5>1. h[u] = g[u] /\ g[u] = f[g[u \ {m}], str[m]]
          BY <2>1, <3>2, <4>4, <4>m
        <5> QED BY <3>2, <4>3, <4>m, <5>1
      <4>5. CASE ~(u \subseteq 1..k)
        <5>1. h[u] = f[g[u \ {m}], str[m]]
          BY <4>5, <4>m
        <5> QED BY <3>2, <4>3, <4>m, <5>1
      <4> QED BY <4>4, <4>5
    <3> QED BY <3>1, <3>2
  <2>5. FoldUpTo(h, k + 1)
    BY <2>4
  <2> HIDE DEF h, FoldUpTo
  <2> QED BY <2>3, <2>5
<1>5. Built(n)
  <2> HIDE DEF Built
  <2> DEFINE K == {k \in Nat : Built(k)}
  <2>1. 0 \in K /\ \A k \in K : k + 1 \in K
    BY <1>3, <1>4
  <2>2. K \in SUBSET Nat
    OBVIOUS
  <2> HIDE DEF K
  <2>3. K = Nat
    BY <2>1, <2>2, NaturalInduction
  <2> QED BY <2>3 DEF K
<1>6. PICK g \in [SUBSET D -> S] : FoldUpTo(g, n)
  <2> HIDE DEF FoldUpTo
  <2>1. n <= n
    OBVIOUS
  <2> QED BY <1>5, <2>1
<1>7. g = [u \in SUBSET D |-> IF u = {} THEN base ELSE f[g[u \ {Max(u)}], str[Max(u)]]]
  <2>1. \A u \in SUBSET D : g[u] = IF u = {} THEN base ELSE f[g[u \ {Max(u)}], str[Max(u)]]
    BY <1>6, <1>d
  <2> QED BY <2>1
<1> QED BY <1>7, <1>d, <1>n DEF FoldOf

(* A set that holds the first value and is closed under the steps holds    *)
(* every value of a fold.                                                  *)
LEMMA FoldInside ==
    ASSUME NEW S, NEW n \in Nat, NEW g,
           g[{}] \in S,
           \A u \in SUBSET (1..n) : u # {} /\ g[u \ {Max(u)}] \in S => g[u] \in S
    PROVE  g[1..n] \in S
<1> DEFINE K == {k \in Nat : \A u \in SUBSET (1..n) : u \subseteq 1..k => g[u] \in S}
<1>1. 0 \in K
  <2>1. \A u \in SUBSET (1..n) : u \subseteq 1..0 => u = {}
    <3>1. 1..0 = {}
      OBVIOUS
    <3> QED BY <3>1
  <2>2. \A u \in SUBSET (1..n) : u \subseteq 1..0 => g[u] \in S
    BY <2>1
  <2> QED BY <2>2
<1>2. ASSUME NEW k \in K PROVE k + 1 \in K
  <2>1. ASSUME NEW u \in SUBSET (1..n), u \subseteq 1..(k + 1) PROVE g[u] \in S
    <3>1. CASE u = {}
      BY <3>1
    <3>2. CASE u # {}
      <4>m. PICK m : m = Max(u)
        OBVIOUS
      <4>1. m \in u /\ \A x \in u : x <= m
        BY <3>2, <4>m, MaxIsMember
      <4>2. u \ {m} \subseteq 1..k
        <5>1. ASSUME NEW x \in u, x # m PROVE x \in 1..k
          <6>1. x \in 1..(k + 1) /\ x <= m /\ m \in 1..(k + 1) /\ k \in Nat
            BY <2>1, <4>1, <5>1
          <6> QED BY <5>1, <6>1
        <5> QED BY <5>1
      <4>3. u \ {m} \in SUBSET (1..n)
        OBVIOUS
      <4>4. g[u \ {m}] \in S
        BY <4>2, <4>3
      <4> QED BY <3>2, <4>4, <4>m
    <3> QED BY <3>1, <3>2
  <2>2. k + 1 \in Nat
    OBVIOUS
  <2> QED BY <2>1, <2>2
<1>3. K \in SUBSET Nat
  OBVIOUS
<1> HIDE DEF K
<1>4. K = Nat
  BY <1>1, <1>2, <1>3, NaturalInduction
<1>5. n \in K
  BY <1>4
<1> QED BY <1>5 DEF K

-----------------------------------------------------------------------------
(* Screens.  A tidy one is blank behind the cursor, but for the row that   *)
(* scroll leaves there twice, and below it starts with no prompt.          *)
Character == STRING \cup {Blank, LineFeed, Tab, Backspace, NoChar, ">", " ", "A", "a"}

Cells == [Rows -> [Columns -> Character]]

Tidy(s) ==
    /\ s.row = MAX_ROW => s.col = 0
    /\ \A row \in (s.row + 1)..(MAX_ROW - 1) : s.cells[row] = BlankRow
    /\ \/ \A col \in s.col..(MAX_COL - 1) : s.row < MAX_ROW => s.cells[s.row][col] = Blank
       \/ s.row = MAX_ROW - 1 /\ s.col = 0
    /\ s.cells[MAX_ROW][0] # ">"

Screens == {s \in [cells : Cells, row : Rows, col : Columns] : Tidy(s)}
OnScreen == {s \in Screens : s.row < MAX_ROW}

LEMMA ConsoleSizes ==
    /\ MAX_COL \in Nat /\ MAX_COL > 2 /\ MAX_ROW \in Nat /\ MAX_ROW > 1
    /\ 0 \in Columns /\ 0 \in Rows /\ BlankRow \in [Columns -> Character] /\ Blank \in Character
    /\ CONSOLE_PROMPT \in Seq(Character) /\ Len(CONSOLE_PROMPT) = 2
<1>1. CONSOLE_PROMPT \in Seq(Character) /\ Len(CONSOLE_PROMPT) = 2
  <2>1. ">" \in Character /\ " " \in Character
    BY DEF Character
  <2>2. ASSUME NEW a \in Character, NEW b \in Character
        PROVE  <<a, b>> \in Seq(Character) /\ Len(<<a, b>>) = 2
    OBVIOUS
  <2> QED BY <2>1, <2>2 DEF CONSOLE_PROMPT
<1>2. MAX_COL \in Nat /\ MAX_COL > 2 /\ MAX_ROW \in Nat /\ MAX_ROW > 1
  BY <1>1, ConsoleAssumption
<1>3. 0 \in Columns /\ 0 \in Rows
  BY <1>2 DEF Columns, Rows
<1>4. Blank \in Character
  BY DEF Character
<1>5. BlankRow \in [Columns -> Character]
  BY <1>4 DEF BlankRow
<1> QED BY <1>1, <1>2, <1>3, <1>4, <1>5

LEMMA ScrollKeeps ==
    ASSUME NEW cells \in Cells
    PROVE  /\ scroll(cells) \in Cells
           /\ scroll(cells)[MAX_ROW] = cells[MAX_ROW]
           /\ scroll(cells)[MAX_ROW - 1] = cells[MAX_ROW - 1]
<1>1. \A row \in Rows : row < MAX_ROW - 1 => row + 1 \in Rows
  BY ConsoleSizes DEF Rows
<1>2. MAX_ROW \in Rows /\ ~(MAX_ROW < MAX_ROW - 1)
      /\ MAX_ROW - 1 \in Rows /\ ~(MAX_ROW - 1 < MAX_ROW - 1)
  BY ConsoleSizes DEF Rows
<1> QED BY <1>1, <1>2 DEF scroll, Cells

LEMMA RoomMadeTidy ==
    ASSUME NEW s \in Screens
    PROVE  RoomMade(s) \in OnScreen
<1>1. /\ s \in [cells : Cells, row : Rows, col : Columns] /\ Tidy(s)
      /\ s.row \in Nat /\ s.row <= MAX_ROW
  BY DEF Screens, Rows
<1>2. CASE s.row < MAX_ROW
  BY <1>2 DEF RoomMade, OnScreen
<1>3. CASE s.row = MAX_ROW
  <2>t. PICK t : t = [s EXCEPT !.cells = clear_row(scroll(s.cells), MAX_ROW - 1),
                               !.row = MAX_ROW - 1]
    OBVIOUS
  <2>c. PICK cells : cells = clear_row(scroll(s.cells), MAX_ROW - 1)
    OBVIOUS
  <2>0. MAX_ROW - 1 \in Rows /\ MAX_ROW - 1 < MAX_ROW
    BY ConsoleSizes DEF Rows
  <2>1. scroll(s.cells) \in Cells /\ scroll(s.cells)[MAX_ROW] = s.cells[MAX_ROW]
    BY <1>1, ScrollKeeps
  <2>2. cells \in Cells /\ cells[MAX_ROW - 1] = BlankRow
    BY <2>0, <2>1, <2>c, ConsoleSizes DEF clear_row, Cells
  <2>7. cells[MAX_ROW] = s.cells[MAX_ROW]
    <3>1. MAX_ROW \in Rows /\ MAX_ROW # MAX_ROW - 1
      BY ConsoleSizes DEF Rows
    <3>2. cells = [scroll(s.cells) EXCEPT ![MAX_ROW - 1] = BlankRow]
      BY <2>c DEF clear_row
    <3> QED BY <2>1, <3>1, <3>2 DEF Cells
  <2>3. t \in [cells : Cells, row : Rows, col : Columns]
        /\ t.cells = cells /\ t.row = MAX_ROW - 1 /\ t.col = 0
    BY <1>1, <1>3, <2>0, <2>2, <2>c, <2>t DEF Tidy
  <2>4. Tidy(t)
    <3>1. \A row \in ((MAX_ROW - 1) + 1)..(MAX_ROW - 1) : FALSE
      BY ConsoleSizes
    <3>2. t.row # MAX_ROW
      BY <2>3, ConsoleSizes
    <3>3. t.row = MAX_ROW - 1 /\ t.col = 0
      BY <2>3
    <3>4. t.cells[MAX_ROW][0] # ">"
      BY <1>1, <2>3, <2>7 DEF Tidy
    <3> QED BY <3>1, <3>2, <3>3, <3>4 DEF Tidy
  <2>5. RoomMade(s) = t
    BY <1>3, <2>t, ConsoleSizes DEF RoomMade
  <2> QED BY <2>0, <2>3, <2>4, <2>5 DEF OnScreen, Screens
<1> QED BY <1>1, <1>2, <1>3, ConsoleSizes

LEMMA WrittenTidy ==
    ASSUME NEW s \in OnScreen, NEW c \in Character
    PROVE  Written(s, c) \in OnScreen
<1>1. /\ s \in [cells : Cells, row : Rows, col : Columns] /\ Tidy(s)
      /\ s.row \in Nat /\ s.row < MAX_ROW /\ s.col \in Nat /\ s.col < MAX_COL
      /\ s.cells \in Cells /\ s.row \in Rows /\ s.col \in Columns
  BY ConsoleSizes DEF OnScreen, Screens, Rows, Columns
<1>r. PICK r : r = s.row
  OBVIOUS
<1>k. PICK k : k = s.col
  OBVIOUS
<1>f. PICK fresh : fresh = IF k = 0 THEN clear_row(s.cells, r) ELSE s.cells
  OBVIOUS
<1>c. PICK cells : cells = [fresh EXCEPT ![r][k] = c]
  OBVIOUS
<1>2. /\ r \in Rows /\ r \in Nat /\ r < MAX_ROW /\ k \in Columns /\ k \in Nat /\ k < MAX_COL
  BY <1>1, <1>k, <1>r
<1>3. /\ fresh \in Cells
      /\ \A row \in Rows : row # r => fresh[row] = s.cells[row]
      /\ \A col \in k..(MAX_COL - 1) : fresh[r][col] = Blank
  <2>1. CASE k = 0
    <3>1. fresh = [s.cells EXCEPT ![r] = BlankRow]
      BY <1>f, <2>1 DEF clear_row
    <3>2. fresh \in Cells /\ fresh[r] = BlankRow
      BY <1>1, <1>2, <3>1, ConsoleSizes DEF Cells
    <3>3. \A col \in k..(MAX_COL - 1) : BlankRow[col] = Blank
      BY <1>2 DEF BlankRow, Columns
    <3> QED BY <1>1, <3>1, <3>2, <3>3 DEF Cells
  <2>2. CASE k # 0
    <3>1. fresh = s.cells
      BY <1>f, <2>2
    <3>2. \A col \in k..(MAX_COL - 1) : s.cells[r][col] = Blank
      BY <1>1, <1>k, <1>r, <2>2 DEF Tidy
    <3> QED BY <1>1, <3>1, <3>2
  <2> QED BY <2>1, <2>2
<1>4. /\ cells \in Cells
      /\ \A row \in Rows : row # r => cells[row] = s.cells[row]
      /\ \A col \in (k + 1)..(MAX_COL - 1) : cells[r][col] = Blank
  <2>1. fresh[r] \in [Columns -> Character]
    BY <1>2, <1>3 DEF Cells
  <2>2. [fresh[r] EXCEPT ![k] = c] \in [Columns -> Character]
    BY <1>2, <2>1
  <2>3. cells = [fresh EXCEPT ![r] = [fresh[r] EXCEPT ![k] = c]]
    BY <1>c
  <2>4. cells \in Cells /\ cells[r] = [fresh[r] EXCEPT ![k] = c]
    BY <1>2, <1>3, <2>2, <2>3 DEF Cells
  <2>5. ASSUME NEW col \in (k + 1)..(MAX_COL - 1) PROVE cells[r][col] = Blank
    <3>1. col \in k..(MAX_COL - 1) /\ col # k /\ col \in Columns
      BY <1>2 DEF Columns
    <3> QED BY <1>3, <2>1, <2>4, <3>1
  <2>6. ASSUME NEW row \in Rows, row # r PROVE cells[row] = s.cells[row]
    BY <1>3, <2>3, <2>6 DEF Cells
  <2> QED BY <2>4, <2>5, <2>6
<1>5. \A row \in (r + 1)..(MAX_ROW - 1) : cells[row] = BlankRow
  <2>1. ASSUME NEW row \in (r + 1)..(MAX_ROW - 1) PROVE cells[row] = BlankRow
    <3>1. row \in Rows /\ row # r
      BY <1>2, ConsoleSizes DEF Rows
    <3>2. s.cells[row] = BlankRow
      BY <1>1, <1>r DEF Tidy
    <3> QED BY <1>4, <3>1, <3>2
  <2> QED BY <2>1
<1>b. cells[MAX_ROW][0] # ">"
  <2>1. MAX_ROW \in Rows /\ MAX_ROW # r
    BY <1>2, ConsoleSizes DEF Rows
  <2> QED BY <1>1, <1>4, <2>1 DEF Tidy
<1>w. PICK t : t = Written(s, c)
  OBVIOUS
<1>6. t = IF k + 1 < MAX_COL THEN [s EXCEPT !.cells = cells, !.col = k + 1]
          ELSE IF r + 1 < MAX_ROW THEN [cells |-> cells, row |-> r + 1, col |-> 0]
          ELSE [cells |-> scroll(cells), row |-> r, col |-> 0]
  BY <1>c, <1>f, <1>k, <1>r, <1>w DEF Written
<1>7. CASE k + 1 < MAX_COL
  <2>1. /\ t \in [cells : Cells, row : Rows, col : Columns]
        /\ t.cells = cells /\ t.row = r /\ t.col = k + 1
    <3>1. k + 1 \in Columns
      BY <1>2, <1>7, ConsoleSizes DEF Columns
    <3>2. t = [s EXCEPT !.cells = cells, !.col = k + 1]
      BY <1>6, <1>7
    <3> QED BY <1>1, <1>4, <1>r, <3>1, <3>2
  <2>2. Tidy(t)
    BY <1>2, <1>4, <1>5, <1>b, <2>1 DEF Tidy
  <2> QED BY <1>2, <1>w, <2>1, <2>2 DEF OnScreen, Screens
<1>8. CASE ~(k + 1 < MAX_COL) /\ r + 1 < MAX_ROW
  <2>0. r + 1 \in Rows
    BY <1>2, <1>8, ConsoleSizes DEF Rows
  <2>1. /\ t \in [cells : Cells, row : Rows, col : Columns]
        /\ t.cells = cells /\ t.row = r + 1 /\ t.col = 0
    BY <1>4, <1>6, <1>8, <2>0, ConsoleSizes
  <2>2. Tidy(t)
    <3>1. \A row \in ((r + 1) + 1)..(MAX_ROW - 1) : cells[row] = BlankRow
      BY <1>2, <1>5
    <3>2. \A col \in 0..(MAX_COL - 1) : cells[r + 1][col] = Blank
      <4>1. r + 1 \in (r + 1)..(MAX_ROW - 1)
        BY <1>2, <1>8, ConsoleSizes
      <4>2. cells[r + 1] = BlankRow
        BY <1>5, <4>1
      <4> QED BY <4>2 DEF BlankRow, Columns
    <3> QED BY <1>b, <2>1, <3>1, <3>2 DEF Tidy
  <2> QED BY <1>8, <1>w, <2>1, <2>2 DEF OnScreen, Screens
<1>9. CASE ~(k + 1 < MAX_COL) /\ ~(r + 1 < MAX_ROW)
  <2>0. r = MAX_ROW - 1
    BY <1>2, <1>9, ConsoleSizes
  <2>1. scroll(cells) \in Cells /\ scroll(cells)[MAX_ROW] = cells[MAX_ROW]
    BY <1>4, ScrollKeeps
  <2>2. /\ t \in [cells : Cells, row : Rows, col : Columns]
        /\ t.row = MAX_ROW - 1 /\ t.col = 0 /\ t.cells = scroll(cells)
    BY <1>2, <1>6, <1>9, <2>0, <2>1, ConsoleSizes
  <2>3. \A row \in ((MAX_ROW - 1) + 1)..(MAX_ROW - 1) : FALSE
    BY ConsoleSizes
  <2>4. t.row # MAX_ROW
    BY <2>2, ConsoleSizes
  <2>5. Tidy(t)
    BY <1>b, <2>1, <2>2, <2>3, <2>4 DEF Tidy
  <2> QED BY <1>2, <1>w, <2>0, <2>2, <2>5 DEF OnScreen, Screens
<1> QED BY <1>7, <1>8, <1>9

LEMMA FourSpaces ==
    LET str == <<" ", " ", " ", " ">>
    IN  /\ str \in Seq({" "}) /\ Len(str) = 4 /\ DOMAIN str = 1..4
        /\ \A i \in 1..4 : str[i] = " "
<1>1. ASSUME NEW C, NEW a \in C
      PROVE  <<a, a, a, a>> \in Seq(C) /\ Len(<<a, a, a, a>>) = 4
  OBVIOUS
<1>s. PICK str : str = <<" ", " ", " ", " ">>
  OBVIOUS
<1>2. str \in Seq({" "}) /\ Len(str) = 4
  BY <1>1, <1>s
<1>3. \A i \in 1..Len(str) : str[i] \in {" "}
  BY <1>2, ElementOfSeq
<1>4. \A i \in 1..4 : str[i] = " "
  BY <1>2, <1>3
<1>5. DOMAIN str = 1..4
  <2>1. ASSUME NEW C, NEW q \in Seq(C) PROVE DOMAIN q = 1..Len(q)
    OBVIOUS
  <2>2. DOMAIN str = 1..Len(str)
    BY <1>2, <2>1
  <2> QED BY <1>2, <2>2
<1> QED BY <1>2, <1>4, <1>5, <1>s

(* A tab stays in every set of screens that is closed under a space.       *)
LEMMA TabInside ==
    ASSUME NEW S \in SUBSET OnScreen, NEW t \in S, \A x \in S : Written(x, " ") \in S
    PROVE  FoldLeft(Written, t, <<" ", " ", " ", " ">>) \in S
<1>s. PICK str : str = <<" ", " ", " ", " ">>
  OBVIOUS
<1>1. /\ str \in Seq({" "}) /\ Len(str) = 4 /\ DOMAIN str = 1..4
      /\ \A i \in 1..4 : str[i] = " "
  BY <1>s, FourSpaces
<1> DEFINE Steps(g) == g = [u \in SUBSET (DOMAIN str) |->
                              IF u = {} THEN t ELSE Written(g[u \ {Max(u)}], str[Max(u)])]
<1>2. FoldLeft(Written, t, str) = (CHOOSE g : Steps(g))[DOMAIN str]
  BY DEF FoldLeft, MapThenFoldSet
<1>3. \E g : Steps(g)
  <2> DEFINE f == [p \in S \X {" "} |-> Written(p[1], p[2])]
  <2>1. f \in [S \X {" "} -> S]
    OBVIOUS
  <2>2. \A x \in S, y \in {" "} : f[x, y] = Written(x, y)
    OBVIOUS
  <2> HIDE DEF f
  <2>3. PICK g \in [SUBSET (1..Len(str)) -> S] : FoldOf(g, 1..Len(str), t, f, str)
    BY <1>1, <2>1, FoldExists
  <2>4. ASSUME NEW u \in SUBSET (1..4), u # {}
        PROVE  f[g[u \ {Max(u)}], str[Max(u)]] = Written(g[u \ {Max(u)}], str[Max(u)])
    <3>1. Max(u) \in 1..4
      BY <2>4, MaxIsMember
    <3>2. str[Max(u)] \in {" "}
      BY <1>1, <3>1
    <3>3. g[u \ {Max(u)}] \in S
      BY <1>1, <2>3
    <3> QED BY <2>2, <3>2, <3>3
  <2>5. Steps(g)
    BY <1>1, <2>3, <2>4 DEF FoldOf
  <2> QED BY <2>5
<1>g. PICK g : g = (CHOOSE h : Steps(h))
  OBVIOUS
<1>4. Steps(g)
  <2> HIDE DEF Steps
  <2> QED BY <1>3, <1>g
<1>5. g[{}] = t
  BY <1>4
<1>6. ASSUME NEW u \in SUBSET (1..4), u # {}, g[u \ {Max(u)}] \in S
      PROVE  g[u] \in S
  <2>1. str[Max(u)] = " "
    BY <1>1, <1>6, MaxIsMember
  <2>2. g[u] = Written(g[u \ {Max(u)}], str[Max(u)])
    BY <1>1, <1>4, <1>6
  <2> QED BY <1>6, <2>1, <2>2
<1> HIDE DEF Steps
<1>7. g[1..4] \in S
  BY <1>5, <1>6, FoldInside
<1> QED BY <1>1, <1>2, <1>7, <1>g, <1>s

(* A character leaves the screen tidy, wherever the cursor is.             *)
LEMMA DisplayTidy ==
    ASSUME NEW s \in Screens, NEW c \in Character
    PROVE  VGA_display_char(s, c) \in Screens
<1>t. PICK t : t = RoomMade(s)
  OBVIOUS
<1>1. /\ t \in OnScreen /\ t \in [cells : Cells, row : Rows, col : Columns] /\ Tidy(t)
      /\ t.row \in Nat /\ t.row < MAX_ROW
  BY <1>t, RoomMadeTidy DEF OnScreen, Screens, Rows
<1>2. CASE c = LineFeed
  <2>e. PICK e : e = [t EXCEPT !.row = t.row + 1, !.col = 0]
    OBVIOUS
  <2>1. t.row + 1 \in Rows
    BY <1>1, ConsoleSizes DEF Rows
  <2>2. /\ e \in [cells : Cells, row : Rows, col : Columns]
        /\ e.row = t.row + 1 /\ e.col = 0 /\ e.cells = t.cells
    BY <1>1, <2>1, <2>e, ConsoleSizes
  <2>3. \A row \in (e.row + 1)..(MAX_ROW - 1) : e.cells[row] = BlankRow
    <3>1. ASSUME NEW row \in (e.row + 1)..(MAX_ROW - 1) PROVE e.cells[row] = BlankRow
      <4>1. row \in (t.row + 1)..(MAX_ROW - 1)
        BY <1>1, <2>2, ConsoleSizes
      <4> QED BY <1>1, <2>2, <4>1 DEF Tidy
    <3> QED BY <3>1
  <2>4. \A col \in 0..(MAX_COL - 1) :
            t.row + 1 < MAX_ROW => e.cells[t.row + 1][col] = Blank
    <3>1. ASSUME NEW col \in 0..(MAX_COL - 1), t.row + 1 < MAX_ROW
          PROVE  e.cells[t.row + 1][col] = Blank
      <4>1. t.row + 1 \in (t.row + 1)..(MAX_ROW - 1)
        BY <1>1, <3>1, ConsoleSizes
      <4>2. e.cells[t.row + 1] = BlankRow
        BY <1>1, <2>2, <4>1 DEF Tidy
      <4> QED BY <4>2 DEF BlankRow, Columns
    <3> QED BY <3>1
  <2>7. e.cells[MAX_ROW][0] # ">"
    BY <1>1, <2>2 DEF Tidy
  <2>5. Tidy(e)
    BY <2>2, <2>3, <2>4, <2>7 DEF Tidy
  <2>6. VGA_display_char(s, c) = e
    BY <1>2, <1>t, <2>e DEF VGA_display_char
  <2> QED BY <2>2, <2>5, <2>6 DEF Screens
<1>3. CASE c # LineFeed /\ c = Tab
  <2>1. VGA_display_char(s, c) = FoldLeft(Written, t, <<" ", " ", " ", " ">>)
    BY <1>3, <1>t DEF VGA_display_char
  <2>2. \A x \in OnScreen : Written(x, " ") \in OnScreen
    <3>1. " " \in Character
      BY DEF Character
    <3> QED BY <3>1, WrittenTidy
  <2> QED BY <1>1, <2>1, <2>2, TabInside DEF OnScreen
<1>4. CASE c # LineFeed /\ c # Tab
  <2>1. VGA_display_char(s, c) = Written(t, c)
    BY <1>4, <1>t DEF VGA_display_char
  <2> QED BY <1>1, <2>1, WrittenTidy DEF OnScreen
<1> QED BY <1>2, <1>3, <1>4

(* A string is displayed by one step for each of its characters.           *)
LEMMA StringSteps ==
    ASSUME NEW s \in Screens, NEW str \in Seq(Character)
    PROVE  \E h \in [0..Len(str) -> Screens] :
                /\ h[0] = s /\ h[Len(str)] = VGA_display_str(s, str)
                /\ \A k \in 1..Len(str) : h[k] = VGA_display_char(h[k - 1], str[k])
<1>n. PICK n \in Nat : n = Len(str)
  OBVIOUS
<1>1. DOMAIN str = 1..n
  BY <1>n
<1> DEFINE Steps(g) ==
        g = [u \in SUBSET (DOMAIN str) |->
                IF u = {} THEN s ELSE VGA_display_char(g[u \ {Max(u)}], str[Max(u)])]
<1>2. VGA_display_str(s, str) = (CHOOSE g : Steps(g))[DOMAIN str]
  BY DEF VGA_display_str, FoldLeft, MapThenFoldSet
<1>3. \E g : Steps(g)
  <2> DEFINE f == [p \in Screens \X Character |-> VGA_display_char(p[1], p[2])]
  <2>1. f \in [Screens \X Character -> Screens]
    BY DisplayTidy
  <2>2. \A x \in Screens, y \in Character : f[x, y] = VGA_display_char(x, y)
    OBVIOUS
  <2> HIDE DEF f
  <2>3. PICK g \in [SUBSET (1..Len(str)) -> Screens] : FoldOf(g, 1..Len(str), s, f, str)
    BY <2>1, FoldExists
  <2>4. ASSUME NEW u \in SUBSET (1..n), u # {}
        PROVE  f[g[u \ {Max(u)}], str[Max(u)]]
                 = VGA_display_char(g[u \ {Max(u)}], str[Max(u)])
    <3>1. Max(u) \in 1..n
      BY <2>4, MaxIsMember
    <3>2. str[Max(u)] \in Character
      BY <1>n, <3>1, ElementOfSeq
    <3>3. g[u \ {Max(u)}] \in Screens
      BY <1>n, <2>3
    <3> QED BY <2>2, <3>2, <3>3
  <2>5. Steps(g)
    BY <1>1, <1>n, <2>3, <2>4 DEF FoldOf
  <2> QED BY <2>5
<1>g. PICK g : g = (CHOOSE h : Steps(h))
  OBVIOUS
<1>4. Steps(g)
  <2> HIDE DEF Steps
  <2> QED BY <1>3, <1>g
<1>5. g[{}] = s
  BY <1>4
<1>6. ASSUME NEW u \in SUBSET (1..n), u # {}, g[u \ {Max(u)}] \in Screens
      PROVE  g[u] \in Screens
  <2>1. Max(u) \in 1..n
    BY <1>6, MaxIsMember
  <2>2. str[Max(u)] \in Character
    BY <1>n, <2>1, ElementOfSeq
  <2>3. g[u] = VGA_display_char(g[u \ {Max(u)}], str[Max(u)])
    BY <1>1, <1>4, <1>6
  <2> QED BY <1>6, <2>2, <2>3, DisplayTidy
<1> HIDE DEF Steps
<1>7. ASSUME NEW k \in 0..n PROVE g[1..k] \in Screens
  <2>1. ASSUME NEW u \in SUBSET (1..k), u # {}, g[u \ {Max(u)}] \in Screens
        PROVE  g[u] \in Screens
    <3>1. u \in SUBSET (1..n)
      <4>1. 1..k \subseteq 1..n
        BY <1>7
      <4> QED BY <4>1
    <3> QED BY <1>6, <2>1, <3>1
  <2>2. k \in Nat
    OBVIOUS
  <2> QED BY <1>5, <2>1, <2>2, FoldInside
<1>8. ASSUME NEW k \in 1..n PROVE g[1..k] = VGA_display_char(g[1..(k - 1)], str[k])
  <2>1. 1..k \in SUBSET (1..n) /\ 1..k # {} /\ k \in Nat
    <3>1. k \in 1..k /\ (\A x \in 1..k : x \in 1..n) /\ k \in Nat
      BY <1>8
    <3> QED BY <3>1
  <2>2. Max(1..k) = k
    <3>1. Max(1..k) \in 1..k /\ \A x \in 1..k : x <= Max(1..k)
      BY <2>1, MaxIsMember
    <3> QED BY <3>1
  <2>3. (1..k) \ {k} = 1..(k - 1)
    OBVIOUS
  <2>4. g[1..k] = VGA_display_char(g[(1..k) \ {Max(1..k)}], str[Max(1..k)])
    BY <1>1, <1>4, <2>1 DEF Steps
  <2> QED BY <2>2, <2>3, <2>4
<1> DEFINE h == [k \in 0..n |-> g[1..k]]
<1>9. h \in [0..n -> Screens] /\ h[n] = g[1..n] /\ h[0] = s
  <2>1. 1..0 = {}
    OBVIOUS
  <2>2. h[0] = g[1..0] /\ h[n] = g[1..n]
    OBVIOUS
  <2>3. h \in [0..n -> Screens]
    BY <1>7
  <2> QED BY <1>5, <2>1, <2>2, <2>3
<1>10. ASSUME NEW k \in 1..n PROVE h[k] = VGA_display_char(h[k - 1], str[k])
  <2>1. h[k] = g[1..k] /\ h[k - 1] = g[1..(k - 1)]
    OBVIOUS
  <2> QED BY <1>8, <2>1
<1> HIDE DEF h
<1> QED BY <1>1, <1>2, <1>9, <1>10, <1>g, <1>n

LEMMA StringTidy ==
    ASSUME NEW s \in Screens, NEW str \in Seq(Character)
    PROVE  VGA_display_str(s, str) \in Screens
<1>1. PICK h \in [0..Len(str) -> Screens] : h[Len(str)] = VGA_display_str(s, str)
  BY StringSteps
<1>2. Len(str) \in 0..Len(str)
  OBVIOUS
<1> QED BY <1>1, <1>2

(* Erasing clears the cell that becomes the cursor's, or one that is free. *)
LEMMA EraseTidy ==
    ASSUME NEW s \in Screens
    PROVE  VGA_erase(s) \in Screens
<1>1. /\ s \in [cells : Cells, row : Rows, col : Columns] /\ Tidy(s)
      /\ s.row \in Nat /\ s.row <= MAX_ROW /\ s.col \in Nat /\ s.col < MAX_COL
      /\ s.cells \in Cells /\ s.row \in Rows /\ s.col \in Columns
  BY ConsoleSizes DEF Screens, Rows, Columns
<1>k. PICK k : k = IF s.col - 1 >= 2 THEN s.col - 1 ELSE s.col
  OBVIOUS
<1>r. PICK r : r = s.row
  OBVIOUS
<1>c. PICK cells : cells = [s.cells EXCEPT ![r] = [s.cells[r] EXCEPT ![k] = Blank]]
  OBVIOUS
<1>2. k \in Columns /\ k \in Nat /\ k <= s.col /\ s.col <= k + 1 /\ r \in Rows
  BY <1>1, <1>k, <1>r, ConsoleSizes DEF Columns
<1>3. s.cells[r] \in [Columns -> Character]
  BY <1>1, <1>2 DEF Cells
<1>4. [s.cells[r] EXCEPT ![k] = Blank] \in [Columns -> Character]
  BY <1>2, <1>3, ConsoleSizes
<1>5. /\ cells \in Cells /\ cells[r] = [s.cells[r] EXCEPT ![k] = Blank]
      /\ \A row \in Rows : row # r => cells[row] = s.cells[row]
  BY <1>1, <1>2, <1>4, <1>c DEF Cells
<1>e. PICK e : e = [s EXCEPT !.cells = cells, !.col = k]
  OBVIOUS
<1>6. /\ e \in [cells : Cells, row : Rows, col : Columns]
      /\ e.cells = cells /\ e.row = r /\ e.col = k
  BY <1>1, <1>2, <1>5, <1>e, <1>r
<1>7. Tidy(e)
  <2>1. r = MAX_ROW => k = 0
    BY <1>1, <1>k, <1>r, ConsoleSizes DEF Tidy
  <2>2. ASSUME NEW row \in (r + 1)..(MAX_ROW - 1) PROVE cells[row] = BlankRow
    <3>1. row \in Rows /\ row # r
      BY <1>1, <1>r, ConsoleSizes DEF Rows
    <3>2. s.cells[row] = BlankRow
      BY <1>1, <1>r DEF Tidy
    <3> QED BY <1>5, <3>1, <3>2
  <2>5. cells[MAX_ROW][0] # ">"
    <3>1. MAX_ROW \in Rows /\ 0 \in Columns
      BY ConsoleSizes DEF Rows
    <3>2. CASE r = MAX_ROW
      <4>1. cells[r][0] \in {s.cells[r][0], Blank}
        BY <1>2, <1>3, <1>5, <3>1
      <4>2. Blank # ">"
        BY DEF Blank
      <4> QED BY <1>1, <3>2, <4>1, <4>2 DEF Tidy
    <3>3. CASE r # MAX_ROW
      BY <1>1, <1>5, <3>1, <3>3 DEF Tidy
    <3> QED BY <3>2, <3>3
  <2>3. CASE r = MAX_ROW - 1 /\ s.col = 0
    <3>1. k = 0
      BY <1>k, <2>3
    <3> QED BY <1>6, <2>1, <2>2, <2>3, <2>5, <3>1 DEF Tidy
  <2>4. CASE ~(r = MAX_ROW - 1 /\ s.col = 0)
    <3>1. ASSUME NEW col \in k..(MAX_COL - 1), r < MAX_ROW PROVE cells[r][col] = Blank
      <4>1. col \in Columns
        BY <1>2 DEF Columns
      <4>2. CASE col = k
        BY <1>3, <1>5, <4>1, <4>2
      <4>3. CASE col # k
        <5>1. col \in s.col..(MAX_COL - 1)
          BY <1>1, <1>2, <4>3, ConsoleSizes
        <5>2. s.cells[r][col] = Blank
          BY <1>1, <1>r, <2>4, <3>1, <5>1 DEF Tidy
        <5> QED BY <1>3, <1>5, <4>1, <4>3, <5>2
      <4> QED BY <4>2, <4>3
    <3> QED BY <1>6, <2>1, <2>2, <2>5, <3>1 DEF Tidy
  <2> QED BY <2>3, <2>4
<1>8. VGA_erase(s) = e
  BY <1>c, <1>e, <1>k, <1>r DEF VGA_erase
<1> QED BY <1>6, <1>7, <1>8 DEF Screens

-----------------------------------------------------------------------------
(* Prompts.  A row with the prompt's first character can be a prompt       *)
(* already, or one whose second character is yet to come.                  *)
Space == " "
OnPrompt(s) == s.cells[s.row][0] = ">" /\ s.cells[s.row][1] = Space
Opened(s) == s.cells[s.row][0] = ">" /\ s.col = 1
Plain(s) == ~OnPrompt(s) /\ ~Opened(s)

(* The row that a character is written in.                                 *)
RowWith(s, c) == [(IF s.col = 0 THEN BlankRow ELSE s.cells[s.row]) EXCEPT ![s.col] = c]

LEMMA WrittenRow ==
    ASSUME NEW s \in OnScreen, NEW c \in Character, NEW t, t = Written(s, c)
    PROVE  /\ s.col + 1 < MAX_COL => /\ t.row = s.row /\ t.col = s.col + 1
                                     /\ t.cells[t.row] = RowWith(s, c)
           /\ s.col + 1 >= MAX_COL => /\ t.col = 0
                                      /\ t.cells[t.row] \in {BlankRow, RowWith(s, c)}
           /\ RowWith(s, c) = [[col \in Columns |->
                    IF s.col = 0 THEN Blank ELSE s.cells[s.row][col]] EXCEPT ![s.col] = c]
<1>1. /\ s \in [cells : Cells, row : Rows, col : Columns] /\ Tidy(s)
      /\ s.row \in Nat /\ s.row < MAX_ROW /\ s.col \in Nat /\ s.col < MAX_COL
      /\ s.cells \in Cells /\ s.row \in Rows /\ s.col \in Columns
  BY ConsoleSizes DEF OnScreen, Screens, Rows, Columns
<1>r. PICK r : r = s.row
  OBVIOUS
<1>k. PICK k : k = s.col
  OBVIOUS
<1>f. PICK fresh : fresh = IF k = 0 THEN clear_row(s.cells, r) ELSE s.cells
  OBVIOUS
<1>c. PICK cells : cells = [fresh EXCEPT ![r][k] = c]
  OBVIOUS
<1>2. /\ r \in Rows /\ r \in Nat /\ r < MAX_ROW /\ k \in Columns /\ k \in Nat /\ k < MAX_COL
  BY <1>1, <1>k, <1>r
<1>3. fresh \in Cells /\ fresh[r] = IF k = 0 THEN BlankRow ELSE s.cells[r]
  BY <1>1, <1>2, <1>f, ConsoleSizes DEF Cells, clear_row
<1>4. cells \in Cells /\ cells[r] = RowWith(s, c)
  <2>1. fresh[r] \in [Columns -> Character]
    BY <1>2, <1>3 DEF Cells
  <2>2. [fresh[r] EXCEPT ![k] = c] \in [Columns -> Character]
    BY <1>2, <2>1
  <2>3. cells = [fresh EXCEPT ![r] = [fresh[r] EXCEPT ![k] = c]]
    BY <1>c
  <2> QED BY <1>2, <1>3, <1>k, <1>r, <2>2, <2>3 DEF Cells, RowWith
<1>5. t = IF k + 1 < MAX_COL THEN [s EXCEPT !.cells = cells, !.col = k + 1]
          ELSE IF r + 1 < MAX_ROW THEN [cells |-> cells, row |-> r + 1, col |-> 0]
          ELSE [cells |-> scroll(cells), row |-> r, col |-> 0]
  BY <1>c, <1>f, <1>k, <1>r DEF Written
<1>6. s.col + 1 < MAX_COL => /\ t.row = s.row /\ t.col = s.col + 1
                             /\ t.cells[t.row] = RowWith(s, c)
  <2>1. ASSUME k + 1 < MAX_COL
        PROVE  t.row = r /\ t.col = k + 1 /\ t.cells = cells
    <3>1. t = [s EXCEPT !.cells = cells, !.col = k + 1]
      BY <1>5, <2>1
    <3> QED BY <1>1, <1>r, <3>1
  <2> QED BY <1>4, <1>k, <1>r, <2>1
<1>7. ASSUME s.col + 1 >= MAX_COL
      PROVE  t.col = 0 /\ t.cells[t.row] \in {BlankRow, RowWith(s, c)}
  <2>0. ~(k + 1 < MAX_COL)
    BY <1>2, <1>7, <1>k, ConsoleSizes
  <2>1. CASE r + 1 < MAX_ROW
    <3>1. t = [cells |-> cells, row |-> r + 1, col |-> 0]
      BY <1>5, <2>0, <2>1
    <3>2. t.cells[t.row] = cells[r + 1] /\ t.col = 0
      BY <3>1
    <3>3. cells[r + 1] = s.cells[r + 1]
      <4>1. r + 1 \in Rows /\ r + 1 # r
        BY <1>2, <2>1, ConsoleSizes DEF Rows
      <4>2. cells = [fresh EXCEPT ![r] = [fresh[r] EXCEPT ![k] = c]]
        BY <1>c
      <4>3. fresh[r + 1] = s.cells[r + 1]
        BY <1>1, <1>2, <1>f, <4>1 DEF Cells, clear_row
      <4> QED BY <1>3, <4>1, <4>2, <4>3 DEF Cells
    <3>4. s.cells[r + 1] = BlankRow
      <4>1. r + 1 \in (r + 1)..(MAX_ROW - 1)
        BY <1>2, <2>1, ConsoleSizes
      <4> QED BY <1>1, <1>r, <4>1 DEF Tidy
    <3> QED BY <3>2, <3>3, <3>4
  <2>2. CASE ~(r + 1 < MAX_ROW)
    <3>0. r = MAX_ROW - 1
      BY <1>2, <2>2, ConsoleSizes
    <3>1. t = [cells |-> scroll(cells), row |-> r, col |-> 0]
      BY <1>5, <2>0, <2>2
    <3>2. t.cells[t.row] = scroll(cells)[r] /\ t.col = 0
      BY <3>1
    <3>3. scroll(cells)[r] = cells[r]
      BY <1>4, <3>0, ScrollKeeps
    <3> QED BY <1>4, <3>2, <3>3
  <2> QED BY <2>1, <2>2
<1>8. RowWith(s, c) = [[col \in Columns |->
            IF s.col = 0 THEN Blank ELSE s.cells[s.row][col]] EXCEPT ![s.col] = c]
  <2>1. s.cells[s.row] \in [Columns -> Character]
    BY <1>1 DEF Cells
  <2>2. (IF s.col = 0 THEN BlankRow ELSE s.cells[s.row])
        = [col \in Columns |-> IF s.col = 0 THEN Blank ELSE s.cells[s.row][col]]
    BY <2>1 DEF BlankRow
  <2> QED BY <2>2 DEF RowWith
<1> QED BY <1>6, <1>7, <1>8

(* Other characters than the prompt's first make no prompt.                *)
LEMMA WrittenPlain ==
    ASSUME NEW s \in OnScreen, NEW c \in Character, c # ">", NEW t, t = Written(s, c)
    PROVE  /\ ~Opened(s) => ~Opened(t)
           /\ Plain(s) => Plain(t)
<1>r. PICK row : row = RowWith(s, c)
  OBVIOUS
<1>1. /\ s.col + 1 < MAX_COL => /\ t.row = s.row /\ t.col = s.col + 1 /\ t.cells[t.row] = row
      /\ s.col + 1 >= MAX_COL => t.col = 0 /\ t.cells[t.row] \in {BlankRow, row}
      /\ row = [[col \in Columns |->
                    IF s.col = 0 THEN Blank ELSE s.cells[s.row][col]] EXCEPT ![s.col] = c]
  BY <1>r, WrittenRow
<1>2. s.col \in Columns /\ s.col \in Nat /\ 0 \in Columns /\ 1 \in Columns
  BY ConsoleSizes DEF OnScreen, Screens, Columns
<1>3. /\ row[0] = IF s.col = 0 THEN c ELSE s.cells[s.row][0]
      /\ s.col >= 2 => row[1] = s.cells[s.row][1]
  BY <1>1, <1>2
<1>4. BlankRow[0] # ">"
  BY <1>2 DEF BlankRow, Blank
<1>5. ASSUME ~Opened(s) PROVE ~Opened(t)
  <2>1. CASE s.col + 1 < MAX_COL
    <3>1. t.col = 1 => s.col = 0
      BY <1>1, <1>2, <2>1
    <3> QED BY <1>1, <1>3, <2>1, <3>1 DEF Opened
  <2>2. CASE s.col + 1 >= MAX_COL
    BY <1>1, <2>2 DEF Opened
  <2> QED BY <1>2, <2>1, <2>2, ConsoleSizes
<1>6. ASSUME Plain(s) PROVE ~OnPrompt(t)
  <2>1. ~(row[0] = ">" /\ row[1] = Space)
    <3>1. CASE s.col = 0
      BY <1>3, <3>1
    <3>2. CASE s.col = 1
      BY <1>3, <1>6, <3>2 DEF Plain, Opened
    <3>3. CASE s.col >= 2
      BY <1>3, <1>6, <3>3 DEF Plain, OnPrompt
    <3>4. s.col = 0 \/ s.col = 1 \/ s.col >= 2
      BY <1>2
    <3> QED BY <3>1, <3>2, <3>3, <3>4
  <2>2. t.cells[t.row] \in {BlankRow, row}
    BY <1>1, <1>2, ConsoleSizes
  <2> QED BY <1>4, <2>1, <2>2 DEF OnPrompt
<1> QED BY <1>5, <1>6 DEF Plain

(* Where a tab or another character starts.                                *)
LEMMA RoomPlain ==
    ASSUME NEW s \in Screens, NEW t, t = RoomMade(s)
    PROVE  t \in OnScreen /\ (Plain(t) \/ t = s)
<1>1. t \in OnScreen
  BY RoomMadeTidy
<1>2. CASE s.row < MAX_ROW
  BY <1>1, <1>2 DEF RoomMade
<1>3. CASE ~(s.row < MAX_ROW)
  <2>1. s \in [cells : Cells, row : Rows, col : Columns] /\ Tidy(s) /\ s.row = MAX_ROW
    BY <1>3, ConsoleSizes DEF Screens, Rows
  <2>2. t = [s EXCEPT !.cells = clear_row(scroll(s.cells), MAX_ROW - 1), !.row = MAX_ROW - 1]
    BY <1>3 DEF RoomMade
  <2>3. t.cells = [scroll(s.cells) EXCEPT ![MAX_ROW - 1] = BlankRow] /\ t.row = MAX_ROW - 1
    BY <2>1, <2>2 DEF clear_row
  <2>4. scroll(s.cells) \in Cells /\ MAX_ROW - 1 \in Rows
    BY <2>1, ConsoleSizes, ScrollKeeps DEF Rows
  <2>5. t.cells[t.row] = BlankRow
    BY <2>3, <2>4 DEF Cells
  <2>6. BlankRow[0] # ">"
    BY ConsoleSizes DEF BlankRow, Blank
  <2> QED BY <1>1, <2>5, <2>6 DEF Plain, OnPrompt, Opened
<1> QED BY <1>2, <1>3

(* A character other than the prompt's first leaves a plain row plain, and *)
(* a line feed leads to a plain one.                                       *)
LEMMA DisplayPlain ==
    ASSUME NEW s \in Screens, NEW c \in Character, c # ">", NEW e, e = VGA_display_char(s, c)
    PROVE  /\ ~Opened(s) => ~Opened(e)
           /\ Plain(s) \/ c = LineFeed => Plain(e)
           /\ c = LineFeed => e.col = 0
<1>t. PICK t : t = RoomMade(s)
  OBVIOUS
<1>1. /\ t \in OnScreen /\ (Plain(t) \/ t = s)
      /\ t \in [cells : Cells, row : Rows, col : Columns] /\ Tidy(t)
      /\ t.row \in Nat /\ t.row < MAX_ROW
  BY <1>t, RoomPlain DEF OnScreen, Screens, Rows
<1>2. (~Opened(s) => ~Opened(t)) /\ (Plain(s) => Plain(t))
  BY <1>1 DEF Plain
<1>3. CASE c = LineFeed
  <2>1. e = [t EXCEPT !.row = t.row + 1, !.col = 0]
    BY <1>3, <1>t DEF VGA_display_char
  <2>2. e.row = t.row + 1 /\ e.col = 0 /\ e.cells = t.cells
    BY <1>1, <2>1
  <2>3. e.cells[e.row][0] # ">"
    <3>1. CASE t.row + 1 < MAX_ROW
      <4>1. t.row + 1 \in (t.row + 1)..(MAX_ROW - 1)
        BY <1>1, <3>1, ConsoleSizes
      <4>2. t.cells[t.row + 1] = BlankRow
        BY <1>1, <4>1 DEF Tidy
      <4>3. BlankRow[0] # ">"
        BY ConsoleSizes DEF BlankRow, Blank
      <4> QED BY <2>2, <4>2, <4>3
    <3>2. CASE ~(t.row + 1 < MAX_ROW)
      <4>1. t.row + 1 = MAX_ROW
        BY <1>1, <3>2, ConsoleSizes
      <4> QED BY <1>1, <2>2, <4>1 DEF Tidy
    <3> QED BY <3>1, <3>2
  <2> QED BY <2>2, <2>3 DEF Plain, OnPrompt, Opened
<1>4. CASE c # LineFeed /\ c = Tab
  <2>1. e = FoldLeft(Written, t, <<" ", " ", " ", " ">>)
    BY <1>4, <1>t DEF VGA_display_char
  <2> DEFINE Shut == {x \in OnScreen : ~Opened(x)}
             Plains == {x \in OnScreen : Plain(x)}
  <2>2. " " \in Character /\ " " # ">"
    BY DEF Character
  <2>3. \A x \in OnScreen : /\ Written(x, " ") \in OnScreen
                            /\ ~Opened(x) => ~Opened(Written(x, " "))
                            /\ Plain(x) => Plain(Written(x, " "))
    BY <2>2, WrittenTidy, WrittenPlain
  <2>4. Shut \in SUBSET OnScreen /\ \A x \in Shut : Written(x, " ") \in Shut
    BY <2>3
  <2>5. Plains \in SUBSET OnScreen /\ \A x \in Plains : Written(x, " ") \in Plains
    BY <2>3
  <2>6. t \in Shut => e \in Shut
    <3> HIDE DEF Shut
    <3> QED BY <2>1, <2>4, TabInside
  <2>7. t \in Plains => e \in Plains
    <3> HIDE DEF Plains
    <3> QED BY <2>1, <2>5, TabInside
  <2> QED BY <1>1, <1>2, <1>4, <2>6, <2>7
<1>5. CASE c # LineFeed /\ c # Tab
  <2>1. e = Written(t, c)
    BY <1>5, <1>t DEF VGA_display_char
  <2>2. (~Opened(t) => ~Opened(e)) /\ (Plain(t) => Plain(e))
    BY <1>1, <2>1, WrittenPlain
  <2> QED BY <1>2, <1>5, <2>2
<1> QED BY <1>3, <1>4, <1>5

(* The prompt at the start of a line.                                      *)
LEMMA PromptOpens ==
    ASSUME NEW s \in Screens, s.col = 0, NEW e, e = VGA_display_char(s, ">")
    PROVE  /\ e \in Screens /\ e.col = 1 /\ e.row < MAX_ROW
           /\ e.cells[e.row][0] = ">" /\ e.cells[e.row][1] # Space
<1>t. PICK t : t = RoomMade(s)
  OBVIOUS
<1>0. ">" \in Character /\ ">" # LineFeed /\ ">" # Tab
  BY DEF Character, LineFeed, Tab
<1>1. t \in OnScreen /\ t.col = 0
  <2>1. t \in OnScreen
    BY <1>t, RoomPlain
  <2>2. CASE s.row < MAX_ROW
    BY <1>t, <2>1, <2>2 DEF RoomMade
  <2>3. CASE ~(s.row < MAX_ROW)
    <3>1. t = [s EXCEPT !.cells = clear_row(scroll(s.cells), MAX_ROW - 1), !.row = MAX_ROW - 1]
      BY <1>t, <2>3 DEF RoomMade
    <3>2. s \in [cells : Cells, row : Rows, col : Columns]
      BY DEF Screens
    <3> QED BY <2>1, <3>1, <3>2
  <2> QED BY <2>2, <2>3
<1>2. e = Written(t, ">")
  BY <1>0, <1>t DEF VGA_display_char
<1>3. /\ e.row = t.row /\ e.col = 1 /\ e.cells[e.row] = RowWith(t, ">")
      /\ RowWith(t, ">") = [[col \in Columns |-> Blank] EXCEPT ![0] = ">"]
  <2>1. 0 + 1 < MAX_COL
    BY ConsoleSizes
  <2>2. /\ t.col + 1 < MAX_COL => /\ e.row = t.row /\ e.col = t.col + 1
                                  /\ e.cells[e.row] = RowWith(t, ">")
        /\ RowWith(t, ">") = [[col \in Columns |->
                IF t.col = 0 THEN Blank ELSE t.cells[t.row][col]] EXCEPT ![t.col] = ">"]
    BY <1>0, <1>1, <1>2, WrittenRow
  <2> QED BY <1>1, <2>1, <2>2
<1>4. 0 \in Columns /\ 1 \in Columns /\ Blank # Space
  BY ConsoleSizes DEF Columns, Blank, Space
<1>5. e \in Screens
  BY <1>0, DisplayTidy
<1> QED BY <1>1, <1>3, <1>4, <1>5 DEF OnScreen

LEMMA PromptCloses ==
    ASSUME NEW s \in Screens, Opened(s), NEW e, e = VGA_display_char(s, Space)
    PROVE  e.col = 2 /\ OnPrompt(e) /\ ~Opened(e)
<1>0. Space \in Character /\ Space # LineFeed /\ Space # Tab
  BY DEF Character, LineFeed, Tab, Space
<1>1. s \in OnScreen /\ s.col = 1 /\ s.cells[s.row][0] = ">"
  BY ConsoleSizes DEF Screens, Tidy, OnScreen, Opened, Rows
<1>2. e = Written(s, Space)
  BY <1>0, <1>1 DEF VGA_display_char, RoomMade, OnScreen
<1>3. /\ e.row = s.row /\ e.col = 2
      /\ e.cells[e.row] = [[col \in Columns |-> s.cells[s.row][col]] EXCEPT ![1] = Space]
  <2>1. 1 + 1 < MAX_COL
    BY ConsoleSizes
  <2>2. /\ s.col + 1 < MAX_COL => /\ e.row = s.row /\ e.col = s.col + 1
                                  /\ e.cells[e.row] = RowWith(s, Space)
        /\ RowWith(s, Space) = [[col \in Columns |->
                IF s.col = 0 THEN Blank ELSE s.cells[s.row][col]] EXCEPT ![s.col] = Space]
    BY <1>0, <1>1, <1>2, WrittenRow
  <2> QED BY <1>1, <2>1, <2>2
<1>4. 0 \in Columns /\ 1 \in Columns
  BY ConsoleSizes DEF Columns
<1> QED BY <1>1, <1>3, <1>4 DEF OnPrompt, Opened

-----------------------------------------------------------------------------
(* The invariant.                                                          *)
ConsoleInv ==
    /\ Screen \in Screens
    /\ printing \in [text : Seq(Character), line : BOOLEAN]
    /\ left \in Seq(Character)

LEMMA MessagesAreTexts ==
    /\ CONSOLE_PROMPT \in Seq(Character) /\ <<LineFeed>> \in Seq(Character)
    /\ <<>> \in Seq(Character) /\ Welcome \in Seq(Character)
    /\ \A text \in Messages \cup Reports : text \in Seq(Character)
    /\ \A row \in Below : row \in [Columns -> Character]
<1>1. LineFeed \in Character
  BY DEF Character
<1>2. ASSUME NEW c \in Character PROVE <<c>> \in Seq(Character)
  OBVIOUS
<1>3. STRING \subseteq Character
  BY DEF Character
<1>4. ASSUME NEW text \in Seq(STRING) PROVE text \in Seq(Character)
  <2>1. \A i \in 1..Len(text) : text[i] \in Character
    BY <1>3, ElementOfSeq
  <2> QED BY <2>1, SeqDef
<1>5. ASSUME NEW row \in Below PROVE row \in [Columns -> Character]
  <2>1. row \in [Columns -> STRING]
    BY ConsoleAssumption
  <2> QED BY <1>3, <2>1
<1> QED BY <1>1, <1>2, <1>4, <1>5, ConsoleAssumption, ConsoleSizes

LEMMA KeysAreCharacters ==
    ASSUME NEW scan \in ScanCodes, scan \in 1..LastIndexed, NEW c \in KeyChars(scan)
    PROVE  c \in Character
<1>1. CASE scan <= TableSize
  <2>1. scan \in 1..TableSize
    BY <1>1 DEF LastIndexed, TableSize
  <2>2. scan \in DOMAIN pressed_keys
    BY <2>1, ConsoleAssumption
  <2>3. \A k \in DOMAIN pressed_keys : pressed_keys[k] \in {Backspace, Tab, LineFeed, "A", NoChar}
    BY DEF pressed_keys
  <2>4. c = pressed_keys[scan]
    BY <1>1 DEF KeyChars
  <2> QED BY <2>2, <2>3, <2>4 DEF Character
<1>2. CASE ~(scan <= TableSize)
  <2>1. c \in STRING
    BY <1>2, ConsoleAssumption DEF KeyChars
  <2> QED BY <2>1 DEF Character
<1> QED BY <1>1, <1>2

LEMMA ToDisplayIsText ==
    ASSUME NEW call \in [text : Seq(Character), line : BOOLEAN], NEW found \in BOOLEAN
    PROVE  ToDisplay(call, found) \in Seq(Character)
<1>1. /\ PromptBreak(found) \in Seq(Character)
      /\ LineEnd(call) \in Seq(Character)
      /\ (IF call.line /\ found THEN CONSOLE_PROMPT ELSE <<>>) \in Seq(Character)
      /\ call.text \in Seq(Character)
  BY MessagesAreTexts DEF PromptBreak, LineEnd
<1> QED BY <1>1 DEF ToDisplay

LEMMA ShowTidy ==
    ASSUME NEW s \in Screens, Show(s)
    PROVE  Screen' \in Screens
<1>1. s = [cells |-> s.cells, row |-> s.row, col |-> s.col]
  BY DEF Screens
<1>2. Screen' = [cells |-> s.cells, row |-> s.row, col |-> s.col]
  BY DEF Screen, Show
<1> QED BY <1>1, <1>2

LEMMA KeyShownTidy ==
    ASSUME Screen \in Screens, NEW c \in Character
    PROVE  KeyShown(c) \in Screens
<1>1. Lower(c) \in Character
  BY DEF Lower, Character
<1>2. /\ VGA_display_char(Screen, Lower(c)) \in Screens
      /\ VGA_display_char(Screen, c) \in Screens
      /\ VGA_erase(Screen) \in Screens
  BY <1>1, DisplayTidy, EraseTidy
<1>3. VGA_display_str(VGA_display_char(Screen, c), CONSOLE_PROMPT) \in Screens
  BY <1>2, ConsoleSizes, StringTidy
<1> QED BY <1>2, <1>3 DEF KeyShown

LEMMA ConsoleInitInv == ConsoleInit => ConsoleInv
<1> SUFFICES ASSUME ConsoleInit PROVE ConsoleInv
  OBVIOUS
<1>1. PICK below \in Below :
        vga_buff = [row \in Rows |-> IF row < MAX_ROW THEN BlankRow ELSE below]
  BY DEF ConsoleInit, VGA_clear
<1>2. current_row = 0 /\ current_col = 0
  BY DEF ConsoleInit, VGA_clear
<1>3. vga_buff \in Cells
  BY <1>1, ConsoleSizes, MessagesAreTexts DEF Cells
<1>4. Screen \in [cells : Cells, row : Rows, col : Columns]
  BY <1>2, <1>3, ConsoleSizes DEF Screen
<1>5. \A row \in 0..(MAX_ROW - 1) : vga_buff[row] = BlankRow
  BY <1>1, ConsoleSizes DEF Rows
<1>6. \A col \in 0..(MAX_COL - 1) : vga_buff[0][col] = Blank
  <2>1. 0 \in 0..(MAX_ROW - 1)
    BY ConsoleSizes
  <2>2. vga_buff[0] = BlankRow
    BY <1>5, <2>1
  <2> QED BY <2>2 DEF BlankRow, Columns
<1>7. Tidy(Screen)
  <2>1. Screen.row = 0 /\ Screen.col = 0 /\ Screen.cells = vga_buff
    BY <1>2 DEF Screen
  <2>2. \A row \in (0 + 1)..(MAX_ROW - 1) : vga_buff[row] = BlankRow
    BY <1>5, ConsoleSizes
  <2>3. vga_buff[MAX_ROW][0] # ">"
    <3>1. MAX_ROW \in Rows /\ ~(MAX_ROW < MAX_ROW)
      BY ConsoleSizes DEF Rows
    <3>2. vga_buff[MAX_ROW] = below
      BY <1>1, <3>1
    <3>3. CONSOLE_PROMPT[1] = ">"
      BY DEF CONSOLE_PROMPT
    <3> QED BY <3>2, <3>3, ConsoleAssumption
  <2>4. 0 # MAX_ROW
    BY ConsoleSizes
  <2> QED BY <1>6, <2>1, <2>2, <2>3, <2>4 DEF Tidy
<1>8. printing \in [text : Seq(Character), line : BOOLEAN]
  BY MessagesAreTexts DEF ConsoleInit, NoCall
<1>9. left \in Seq(Character)
  BY MessagesAreTexts DEF ConsoleInit
<1> QED BY <1>4, <1>7, <1>8, <1>9 DEF ConsoleInv, Screens

LEMMA ConsoleNextInv == ConsoleInv /\ [ConsoleNext]_consoleVars => ConsoleInv'
<1> SUFFICES ASSUME ConsoleInv, [ConsoleNext]_consoleVars PROVE ConsoleInv'
  OBVIOUS
<1>0. /\ Screen \in Screens
      /\ printing \in [text : Seq(Character), line : BOOLEAN]
      /\ left \in Seq(Character)
  BY DEF ConsoleInv
<1>s. UNCHANGED screenVars => Screen' = Screen
  BY DEF screenVars, Screen
<1>1. ASSUME NEW scan \in ScanCodes, CON_key_action(scan) PROVE ConsoleInv'
  <2>1. Screen' \in Screens
    <3>1. CASE KeyPressed(scan)
      <4>1. PICK c \in KeyChars(scan) : Show(KeyShown(c))
        BY <3>1 DEF KeyPressed
      <4>2. scan \in 1..LastIndexed
        BY <3>1 DEF KeyPressed
      <4>3. c \in Character
        BY <4>2, KeysAreCharacters
      <4>4. KeyShown(c) \in Screens
        BY <1>0, <4>3, KeyShownTidy
      <4> QED BY <4>1, <4>4, ShowTidy
    <3>2. CASE KeyOfModifier(scan)
      BY <1>0, <1>s, <3>2 DEF KeyOfModifier
    <3> QED BY <1>1, <3>1, <3>2 DEF CON_key_action
  <2> QED BY <1>0, <1>1, <2>1 DEF ConsoleInv, CON_key_action, printVars
<1>2. ASSUME NEW text \in Messages, printk(text) \/ printkln(text) PROVE ConsoleInv'
  <2>1. PICK line \in BOOLEAN : Begin(text, line)
    BY <1>2 DEF printk, printkln
  <2>2. printing' \in [text : Seq(Character), line : BOOLEAN]
    BY <2>1, MessagesAreTexts DEF Begin
  <2> QED BY <1>0, <1>s, <2>1, <2>2 DEF ConsoleInv, Begin
<1>3. CASE is_prompt
  <2>1. left' \in Seq(Character)
    BY <1>0, <1>3, ToDisplayIsText DEF is_prompt
  <2> QED BY <1>0, <1>3, <1>s, <2>1 DEF ConsoleInv, is_prompt
<1>4. CASE DisplayNext
  <2>1. Head(left) \in Character /\ Tail(left) \in Seq(Character)
    BY <1>0, <1>4 DEF DisplayNext
  <2>2. VGA_display_char(Screen, Head(left)) \in Screens
    BY <1>0, <2>1, DisplayTidy
  <2>3. Screen' \in Screens
    BY <1>4, <2>2, ShowTidy DEF DisplayNext
  <2>4. printing' \in [text : Seq(Character), line : BOOLEAN]
    BY <1>0, <1>4, MessagesAreTexts DEF DisplayNext, NoCall
  <2> QED BY <1>4, <2>1, <2>3, <2>4 DEF ConsoleInv, DisplayNext
<1>5. CASE Report
  <2>1. Screen' \in Screens
    <3>1. ASSUME NEW text \in Reports,
                 Show(VGA_display_str(Screen,
                        ToDisplay([text |-> text, line |-> TRUE], PromptSeen)))
          PROVE  Screen' \in Screens
      <4>1. [text |-> text, line |-> TRUE] \in [text : Seq(Character), line : BOOLEAN]
        BY MessagesAreTexts
      <4>2. PromptSeen \in BOOLEAN
        BY DEF PromptSeen
      <4>3. ToDisplay([text |-> text, line |-> TRUE], PromptSeen) \in Seq(Character)
        BY <4>1, <4>2, ToDisplayIsText
      <4> QED BY <1>0, <3>1, <4>3, ShowTidy, StringTidy
    <3>2. ASSUME Show(VGA_display_char(Screen, LineFeed)) PROVE Screen' \in Screens
      <4>1. LineFeed \in Character
        BY DEF Character
      <4>2. VGA_display_char(Screen, LineFeed) \in Screens
        BY <1>0, <4>1, DisplayTidy
      <4> QED BY <3>2, <4>2, ShowTidy
    <3> QED BY <1>5, <3>1, <3>2 DEF Report
  <2> QED BY <1>0, <1>5, <2>1 DEF ConsoleInv, Report, printVars
<1>6. CASE sti
  BY <1>0, <1>6, <1>s DEF ConsoleInv, sti
<1>7. CASE UNCHANGED consoleVars
  BY <1>0, <1>7, <1>s DEF ConsoleInv, consoleVars, printVars
<1> QED BY <1>1, <1>2, <1>3, <1>4, <1>5, <1>6, <1>7 DEF ConsoleNext

(* The cursor stays on the screen or at the start of the row below it, and *)
(* behind it the screen is blank, whatever is displayed, typed, erased and *)
(* reported, on a screen of any size: VGA_display_char and VGA_erase.      *)
THEOREM ScreenBlankBehind == ConsoleSpec => []BlankBehind
<1>1. ConsoleInv => BlankBehind
  <2> SUFFICES ASSUME ConsoleInv PROVE BlankBehind
    OBVIOUS
  <2>1. Screen.row = current_row /\ Screen.col = current_col /\ Screen.cells = vga_buff
    BY DEF Screen
  <2>2. Screen \in [cells : Cells, row : Rows, col : Columns] /\ Tidy(Screen)
    BY DEF ConsoleInv, Screens
  <2> QED BY <2>1, <2>2, ConsoleSizes DEF BlankBehind, JustWrapped, Tidy
<1> QED BY <1>1, ConsoleInitInv, ConsoleNextInv, PTL DEF ConsoleSpec

LEMMA LastThree ==
    ASSUME NEW C, NEW x \in Seq(C), NEW a \in C, NEW b \in C, NEW c \in C,
           NEW q, q = (x \o <<a>>) \o <<b, c>>
    PROVE  /\ q \in Seq(C) /\ Len(q) = Len(x) + 3
           /\ q[Len(x) + 1] = a /\ q[Len(x) + 2] = b /\ q[Len(x) + 3] = c
<1>1. x \o <<a>> \in Seq(C) /\ Len(x \o <<a>>) = Len(x) + 1 /\ (x \o <<a>>)[Len(x) + 1] = a
  OBVIOUS
<1>2. PICK y : y = x \o <<a>>
  OBVIOUS
<1>3. <<b, c>> \in Seq(C) /\ Len(<<b, c>>) = 2
  OBVIOUS
<1>4. y \in Seq(C) /\ q = y \o <<b, c>> /\ Len(y) = Len(x) + 1 /\ y[Len(x) + 1] = a
  BY <1>1, <1>2
<1>5. q \in Seq(C) /\ Len(q) = Len(y) + 2
  BY <1>3, <1>4
<1>6. q[Len(y)] = y[Len(y)] /\ q[Len(y) + 1] = b /\ q[Len(y) + 2] = c
  BY <1>3, <1>4
<1> QED BY <1>4, <1>5, <1>6

(* A line that ends in a prompt leaves the whole prompt.                   *)
LEMMA PromptLineShut ==
    ASSUME NEW s \in Screens, NEW x \in Seq(Character),
           NEW e, e = VGA_display_str(s, (x \o <<LineFeed>>) \o CONSOLE_PROMPT)
    PROVE  ~Opened(e)
<1>q. PICK q : q = (x \o <<LineFeed>>) \o CONSOLE_PROMPT
  OBVIOUS
<1>0. LineFeed \in Character /\ ">" \in Character /\ Space \in Character
      /\ LineFeed # ">"
  BY DEF Character, Space, LineFeed
<1>p. CONSOLE_PROMPT = <<">", Space>>
  BY DEF CONSOLE_PROMPT, Space
<1>n. PICK n \in Nat : n = Len(x)
  OBVIOUS
<1>1. /\ q \in Seq(Character) /\ Len(q) = n + 3
      /\ q[n + 1] = LineFeed /\ q[n + 2] = ">" /\ q[n + 3] = Space
  BY <1>0, <1>n, <1>p, <1>q, LastThree
<1>2. PICK h \in [0..(n + 3) -> Screens] :
        /\ h[n + 3] = e
        /\ \A k \in 1..(n + 3) : h[k] = VGA_display_char(h[k - 1], q[k])
  <2>1. \E h \in [0..Len(q) -> Screens] :
            /\ h[Len(q)] = VGA_display_str(s, q)
            /\ \A k \in 1..Len(q) : h[k] = VGA_display_char(h[k - 1], q[k])
    BY <1>1, StringSteps
  <2>2. e = VGA_display_str(s, q)
    BY <1>q
  <2> QED BY <1>1, <2>1, <2>2
<1>3. h[n] \in Screens /\ h[n + 1] \in Screens /\ h[n + 2] \in Screens
  BY <1>2
<1>4. /\ h[n + 1] = VGA_display_char(h[n], LineFeed)
      /\ h[n + 2] = VGA_display_char(h[n + 1], ">")
      /\ h[n + 3] = VGA_display_char(h[n + 2], Space)
  <2>1. \A k \in 1..(n + 3) : h[k] = VGA_display_char(h[k - 1], q[k])
    BY <1>2
  <2>2. /\ n + 1 \in 1..(n + 3) /\ n + 2 \in 1..(n + 3) /\ n + 3 \in 1..(n + 3)
        /\ (n + 1) - 1 = n /\ (n + 2) - 1 = n + 1 /\ (n + 3) - 1 = n + 2
    OBVIOUS
  <2> QED BY <1>1, <2>1, <2>2
<1>5. h[n + 1].col = 0
  BY <1>0, <1>3, <1>4, DisplayPlain
<1>6. Opened(h[n + 2])
  BY <1>3, <1>4, <1>5, PromptOpens DEF Opened
<1> QED BY <1>2, <1>3, <1>4, <1>6, PromptCloses

LEMMA LineShut ==
    ASSUME NEW s \in Screens, NEW x \in Seq(Character),
           NEW e, e = VGA_display_str(s, x \o <<LineFeed>>)
    PROVE  ~Opened(e)
<1>q. PICK q : q = x \o <<LineFeed>>
  OBVIOUS
<1>0. LineFeed \in Character /\ LineFeed # ">"
  BY DEF Character, LineFeed
<1>n. PICK n \in Nat : n = Len(x)
  OBVIOUS
<1>1. q \in Seq(Character) /\ Len(q) = n + 1 /\ q[n + 1] = LineFeed
  BY <1>0, <1>n, <1>q
<1>2. PICK h \in [0..(n + 1) -> Screens] :
        /\ h[n + 1] = e
        /\ \A k \in 1..(n + 1) : h[k] = VGA_display_char(h[k - 1], q[k])
  <2>1. \E h \in [0..Len(q) -> Screens] :
            /\ h[Len(q)] = VGA_display_str(s, q)
            /\ \A k \in 1..Len(q) : h[k] = VGA_display_char(h[k - 1], q[k])
    BY <1>1, StringSteps
  <2>2. e = VGA_display_str(s, q)
    BY <1>q
  <2> QED BY <1>1, <2>1, <2>2
<1>3. h[n] \in Screens /\ h[n + 1] = VGA_display_char(h[n], LineFeed)
  <2>1. n + 1 \in 1..(n + 1) /\ (n + 1) - 1 = n /\ n \in 0..(n + 1)
    OBVIOUS
  <2> QED BY <1>1, <1>2, <2>1
<1>4. e.col = 0
  BY <1>0, <1>2, <1>3, DisplayPlain
<1> QED BY <1>4 DEF Opened

LEMMA ReportShut ==
    ASSUME NEW s \in Screens, NEW text \in Seq(Character), NEW found \in BOOLEAN,
           NEW e, e = VGA_display_str(s, ToDisplay([text |-> text, line |-> TRUE], found))
    PROVE  ~Opened(e)
<1>x. PICK x : x = PromptBreak(found) \o text
  OBVIOUS
<1>1. x \in Seq(Character)
  BY <1>x, MessagesAreTexts DEF PromptBreak
<1>2. CASE found
  <2>1. ToDisplay([text |-> text, line |-> TRUE], found) = (x \o <<LineFeed>>) \o CONSOLE_PROMPT
    BY <1>2, <1>x DEF ToDisplay, LineEnd
  <2> QED BY <1>1, <2>1, PromptLineShut
<1>3. CASE ~found
  <2>1. ToDisplay([text |-> text, line |-> TRUE], found) = (x \o <<LineFeed>>) \o <<>>
    BY <1>3, <1>x DEF ToDisplay, LineEnd
  <2>2. x \o <<LineFeed>> \in Seq(Character)
    BY <1>1, MessagesAreTexts
  <2>3. (x \o <<LineFeed>>) \o <<>> = x \o <<LineFeed>>
    BY <2>2
  <2> QED BY <1>1, <2>1, <2>3, LineShut
<1> QED BY <1>2, <1>3

LEMMA EraseShut ==
    ASSUME NEW s \in Screens, Opened(VGA_erase(s))
    PROVE  Opened(s)
<1>1. /\ s \in [cells : Cells, row : Rows, col : Columns]
      /\ s.cells \in Cells /\ s.row \in Rows /\ s.col \in Columns /\ s.col \in Nat
  BY ConsoleSizes DEF Screens, Columns
<1>k. PICK k : k = IF s.col - 1 >= 2 THEN s.col - 1 ELSE s.col
  OBVIOUS
<1>c. PICK row : row = [s.cells[s.row] EXCEPT ![k] = Blank]
  OBVIOUS
<1>e. PICK e : e = VGA_erase(s)
  OBVIOUS
<1>2. e = [s EXCEPT !.cells = [s.cells EXCEPT ![s.row] = row], !.col = k]
  BY <1>c, <1>e, <1>k DEF VGA_erase
<1>3. e.row = s.row /\ e.col = k /\ e.cells = [s.cells EXCEPT ![s.row] = row]
  BY <1>1, <1>2
<1>4. e.cells[e.row] = row
  BY <1>1, <1>3 DEF Cells
<1>5. k = 1 /\ row[0] = ">"
  BY <1>3, <1>4, <1>e DEF Opened
<1>6. s.col = 1
  BY <1>1, <1>5, <1>k
<1>7. row[0] = s.cells[s.row][0]
  <2>1. 0 \in Columns /\ s.cells[s.row] \in [Columns -> Character]
    BY <1>1, ConsoleSizes DEF Cells
  <2> QED BY <1>5, <1>c, <2>1
<1> QED BY <1>5, <1>6, <1>7 DEF Opened

(* A key opens no prompt.                                                  *)
LEMMA KeyShut ==
    ASSUME Screen \in Screens, NEW c \in Character, c # ">", Opened(KeyShown(c))
    PROVE  Opened(Screen)
<1>1. Lower(c) \in Character /\ Lower(c) # ">"
  BY DEF Lower, Character
<1>2. CASE is_alpha(c) /\ ~(is_left_shift \/ is_right_shift \/ is_capslock)
  <2>1. KeyShown(c) = VGA_display_char(Screen, Lower(c))
    BY <1>2 DEF KeyShown
  <2> QED BY <1>1, <2>1, DisplayPlain
<1>3. CASE ~(is_alpha(c) /\ ~(is_left_shift \/ is_right_shift \/ is_capslock))
  <2>1. CASE c = Backspace
    <3>1. KeyShown(c) = VGA_erase(Screen)
      BY <1>3, <2>1 DEF KeyShown
    <3> QED BY <3>1, EraseShut
  <2>2. CASE c # Backspace /\ c = LineFeed
    <3>t. PICK t : t = VGA_display_char(Screen, c)
      OBVIOUS
    <3>1. KeyShown(c) = VGA_display_str(t, CONSOLE_PROMPT)
      BY <1>3, <2>2, <3>t DEF KeyShown
    <3>2. t \in Screens /\ t.col = 0
      BY <2>2, <3>t, DisplayPlain, DisplayTidy
    <3>p. PICK q : q = CONSOLE_PROMPT
      OBVIOUS
    <3>3. q \in Seq(Character) /\ Len(q) = 2 /\ q[1] = ">" /\ q[2] = Space
      BY <3>p, ConsoleSizes DEF CONSOLE_PROMPT, Space
    <3>4. PICK h \in [0..2 -> Screens] :
            /\ h[0] = t /\ h[2] = VGA_display_str(t, q)
            /\ \A k \in 1..2 : h[k] = VGA_display_char(h[k - 1], q[k])
      BY <3>2, <3>3, StringSteps
    <3>5. h[1] = VGA_display_char(t, ">") /\ h[2] = VGA_display_char(h[1], Space)
          /\ h[1] \in Screens
      <4>1. h[1] = VGA_display_char(h[1 - 1], q[1]) /\ h[2] = VGA_display_char(h[2 - 1], q[2])
        BY <3>4
      <4>2. 1 - 1 = 0 /\ 2 - 1 = 1
        OBVIOUS
      <4> QED BY <3>3, <3>4, <4>1, <4>2
    <3>6. Opened(h[1])
      BY <3>2, <3>5, PromptOpens DEF Opened
    <3>7. ~Opened(h[2])
      BY <3>5, <3>6, PromptCloses
    <3> QED BY <3>1, <3>4, <3>7, <3>p
  <2>3. CASE c # Backspace /\ c # LineFeed
    <3>1. KeyShown(c) = VGA_display_char(Screen, c)
      BY <1>3, <2>3 DEF KeyShown
    <3> QED BY <3>1, DisplayPlain
  <2> QED BY <2>1, <2>2, <2>3
<1> QED BY <1>2, <1>3

-----------------------------------------------------------------------------
(* Messages.  None of what kmain prints is mistaken for a prompt, and no   *)
(* key has the prompt's first character.                                   *)
Texts == {w \in Seq(Character) : \A i \in 1..Len(w) : w[i] # ">"}
PlainTexts == Welcome \in Texts /\ Messages \subseteq Texts /\ ">" \notin BeyondTable

(* What a call has still to display is text, and then the prompt if it     *)
(* found one; of the prompt the second character may be left.  A key in    *)
(* between may have moved the cursor, but opens no prompt.                 *)
Prompted == printing.line /\ is_p
Ending == IF Prompted \/ printing = NoCall THEN CONSOLE_PROMPT ELSE <<>>

Remaining(w) ==
    /\ w \in Texts /\ left = w \o Ending
    /\ Prompted /\ w # <<>> => w[Len(w)] = LineFeed

LeftOK == left # <<>> => (\E w : Remaining(w)) \/ (left = <<Space>> /\ Ending = CONSOLE_PROMPT)
HalfWay == Opened(Screen) => left = <<Space>> /\ Ending = CONSOLE_PROMPT

(* As long as nothing came in between, the row is known as well.           *)
OffPrompt == \E w : Remaining(w) /\ w # <<>> /\ (Plain(Screen) \/ w[1] = LineFeed)
AtPrompt == left = CONSOLE_PROMPT /\ Prompted /\ current_col = 0
InPrompt == left = <<Space>> /\ Prompted /\ Opened(Screen)

QuietOK ==
    quiet /\ printing # NoCall =>
        /\ left = <<>> /\ asked = 1 => vga_buff[current_row][0] = ">"
        /\ left # <<>> => OffPrompt \/ AtPrompt \/ InPrompt

PrintInv ==
    /\ ConsoleInv /\ asked \in 0..1 /\ printing.text \in Texts
    /\ LeftOK /\ HalfWay /\ QuietOK

LEMMA PromptParts ==
    /\ CONSOLE_PROMPT = <<">", Space>> /\ CONSOLE_PROMPT \in Seq(Character)
    /\ Len(CONSOLE_PROMPT) = 2 /\ CONSOLE_PROMPT[1] = ">" /\ CONSOLE_PROMPT[2] = Space
    /\ Head(CONSOLE_PROMPT) = ">" /\ Tail(CONSOLE_PROMPT) = <<Space>>
    /\ Space \in Character /\ ">" \in Character /\ LineFeed \in Character
    /\ Space # ">" /\ LineFeed # ">" /\ Space # LineFeed
<1>1. CONSOLE_PROMPT = <<">", Space>>
  BY DEF CONSOLE_PROMPT, Space
<1>2. ASSUME NEW a, NEW b
      PROVE  /\ Len(<<a, b>>) = 2 /\ <<a, b>>[1] = a /\ <<a, b>>[2] = b
             /\ Head(<<a, b>>) = a /\ Tail(<<a, b>>) = <<b>>
  OBVIOUS
<1>3. Space \in Character /\ ">" \in Character /\ LineFeed \in Character
  BY DEF Character, Space
<1>4. Space # ">" /\ LineFeed # ">" /\ Space # LineFeed
  BY DEF Space, LineFeed
<1> QED BY <1>1, <1>2, <1>3, <1>4, ConsoleSizes

LEMMA TextParts ==
    ASSUME NEW w \in Texts, w # <<>>, NEW E \in Seq(Character), NEW l, l = w \o E
    PROVE  /\ Head(l) = w[1] /\ w[1] # ">" /\ w[1] \in Character
           /\ Tail(l) = Tail(w) \o E /\ Tail(w) \in Texts
           /\ Len(l) = Len(w) + Len(E) /\ Len(w) >= 1
           /\ Tail(w) # <<>> => Tail(w)[Len(Tail(w))] = w[Len(w)]
           /\ Tail(w) = <<>> => w[1] = w[Len(w)] /\ Len(w) = 1
<1>1. w \in Seq(Character) /\ \A i \in 1..Len(w) : w[i] # ">"
  BY DEF Texts
<1>2. Len(w) \in Nat /\ Len(w) >= 1 /\ 1 \in 1..Len(w)
  BY <1>1
<1>3. w[1] \in Character
  BY <1>1, <1>2, ElementOfSeq
<1>4. Head(l) = w[1] /\ Len(l) = Len(w) + Len(E)
  BY <1>1, <1>2
<1>5. Tail(l) = Tail(w) \o E
  BY <1>1, <1>2
<1>6. /\ Tail(w) \in Seq(Character) /\ Len(Tail(w)) = Len(w) - 1
      /\ \A i \in 1..(Len(w) - 1) : Tail(w)[i] = w[i + 1]
  BY <1>1, <1>2
<1>7. Tail(w) \in Texts
  <2>1. ASSUME NEW i \in 1..Len(Tail(w)) PROVE Tail(w)[i] # ">"
    <3>1. i + 1 \in 1..Len(w) /\ i \in 1..(Len(w) - 1)
      BY <1>2, <1>6
    <3> QED BY <1>1, <1>6, <3>1
  <2> QED BY <1>6, <2>1 DEF Texts
<1>8. ASSUME Tail(w) # <<>> PROVE Tail(w)[Len(Tail(w))] = w[Len(w)]
  <2>1. Len(w) - 1 \in 1..(Len(w) - 1)
    <3>1. Len(Tail(w)) # 0
      BY <1>6, <1>8
    <3> QED BY <1>2, <1>6, <3>1
  <2>2. Tail(w)[Len(w) - 1] = w[(Len(w) - 1) + 1]
    BY <1>6, <2>1
  <2>3. (Len(w) - 1) + 1 = Len(w)
    BY <1>2
  <2> QED BY <1>6, <2>2, <2>3
<1>9. Tail(w) = <<>> => Len(w) = 1
  <2> SUFFICES ASSUME Tail(w) = <<>> PROVE Len(w) = 1
    OBVIOUS
  <2>1. Len(<<>>) = 0
    OBVIOUS
  <2>2. Len(Tail(w)) = 0
    BY <2>1, Zenon
  <2>3. Len(w) \in Nat /\ Len(Tail(w)) = Len(w) - 1
    BY <1>2, <1>6
  <2> QED BY <2>2, <2>3
<1> QED BY <1>1, <1>2, <1>3, <1>4, <1>5, <1>7, <1>8, <1>9

LEMMA SeenNext == /\ PromptSeen <=> OnPrompt(Screen)
                  /\ PromptSeen' <=> OnPrompt(Screen)'
<1>1. \A f, r : (\A i \in 1..Len(CONSOLE_PROMPT) : f[r][i - 1] = CONSOLE_PROMPT[i])
                <=> f[r][0] = ">" /\ f[r][1] = Space
  <2> SUFFICES ASSUME NEW f, NEW r
               PROVE  (\A i \in 1..2 : f[r][i - 1] = CONSOLE_PROMPT[i])
                      <=> f[r][0] = ">" /\ f[r][1] = Space
    BY PromptParts
  <2>1. 1 - 1 = 0 /\ 2 - 1 = 1 /\ 1..2 = {1, 2}
    OBVIOUS
  <2> QED BY <2>1, PromptParts
<1> QED BY <1>1 DEF PromptSeen, char_at, OnPrompt, Screen

LEMMA ShowIs ==
    ASSUME NEW s \in Screens, Show(s)
    PROVE  Screen' = s
<1>1. s = [cells |-> s.cells, row |-> s.row, col |-> s.col]
  BY DEF Screens
<1> QED BY <1>1 DEF Screen, Show

(* What DisplayNext does to a message, and what MessagesApart says of it.  *)
Apart ==
    printing # NoCall /\ left # <<>> /\ quiet => (PromptSeen => current_col = 2)'

LEMMA TextShown ==
    ASSUME PrintInv, DisplayNext, NEW w, Remaining(w), w # <<>>
    PROVE  LeftOK' /\ HalfWay' /\ QuietOK' /\ Apart
<1>s. PICK s : s = Screen
  OBVIOUS
<1>c. PICK c : c = Head(left)
  OBVIOUS
<1>e. PICK e : e = VGA_display_char(s, c)
  OBVIOUS
<1>E. PICK E : E = Ending
  OBVIOUS
<1>0. /\ s \in Screens /\ left \in Seq(Character)
      /\ printing \in [text : Seq(Character), line : BOOLEAN]
  BY <1>s DEF PrintInv, ConsoleInv
<1>1. E \in Seq(Character) /\ (E = <<>> \/ E = CONSOLE_PROMPT) /\ Len(<<>>) = 0
  BY <1>E, MessagesAreTexts, PromptParts DEF Ending
<1>2. w \in Texts /\ left = w \o E
  BY <1>E DEF Remaining
<1>3. /\ c = w[1] /\ c # ">" /\ c \in Character
      /\ Tail(left) = Tail(w) \o E /\ Tail(w) \in Texts
      /\ Len(left) = Len(w) + Len(E) /\ Len(w) >= 1 /\ Len(w) \in Nat
      /\ Tail(w) # <<>> => Tail(w)[Len(Tail(w))] = w[Len(w)]
      /\ Tail(w) = <<>> => w[1] = w[Len(w)] /\ Len(w) = 1
  <2>1. w \in Seq(Character) /\ Len(w) \in Nat
    BY <1>2 DEF Texts
  <2>p. PICK l : l = left
    OBVIOUS
  <2>q. l = w \o E
    BY <1>2, <2>p
  <2>2. /\ Head(l) = w[1] /\ w[1] # ">" /\ w[1] \in Character
        /\ Tail(l) = Tail(w) \o E /\ Tail(w) \in Texts
        /\ Len(l) = Len(w) + Len(E) /\ Len(w) >= 1
        /\ Tail(w) # <<>> => Tail(w)[Len(Tail(w))] = w[Len(w)]
        /\ Tail(w) = <<>> => w[1] = w[Len(w)] /\ Len(w) = 1
    BY <1>1, <1>2, <2>q, TextParts, Zenon
  <2> QED BY <1>c, <2>1, <2>2, <2>p, Zenon
<1>4. e \in Screens /\ Screen' = e
  <2>1. e \in Screens
    BY <1>0, <1>3, <1>e, DisplayTidy
  <2> QED BY <1>c, <1>e, <1>s, <2>1, ShowIs DEF DisplayNext
<1>5. /\ left' = Tail(w) \o E /\ is_p' = is_p /\ quiet' = quiet
      /\ printing' = IF Len(left) = 1 THEN NoCall ELSE printing
  BY <1>3 DEF DisplayNext
<1>6. left # <<Space>> \/ Ending # CONSOLE_PROMPT
  <2>1. ASSUME E = CONSOLE_PROMPT PROVE Len(left) # 1
    BY <1>3, <2>1, PromptParts
  <2>2. Len(<<Space>>) = 1
    OBVIOUS
  <2> QED BY <1>E, <2>1, <2>2
<1>7. ~Opened(s)
  BY <1>6, <1>s DEF PrintInv, HalfWay
<1>8. ~Opened(e) /\ (Plain(s) \/ c = LineFeed => Plain(e)) /\ (c = LineFeed => e.col = 0)
  BY <1>0, <1>3, <1>7, <1>e, DisplayPlain
<1>9. HalfWay'
  BY <1>4, <1>8 DEF HalfWay
<1>10. quiet /\ printing # NoCall => Plain(e)
  <2> SUFFICES ASSUME quiet, printing # NoCall PROVE Plain(e)
    OBVIOUS
  <2>1. left # <<>>
    BY DEF DisplayNext
  <2>2. OffPrompt \/ AtPrompt \/ InPrompt
    BY <2>1 DEF PrintInv, QuietOK
  <2>3. CASE OffPrompt
    <3>1. PICK v : Remaining(v) /\ v # <<>> /\ (Plain(Screen) \/ v[1] = LineFeed)
      BY <2>3 DEF OffPrompt
    <3>2. v \in Texts /\ left = v \o E
      BY <1>E, <3>1 DEF Remaining
    <3>3. Head(left) = v[1]
      BY <1>1, <3>1, <3>2, TextParts
    <3> QED BY <1>8, <1>c, <1>s, <3>1, <3>3
  <2>4. CASE AtPrompt
    BY <1>3, <1>c, <2>4, PromptParts DEF AtPrompt
  <2>5. CASE InPrompt
    BY <1>6, <2>5 DEF InPrompt, Ending
  <2> QED BY <2>2, <2>3, <2>4, <2>5
<1>11. ~OnPrompt(e) => ~PromptSeen'
  BY <1>4, SeenNext
<1>12. Apart
  BY <1>10, <1>11 DEF Apart, Plain
<1>13. CASE Len(left) = 1
  <2>1. E # CONSOLE_PROMPT /\ Len(w) = 1
    BY <1>1, <1>3, <1>13, PromptParts
  <2>2. ~Prompted
    BY <1>E, <2>1 DEF Ending
  <2>3. left' = <<>>
    <3>1. Len(Tail(w)) = 0 /\ E = <<>>
      BY <1>1, <1>2, <2>1 DEF Texts
    <3>2. Tail(w) = <<>>
      BY <1>3, <3>1 DEF Texts
    <3>3. <<>> \o <<>> = <<>>
      OBVIOUS
    <3> QED BY <1>5, <3>1, <3>2, <3>3
  <2>4. printing' = NoCall
    BY <1>5, <1>13
  <2> QED BY <1>9, <1>12, <2>2, <2>3, <2>4 DEF LeftOK, QuietOK, Prompted
<1>14. CASE Len(left) # 1
  <2>1. printing' = printing /\ (Prompted' <=> Prompted) /\ Ending' = E
    BY <1>5, <1>14, <1>E DEF Prompted, Ending
  <2>2. Remaining(Tail(w))'
    <3>1. Prompted => w[Len(w)] = LineFeed
      BY DEF Remaining
    <3> QED BY <1>3, <1>5, <2>1, <3>1 DEF Remaining
  <2>3. LeftOK'
    BY <2>2 DEF LeftOK
  <2>4. QuietOK'
    <3> SUFFICES ASSUME quiet, printing # NoCall, left' # <<>>
                 PROVE  OffPrompt' \/ AtPrompt'
      <4>1. Len(left') # 0
        <5>1. Len(left') = Len(left) - 1
          <6>1. left # <<>> /\ left' = Tail(left)
            BY DEF DisplayNext
          <6> QED BY <1>0, <6>1
        <5> QED BY <1>3, <1>14, <5>1, <1>1
      <4>2. left' # <<>>
        BY <1>1, <4>1, Zenon
      <4>3. quiet' = quiet /\ printing' = printing
        BY <1>5, <2>1, Zenon
      <4> QED BY <4>2, <4>3, Zenon DEF QuietOK
    <3>1. CASE Tail(w) # <<>>
      <4>1. Plain(Screen)'
        BY <1>4, <1>10 DEF Plain, OnPrompt, Opened
      <4> QED BY <2>2, <3>1, <4>1 DEF OffPrompt
    <3>2. CASE Tail(w) = <<>>
      <4>1. left' = E
        <5>1. <<>> \o E = E
          BY <1>1
        <5> QED BY <1>5, <3>2, <5>1
      <4>2. E = CONSOLE_PROMPT
        BY <1>1, <4>1
      <4>3. Prompted
        BY <1>1, <1>3, <1>14, <1>E, <3>2, <4>2, PromptParts DEF Ending
      <4>4. c = LineFeed
        BY <1>3, <3>2, <4>3 DEF Remaining
      <4>5. current_col' = 0
        BY <1>4, <1>8, <4>4 DEF Screen
      <4> QED BY <2>1, <4>1, <4>2, <4>3, <4>5 DEF AtPrompt
    <3> QED BY <3>1, <3>2
  <2> QED BY <1>9, <1>12, <2>3, <2>4
<1> QED BY <1>13, <1>14

LEMMA PromptBegun ==
    ASSUME PrintInv, DisplayNext, left = CONSOLE_PROMPT, Ending = CONSOLE_PROMPT
    PROVE  LeftOK' /\ HalfWay' /\ QuietOK' /\ Apart
<1>s. PICK s : s = Screen
  OBVIOUS
<1>e. PICK e : e = VGA_display_char(s, ">")
  OBVIOUS
<1>0. s \in Screens
  BY <1>s DEF PrintInv, ConsoleInv
<1>1. e \in Screens /\ Screen' = e
  <2>1. e \in Screens
    BY <1>0, <1>e, PromptParts, DisplayTidy
  <2> QED BY <1>e, <1>s, <2>1, ShowIs, PromptParts DEF DisplayNext
<1>2. left' = <<Space>> /\ is_p' = is_p /\ quiet' = quiet /\ printing' = printing
  BY PromptParts DEF DisplayNext
<1>3. (Prompted' <=> Prompted) /\ Ending' = CONSOLE_PROMPT
  BY <1>2 DEF Prompted, Ending
<1>4. LeftOK' /\ HalfWay'
  BY <1>2, <1>3 DEF LeftOK, HalfWay
<1>6. quiet /\ printing # NoCall => AtPrompt
  <2> SUFFICES ASSUME quiet, printing # NoCall PROVE AtPrompt
    OBVIOUS
  <2>1. left # <<>>
    BY DEF DisplayNext
  <2>2. OffPrompt \/ AtPrompt \/ InPrompt
    BY <2>1 DEF PrintInv, QuietOK
  <2>3. ASSUME OffPrompt PROVE FALSE
    <3>1. PICK v : Remaining(v) /\ v # <<>>
      BY <2>3 DEF OffPrompt
    <3>2. v \in Texts /\ left = v \o CONSOLE_PROMPT
      BY <3>1 DEF Remaining
    <3>3. Len(left) = Len(v) + 2 /\ Len(v) >= 1 /\ Len(v) \in Nat
      <4>1. v \in Seq(Character)
        BY <3>2 DEF Texts
      <4>2. Len(v) \in Nat
        BY <4>1
      <4>3. Len(left) = Len(v) + Len(CONSOLE_PROMPT) /\ Len(v) >= 1
        BY <3>1, <3>2, PromptParts, TextParts
      <4> QED BY <4>2, <4>3, PromptParts
    <3> QED BY <3>3, PromptParts
  <2>4. ASSUME InPrompt PROVE FALSE
    <3>1. left[1] = Space
      BY <2>4 DEF InPrompt
    <3> QED BY <3>1, PromptParts
  <2> QED BY <2>2, <2>3, <2>4
<1>7. ASSUME quiet, printing # NoCall PROVE Opened(e) /\ ~OnPrompt(e)
  <2>1. s.col = 0
    BY <1>6, <1>7, <1>s DEF AtPrompt, Screen
  <2> QED BY <1>0, <1>e, <2>1, PromptOpens DEF Opened, OnPrompt
<1>8. Apart
  <2>1. PromptSeen' <=> OnPrompt(e)
    BY <1>1, SeenNext
  <2> QED BY <1>7, <2>1 DEF Apart
<1>9. QuietOK'
  <2> SUFFICES ASSUME quiet, printing # NoCall
               PROVE  (left' = <<>> /\ asked' = 1 => vga_buff'[current_row'][0] = ">")
                      /\ InPrompt'
    BY <1>2 DEF QuietOK
  <2>1. left' # <<>>
    BY <1>2
  <2>2. Prompted
    BY <1>6 DEF AtPrompt
  <2> QED BY <1>1, <1>2, <1>3, <1>7, <2>1, <2>2 DEF InPrompt
<1> QED BY <1>4, <1>8, <1>9

LEMMA PromptEnded ==
    ASSUME PrintInv, DisplayNext, left = <<Space>>, Ending = CONSOLE_PROMPT
    PROVE  LeftOK' /\ HalfWay' /\ QuietOK' /\ Apart
<1>s. PICK s : s = Screen
  OBVIOUS
<1>e. PICK e : e = VGA_display_char(s, Space)
  OBVIOUS
<1>0. s \in Screens
  BY <1>s DEF PrintInv, ConsoleInv
<1>l. Len(left) = 1 /\ Head(left) = Space /\ Tail(left) = <<>>
  OBVIOUS
<1>1. e \in Screens /\ Screen' = e
  <2>1. e \in Screens
    BY <1>0, <1>e, PromptParts, DisplayTidy
  <2> QED BY <1>e, <1>l, <1>s, <2>1, ShowIs DEF DisplayNext
<1>2. left' = <<>> /\ printing' = NoCall
  BY <1>l DEF DisplayNext
<1>3. LeftOK' /\ QuietOK'
  BY <1>2 DEF LeftOK, QuietOK
<1>4. ~Opened(e)
  BY <1>0, <1>e, DisplayPlain, PromptCloses, PromptParts
<1>5. HalfWay'
  BY <1>1, <1>4 DEF HalfWay
<1>6. quiet /\ printing # NoCall => InPrompt
  <2> SUFFICES ASSUME quiet, printing # NoCall PROVE InPrompt
    OBVIOUS
  <2>1. left # <<>>
    BY DEF DisplayNext
  <2>2. OffPrompt \/ AtPrompt \/ InPrompt
    BY <2>1 DEF PrintInv, QuietOK
  <2>3. ASSUME OffPrompt PROVE FALSE
    <3>1. PICK v : Remaining(v) /\ v # <<>>
      BY <2>3 DEF OffPrompt
    <3>2. v \in Texts /\ left = v \o CONSOLE_PROMPT
      BY <3>1 DEF Remaining
    <3>3. v \in Seq(Character)
      BY <3>2 DEF Texts
    <3>4. Len(v) \in Nat
      BY <3>3
    <3>5. Len(left) = Len(v) + Len(CONSOLE_PROMPT) /\ Len(v) >= 1
      BY <3>1, <3>2, PromptParts, TextParts
    <3> QED BY <1>l, <3>4, <3>5, PromptParts
  <2>4. ASSUME AtPrompt PROVE FALSE
    BY <1>l, <2>4, PromptParts DEF AtPrompt
  <2> QED BY <2>2, <2>3, <2>4
<1>7. ASSUME quiet, printing # NoCall PROVE e.col = 2 /\ OnPrompt(e)
  <2>1. Opened(s)
    BY <1>6, <1>7, <1>s DEF InPrompt
  <2> QED BY <1>0, <1>e, <2>1, PromptCloses
<1>8. (PromptSeen' <=> OnPrompt(e)) /\ current_col' = e.col
  BY <1>1, SeenNext DEF Screen
<1>9. Apart
  BY <1>7, <1>8 DEF Apart
<1> QED BY <1>3, <1>5, <1>9

(* Every character a call displays.                                        *)
LEMMA Displayed ==
    ASSUME PrintInv, DisplayNext
    PROVE  PrintInv' /\ Apart
<1>1. left # <<>>
  BY DEF DisplayNext
<1>2. LeftOK' /\ HalfWay' /\ QuietOK' /\ Apart
  <2>1. CASE \E w : Remaining(w) /\ w # <<>>
    BY <2>1, TextShown
  <2>2. CASE Remaining(<<>>)
    <3>1. left = <<>> \o Ending
      BY <2>2 DEF Remaining
    <3>2. Ending \in Seq(Character) /\ (Ending = <<>> \/ Ending = CONSOLE_PROMPT)
      BY MessagesAreTexts DEF Ending
    <3>3. <<>> \o Ending = Ending
      BY <3>2
    <3>4. left = Ending
      BY <3>1, <3>3, Zenon
    <3>5. Ending = CONSOLE_PROMPT
      BY <1>1, <3>2, <3>4, Zenon
    <3> QED BY <3>4, <3>5, PromptBegun
  <2>3. CASE left = <<Space>> /\ Ending = CONSOLE_PROMPT
    BY <2>3, PromptEnded
  <2>4. (\E w : Remaining(w)) \/ (left = <<Space>> /\ Ending = CONSOLE_PROMPT)
    BY <1>1 DEF PrintInv, LeftOK
  <2> QED BY <2>1, <2>2, <2>3, <2>4, Zenon
<1>3. ConsoleInv'
  BY ConsoleNextInv DEF PrintInv, ConsoleNext
<1>4. asked' \in 0..1 /\ printing'.text \in Texts
  <2>1. NoCall.text \in Texts
    <3>1. <<>> \in Seq(Character) /\ Len(<<>>) = 0
      BY MessagesAreTexts
    <3>2. <<>> \in Texts
      BY <3>1 DEF Texts
    <3> QED BY <3>2 DEF NoCall
  <2> QED BY <2>1 DEF PrintInv, DisplayNext
<1> QED BY <1>2, <1>3, <1>4 DEF PrintInv

LEMMA TextsJoin ==
    ASSUME NEW v \in Texts, NEW w \in Texts
    PROVE  v \o w \in Texts
<1>1. /\ v \in Seq(Character) /\ w \in Seq(Character)
      /\ \A i \in 1..Len(v) : v[i] # ">"
      /\ \A i \in 1..Len(w) : w[i] # ">"
  BY DEF Texts
<1>2. PICK q : q = v \o w
  OBVIOUS
<1>3. /\ q \in Seq(Character) /\ Len(q) = Len(v) + Len(w)
      /\ \A i \in 1..(Len(v) + Len(w)) :
            q[i] = IF i <= Len(v) THEN v[i] ELSE w[i - Len(v)]
  BY <1>1, <1>2
<1>4. Len(v) \in Nat /\ Len(w) \in Nat
  BY <1>1
<1>5. ASSUME NEW i \in 1..Len(q) PROVE q[i] # ">"
  <2>1. q[i] = IF i <= Len(v) THEN v[i] ELSE w[i - Len(v)]
    BY <1>3
  <2>2. i <= Len(v) => i \in 1..Len(v)
    BY <1>3, <1>4
  <2>3. ~(i <= Len(v)) => i - Len(v) \in 1..Len(w)
    BY <1>3, <1>4
  <2> QED BY <1>1, <2>1, <2>2, <2>3
<1> QED BY <1>2, <1>3, <1>5 DEF Texts

(* What is_prompt's answer leaves to display.                              *)
LEMMA CallParts ==
    ASSUME NEW call \in [text : Texts, line : BOOLEAN], NEW found \in BOOLEAN,
           NEW w, w = (PromptBreak(found) \o call.text) \o LineEnd(call)
    PROVE  /\ w \in Texts
           /\ call.line => w[Len(w)] = LineFeed
           /\ found => w # <<>> /\ w[1] = LineFeed
           /\ ToDisplay(call, found) = w \o (IF call.line /\ found THEN CONSOLE_PROMPT ELSE <<>>)
<1>1. <<LineFeed>> \in Texts /\ <<>> \in Texts
  <2>1. LineFeed \in Character /\ LineFeed # ">"
    BY PromptParts
  <2>2. <<LineFeed>> \in Seq(Character) /\ Len(<<LineFeed>>) = 1 /\ <<LineFeed>>[1] = LineFeed
    BY <2>1
  <2>3. <<LineFeed>> \in Texts
    BY <2>1, <2>2 DEF Texts
  <2>4. <<>> \in Seq(Character) /\ Len(<<>>) = 0
    BY MessagesAreTexts
  <2>5. <<>> \in Texts
    BY <2>4 DEF Texts
  <2> QED BY <2>3, <2>5
<1>2. PICK v : v = PromptBreak(found) \o call.text
  OBVIOUS
<1>3. v \in Texts
  BY <1>1, <1>2, TextsJoin DEF PromptBreak
<1>4. w = v \o LineEnd(call) /\ w \in Texts
  BY <1>1, <1>2, <1>3, TextsJoin DEF LineEnd
<1>5. v \in Seq(Character) /\ LineFeed \in Character /\ call.text \in Seq(Character)
  BY <1>3, PromptParts DEF Texts
<1>6. ASSUME call.line PROVE w[Len(w)] = LineFeed
  <2>1. w = v \o <<LineFeed>>
    BY <1>4, <1>6 DEF LineEnd
  <2> QED BY <1>5, <2>1
<1>7. ASSUME found PROVE w # <<>> /\ w[1] = LineFeed
  <2>1. v = <<LineFeed>> \o call.text
    BY <1>2, <1>7 DEF PromptBreak
  <2>2. v[1] = LineFeed /\ Len(v) >= 1 /\ Len(v) \in Nat
    BY <1>5, <2>1
  <2>3. LineEnd(call) \in Seq(Character)
    BY MessagesAreTexts DEF LineEnd
  <2>4. w[1] = v[1] /\ Len(w) = Len(v) + Len(LineEnd(call))
    BY <1>4, <1>5, <2>2, <2>3
  <2>5. Len(w) >= 1 /\ Len(<<>>) = 0
    BY <1>5, <2>2, <2>3, <2>4
  <2>6. w # <<>>
    <3>1. Len(w) # Len(<<>>)
      BY <2>5
    <3> QED BY <3>1, Zenon
  <2> QED BY <2>2, <2>4, <2>6, Zenon
<1> QED BY <1>4, <1>6, <1>7 DEF ToDisplay

LEMMA PrintInit == PlainTexts /\ ConsoleInit => PrintInv
<1> SUFFICES ASSUME PlainTexts, ConsoleInit PROVE PrintInv
  OBVIOUS
<1>1. ConsoleInv
  BY ConsoleInitInv
<1>2. /\ asked = 0 /\ printing = NoCall /\ ~is_p /\ current_col = 0
      /\ left = Welcome \o CONSOLE_PROMPT
  BY DEF ConsoleInit, VGA_clear
<1>3. printing.text \in Texts
  <2>1. <<>> \in Seq(Character) /\ Len(<<>>) = 0
    BY MessagesAreTexts
  <2>2. <<>> \in Texts
    BY <2>1 DEF Texts
  <2> QED BY <1>2, <2>2 DEF NoCall
<1>4. LeftOK
  <2>1. Remaining(Welcome)
    BY <1>2 DEF Remaining, Ending, Prompted, PlainTexts
  <2> QED BY <2>1 DEF LeftOK
<1>5. HalfWay
  BY <1>2 DEF HalfWay, Opened, Screen
<1> QED BY <1>1, <1>2, <1>3, <1>4, <1>5 DEF PrintInv, QuietOK

(* Keys and reports: they open no prompt, and end the quiet.               *)
LEMMA Disturbed ==
    ASSUME PrintInv, ConsoleInv', UNCHANGED printVars, quiet' = FALSE,
           Opened(Screen)' => Opened(Screen)
    PROVE  PrintInv'
<1>1. UNCHANGED <<printing, asked, is_p, left>>
  BY DEF printVars
<1>2. asked' \in 0..1 /\ printing'.text \in Texts
  BY <1>1 DEF PrintInv
<1>3. Ending' = Ending /\ (Prompted' <=> Prompted)
  BY <1>1 DEF Ending, Prompted
<1>4. LeftOK'
  BY <1>1, <1>3 DEF PrintInv, LeftOK, Remaining
<1>5. HalfWay'
  BY <1>1, <1>3 DEF PrintInv, HalfWay
<1> QED BY <1>2, <1>4, <1>5 DEF PrintInv, QuietOK

LEMMA KeyStep ==
    ASSUME PlainTexts, PrintInv, NEW scan \in ScanCodes, CON_key_action(scan)
    PROVE  PrintInv'
<1>0. Screen \in Screens /\ ConsoleInv'
  BY ConsoleNextInv DEF PrintInv, ConsoleInv, ConsoleNext
<1>1. Opened(Screen)' => Opened(Screen)
  <2>1. CASE KeyPressed(scan)
    <3>1. PICK c \in KeyChars(scan) : Show(KeyShown(c))
      BY <2>1 DEF KeyPressed
    <3>2. scan \in 1..LastIndexed
      BY <2>1 DEF KeyPressed
    <3>3. c \in Character
      BY <3>2, KeysAreCharacters
    <3>4. c # ">"
      <4>1. CASE scan <= TableSize
        <5>1. scan \in 1..TableSize
          BY <3>2, <4>1 DEF LastIndexed, TableSize
        <5>2. scan \in DOMAIN pressed_keys
          BY <5>1, ConsoleAssumption
        <5>3. \A k \in DOMAIN pressed_keys :
                pressed_keys[k] \in {Backspace, Tab, LineFeed, "A", NoChar}
          BY DEF pressed_keys
        <5>4. c = pressed_keys[scan]
          BY <4>1 DEF KeyChars
        <5> QED BY <5>2, <5>3, <5>4 DEF Backspace, Tab, LineFeed, NoChar
      <4>2. CASE ~(scan <= TableSize)
        BY <4>2 DEF KeyChars, PlainTexts
      <4> QED BY <4>1, <4>2
    <3>5. PICK e : e = KeyShown(c)
      OBVIOUS
    <3>6. e \in Screens
      BY <1>0, <3>3, <3>5, KeyShownTidy
    <3>7. Screen' = e
      BY <3>1, <3>5, <3>6, ShowIs
    <3>8. Opened(e) => Opened(Screen)
      BY <1>0, <3>3, <3>4, <3>5, KeyShut
    <3>9. Opened(Screen)' <=> Opened(e)
      BY <3>7 DEF Opened
    <3> QED BY <3>8, <3>9
  <2>2. CASE KeyOfModifier(scan)
    BY <2>2 DEF KeyOfModifier, screenVars, Opened, Screen
  <2> QED BY <2>1, <2>2 DEF CON_key_action
<1>2. UNCHANGED printVars /\ quiet' = FALSE
  BY DEF CON_key_action
<1> QED BY <1>0, <1>1, <1>2, Disturbed

LEMMA ReportStep ==
    ASSUME PrintInv, Report
    PROVE  PrintInv'
<1>0. Screen \in Screens /\ ConsoleInv'
  BY ConsoleNextInv DEF PrintInv, ConsoleInv, ConsoleNext
<1>1. ~Opened(Screen)'
  <2>1. ASSUME NEW text \in Reports,
               Show(VGA_display_str(Screen,
                        ToDisplay([text |-> text, line |-> TRUE], PromptSeen)))
        PROVE  ~Opened(Screen)'
    <3>1. text \in Seq(Character) /\ PromptSeen \in BOOLEAN
      BY MessagesAreTexts DEF PromptSeen
    <3>2. PICK q : q = ToDisplay([text |-> text, line |-> TRUE], PromptSeen)
      OBVIOUS
    <3>3. q \in Seq(Character)
      BY <3>1, <3>2, ToDisplayIsText
    <3>4. PICK e : e = VGA_display_str(Screen, q)
      OBVIOUS
    <3>5. e \in Screens
      BY <1>0, <3>3, <3>4, StringTidy
    <3>6. Screen' = e
      BY <2>1, <3>2, <3>4, <3>5, ShowIs
    <3>7. ~Opened(e)
      BY <1>0, <3>1, <3>2, <3>4, ReportShut
    <3> QED BY <3>6, <3>7 DEF Opened
  <2>2. ASSUME Show(VGA_display_char(Screen, LineFeed)) PROVE ~Opened(Screen)'
    <3>1. PICK e : e = VGA_display_char(Screen, LineFeed)
      OBVIOUS
    <3>2. e \in Screens /\ e.col = 0
      BY <1>0, <3>1, PromptParts, DisplayTidy, DisplayPlain
    <3>3. Screen' = e
      BY <2>2, <3>1, <3>2, ShowIs
    <3> QED BY <3>2, <3>3 DEF Opened
  <2> QED BY <2>1, <2>2 DEF Report
<1>2. UNCHANGED printVars /\ quiet' = FALSE
  BY DEF Report
<1> QED BY <1>0, <1>1, <1>2, Disturbed

LEMMA BeginStep ==
    ASSUME PlainTexts, PrintInv, NEW text \in Messages, NEW line \in BOOLEAN, Begin(text, line)
    PROVE  PrintInv'
<1>1. ConsoleInv'
  BY ConsoleNextInv DEF PrintInv, ConsoleNext, printk, printkln
<1>2. left = <<>> /\ left' = <<>> /\ asked' = 0 /\ Screen' = Screen
  BY DEF Begin, screenVars, Screen
<1>3. printing'.text \in Texts
  BY DEF Begin, PlainTexts
<1>4. ~Opened(Screen)
  <2>1. <<>> # <<Space>>
    OBVIOUS
  <2> QED BY <1>2, <2>1 DEF PrintInv, HalfWay
<1>5. LeftOK' /\ HalfWay' /\ QuietOK'
  BY <1>2, <1>4 DEF LeftOK, HalfWay, QuietOK, Opened
<1> QED BY <1>1, <1>2, <1>3, <1>5 DEF PrintInv

LEMMA AskStep ==
    ASSUME PrintInv, is_prompt
    PROVE  PrintInv'
<1>0. /\ ConsoleInv' /\ asked \in 0..1 /\ left = <<>> /\ printing # NoCall
      /\ printing \in [text : Seq(Character), line : BOOLEAN]
      /\ printing.text \in Texts
  BY ConsoleNextInv DEF PrintInv, ConsoleInv, ConsoleNext, is_prompt, AskingOver
<1>1. Screen' = Screen /\ printing' = printing /\ quiet' = quiet
  BY DEF is_prompt, screenVars, Screen
<1>2. ~Opened(Screen)
  <2>1. <<>> # <<Space>>
    OBVIOUS
  <2> QED BY <1>0, <2>1 DEF PrintInv, HalfWay
<1>3. HalfWay' /\ printing'.text \in Texts
  BY <1>0, <1>1, <1>2 DEF HalfWay, Opened
<1>4. quiet /\ asked = 1 => vga_buff[current_row][0] = ">"
  BY <1>0 DEF PrintInv, QuietOK
<1>5. UNCHANGED <<vga_buff, current_row, current_col>>
  BY DEF is_prompt, screenVars
<1>6. ASSUME NEW found \in BOOLEAN, is_p' = found, left' = ToDisplay(printing, found), asked' = asked,
             ~found => ~OnPrompt(Screen) \/ ~quiet
      PROVE  PrintInv'
  <2>1. printing \in [text : Texts, line : BOOLEAN]
    BY <1>0
  <2>2. PICK w : w = (PromptBreak(found) \o printing.text) \o LineEnd(printing)
    OBVIOUS
  <2>3. /\ w \in Texts
        /\ printing.line => w[Len(w)] = LineFeed
        /\ found => w # <<>> /\ w[1] = LineFeed
        /\ left' = w \o (IF printing.line /\ found THEN CONSOLE_PROMPT ELSE <<>>)
    BY <1>6, <2>1, <2>2, CallParts
  <2>4. Ending' = (IF printing.line /\ found THEN CONSOLE_PROMPT ELSE <<>>)
    BY <1>0, <1>1, <1>6 DEF Ending, Prompted
  <2>5. Remaining(w)'
    BY <1>1, <2>3, <2>4 DEF Remaining, Prompted
  <2>6. LeftOK'
    BY <2>5 DEF LeftOK
  <2>7. ASSUME quiet, left' # <<>> PROVE OffPrompt'
    <3>1. CASE found
      BY <2>3, <2>5, <3>1 DEF OffPrompt
    <3>2. CASE ~found
      <4>1. Plain(Screen)'
        BY <1>1, <1>2, <1>6, <2>7, <3>2 DEF Plain, OnPrompt, Opened
      <4>2. w # <<>>
        <5>1. left' = w \o <<>>
          BY <2>3, <3>2
        <5>2. w = <<>> => left' = <<>>
          BY <5>1
        <5> QED BY <2>7, <5>2
      <4> QED BY <2>5, <4>1, <4>2 DEF OffPrompt
    <3> QED BY <3>1, <3>2
  <2>8. QuietOK'
    BY <1>1, <1>4, <1>5, <1>6, <2>7 DEF QuietOK
  <2> QED BY <1>0, <1>3, <1>6, <2>6, <2>8 DEF PrintInv
<1>7. CASE char_at(asked, current_row) # CONSOLE_PROMPT[asked + 1]
  <2>1. is_p' = FALSE /\ left' = ToDisplay(printing, FALSE) /\ asked' = asked
    BY <1>7 DEF is_prompt
  <2>2. ~OnPrompt(Screen)
    <3>1. CASE asked = 0
      <4>1. vga_buff[current_row][0] # CONSOLE_PROMPT[1]
        BY <1>7, <3>1 DEF char_at
      <4> QED BY <4>1, PromptParts DEF OnPrompt, Screen
    <3>2. CASE asked = 1
      <4>1. vga_buff[current_row][1] # CONSOLE_PROMPT[2]
        BY <1>7, <3>2 DEF char_at
      <4> QED BY <4>1, PromptParts DEF OnPrompt, Screen
    <3> QED BY <1>0, <3>1, <3>2
  <2> QED BY <1>6, <2>1, <2>2
<1>8. CASE char_at(asked, current_row) = CONSOLE_PROMPT[asked + 1] /\ asked + 1 = Len(CONSOLE_PROMPT)
  <2>1. is_p' = TRUE /\ left' = ToDisplay(printing, TRUE) /\ asked' = asked
    BY <1>8 DEF is_prompt
  <2> QED BY <1>6, <2>1
<1>9. CASE char_at(asked, current_row) = CONSOLE_PROMPT[asked + 1] /\ asked + 1 # Len(CONSOLE_PROMPT)
  <2>1. asked = 0
    BY <1>0, <1>9, PromptParts
  <2>2. asked' = 1 /\ left' = <<>>
    BY <1>0, <1>9, <2>1 DEF is_prompt
  <2>3. vga_buff[current_row][0] = ">"
    <3>1. vga_buff[current_row][0] = CONSOLE_PROMPT[1]
      BY <1>9, <2>1 DEF char_at
    <3> QED BY <3>1, PromptParts
  <2> QED BY <1>0, <1>3, <1>5, <2>2, <2>3 DEF PrintInv, LeftOK, QuietOK
<1> QED BY <1>7, <1>8, <1>9

LEMMA PrintNext == PlainTexts /\ PrintInv /\ [ConsoleNext]_consoleVars => PrintInv'
<1> SUFFICES ASSUME PlainTexts, PrintInv, [ConsoleNext]_consoleVars PROVE PrintInv'
  OBVIOUS
<1>1. ASSUME UNCHANGED <<screenVars, printing, asked, is_p, left, quiet>> PROVE PrintInv'
  <2>1. ConsoleInv'
    BY ConsoleNextInv DEF PrintInv
  <2>2. /\ UNCHANGED <<vga_buff, current_row, current_col, printing, asked, is_p, left, quiet>>
        /\ Screen' = Screen
    BY <1>1 DEF screenVars, Screen
  <2>3. Ending' = Ending /\ (Prompted' <=> Prompted)
    BY <2>2 DEF Ending, Prompted
  <2>4. \A w : Remaining(w)' <=> Remaining(w)
    BY <2>2, <2>3 DEF Remaining
  <2>5. LeftOK'
    BY <2>2, <2>3, <2>4 DEF PrintInv, LeftOK
  <2>6. HalfWay'
    BY <2>2, <2>3 DEF PrintInv, HalfWay, Opened
  <2>7. QuietOK'
    BY <2>2, <2>3, <2>4 DEF PrintInv, QuietOK, OffPrompt, AtPrompt, InPrompt, Plain, OnPrompt, Opened
  <2> QED BY <2>1, <2>2, <2>5, <2>6, <2>7 DEF PrintInv
<1>2. CASE \E scan \in ScanCodes : CON_key_action(scan)
  BY <1>2, KeyStep
<1>3. CASE \E text \in Messages : printk(text) \/ printkln(text)
  BY <1>3, BeginStep DEF printk, printkln
<1>4. CASE is_prompt
  BY <1>4, AskStep
<1>5. CASE DisplayNext
  BY <1>5, Displayed
<1>6. CASE Report
  BY <1>6, ReportStep
<1>7. CASE sti
  BY <1>1, <1>7 DEF sti
<1>8. CASE UNCHANGED consoleVars
  BY <1>1, <1>8 DEF consoleVars, printVars
<1> QED BY <1>2, <1>3, <1>4, <1>5, <1>6, <1>7, <1>8 DEF ConsoleNext

(* A step that displays one of a message's characters, or ends the call.   *)
LEMMA MessageSteps ==
    ASSUME [ConsoleNext]_consoleVars
    PROVE  /\ left # <<>> /\ left' # left => DisplayNext
           /\ printing # NoCall /\ printing' = NoCall => DisplayNext
<1> DEFINE Kept == left' = left /\ printing' = printing
<1>1. CASE \E scan \in ScanCodes : CON_key_action(scan)
  <2>1. Kept
    BY <1>1 DEF CON_key_action, printVars
  <2> QED BY <2>1
<1>2. CASE \E text \in Messages : printk(text) \/ printkln(text)
  BY <1>2 DEF printk, printkln, Begin
<1>3. CASE is_prompt
  BY <1>3 DEF is_prompt, AskingOver
<1>4. CASE Report
  <2>1. Kept
    BY <1>4 DEF Report, printVars
  <2> QED BY <2>1
<1>5. CASE sti
  BY <1>5 DEF sti
<1>6. CASE UNCHANGED consoleVars
  BY <1>6 DEF consoleVars, printVars
<1> QED BY <1>1, <1>2, <1>3, <1>4, <1>5, <1>6 DEF ConsoleNext

(* No character of a message is put on a prompt line, on a screen of any   *)
(* size and for any messages without the prompt's first character, unless  *)
(* a key or a report came between: printk and printkln, vga_api.c.         *)
THEOREM MessagesKeptApart == PlainTexts => (ConsoleSpec => MessagesApart)
<1> SUFFICES ASSUME PlainTexts PROVE ConsoleSpec => MessagesApart
  OBVIOUS
<1>1. PrintInv /\ [ConsoleNext]_consoleVars =>
        [printing # NoCall /\ left # <<>> /\ left' # left /\ quiet =>
            (PromptSeen => current_col = Len(CONSOLE_PROMPT))']_consoleVars
  <2> SUFFICES ASSUME PrintInv, [ConsoleNext]_consoleVars,
                      printing # NoCall, left # <<>>, left' # left, quiet
               PROVE  (PromptSeen => current_col = Len(CONSOLE_PROMPT))'
    OBVIOUS
  <2>1. Apart
    BY MessageSteps, Displayed
  <2>2. Len(CONSOLE_PROMPT) = 2
    BY PromptParts
  <2> QED BY <2>1, <2>2 DEF Apart
<1>2. ConsoleInit => PrintInv
  BY PrintInit
<1>3. PrintInv /\ [ConsoleNext]_consoleVars => PrintInv'
  BY PrintNext
<1> QED BY <1>1, <1>2, <1>3, PTL DEF ConsoleSpec, MessagesApart

(* The prompt after a message, whatever the texts are: lines, then the     *)
(* prompt at the start of a line, then its second character.               *)
Lined == \E w \in Seq(Character) :
            w # <<>> /\ left = w \o CONSOLE_PROMPT /\ w[Len(w)] = LineFeed

BackInv ==
    ConsoleInv /\ (quiet /\ Prompted /\ left # <<>> => Lined \/ AtPrompt \/ InPrompt)

LEMMA BackShown ==
    ASSUME BackInv, DisplayNext, quiet, Prompted
    PROVE  /\ printing' # NoCall => Lined' \/ AtPrompt' \/ InPrompt'
           /\ printing' = NoCall => (PromptSeen /\ current_col = 2)'
<1>s. PICK s : s = Screen
  OBVIOUS
<1>c. PICK c : c = Head(left)
  OBVIOUS
<1>e. PICK e : e = VGA_display_char(s, c)
  OBVIOUS
<1>0. s \in Screens /\ left \in Seq(Character) /\ left # <<>>
  BY <1>s DEF BackInv, ConsoleInv, DisplayNext
<1>1. e \in Screens /\ Screen' = e
  <2>1. c \in Character
    BY <1>0, <1>c
  <2>2. e \in Screens
    BY <1>0, <1>e, <2>1, DisplayTidy
  <2> QED BY <1>c, <1>e, <1>s, <2>2, ShowIs DEF DisplayNext
<1>2. /\ left' = Tail(left) /\ is_p' = is_p
      /\ printing' = IF Len(left) = 1 THEN NoCall ELSE printing
  BY DEF DisplayNext
<1>3. Lined \/ AtPrompt \/ InPrompt
  BY <1>0 DEF BackInv
<1>4. CASE Lined
  <2>1. PICK w \in Seq(Character) :
            w # <<>> /\ left = w \o CONSOLE_PROMPT /\ w[Len(w)] = LineFeed
    BY <1>4 DEF Lined
  <2>2. /\ Head(left) = w[1] /\ Tail(left) = Tail(w) \o CONSOLE_PROMPT
        /\ Len(left) = Len(w) + 2 /\ Len(w) \in Nat /\ Len(w) >= 1
        /\ Tail(w) \in Seq(Character) /\ Len(Tail(w)) = Len(w) - 1
    BY <2>1, PromptParts
  <2>3. printing' = printing /\ (Prompted' <=> Prompted) /\ printing # NoCall
    BY <1>2, <2>2 DEF Prompted, NoCall
  <2>4. CASE Len(w) = 1
    <3>1. PICK v : v = Tail(w)
      OBVIOUS
    <3>2. v = <<>>
      <4>1. v \in Seq(Character) /\ Len(v) = 0
        BY <2>2, <2>4, <3>1
      <4> QED BY <4>1
    <3>3. <<>> \o CONSOLE_PROMPT = CONSOLE_PROMPT
      BY PromptParts
    <3>4. left' = CONSOLE_PROMPT
      <4>1. left' = v \o CONSOLE_PROMPT
        BY <1>2, <2>2, <3>1
      <4> QED BY <3>2, <3>3, <4>1, Zenon
    <3>5. c = LineFeed
      BY <1>c, <2>1, <2>2, <2>4
    <3>6. e.col = 0
      BY <1>0, <1>e, <3>5, PromptParts, DisplayPlain
    <3>7. current_col' = 0
      BY <1>1, <3>6 DEF Screen
    <3> QED BY <2>3, <3>4, <3>7 DEF AtPrompt
  <2>5. CASE Len(w) # 1
    <3>1. PICK v : v = Tail(w)
      OBVIOUS
    <3>2. v \in Seq(Character) /\ Len(v) >= 1 /\ Len(v) = Len(w) - 1
      BY <2>2, <2>5, <3>1
    <3>3. v[Len(v)] = LineFeed
      <4>1. v[Len(w) - 1] = w[(Len(w) - 1) + 1]
        BY <2>1, <2>2, <2>5, <3>1
      <4>2. (Len(w) - 1) + 1 = Len(w)
        BY <2>2
      <4> QED BY <2>1, <3>2, <4>1, <4>2
    <3>4. v # <<>>
      BY <3>2
    <3>5. left' = v \o CONSOLE_PROMPT
      BY <1>2, <2>2, <3>1
    <3> QED BY <2>3, <3>2, <3>3, <3>4, <3>5 DEF Lined
  <2> QED BY <2>3, <2>4, <2>5
<1>5. CASE AtPrompt
  <2>1. c = ">" /\ left' = <<Space>> /\ printing' = printing /\ printing # NoCall
    BY <1>2, <1>5, <1>c, PromptParts DEF AtPrompt, Prompted, NoCall
  <2>2. s.col = 0
    BY <1>5, <1>s DEF AtPrompt, Screen
  <2>3. Opened(e)
    BY <1>0, <1>e, <2>1, <2>2, PromptOpens DEF Opened
  <2>4. Opened(Screen)'
    BY <1>1, <2>3 DEF Opened
  <2> QED BY <1>2, <2>1, <2>4 DEF InPrompt, Prompted
<1>6. CASE InPrompt
  <2>1. c = Space /\ Len(left) = 1
    BY <1>6, <1>c DEF InPrompt
  <2>2. e.col = 2 /\ OnPrompt(e)
    BY <1>0, <1>6, <1>e, <1>s, <2>1, PromptCloses DEF InPrompt
  <2>3. PromptSeen' /\ current_col' = 2
    <3>1. OnPrompt(Screen)' <=> OnPrompt(e)
      BY <1>1 DEF OnPrompt
    <3> QED BY <1>1, <2>2, <3>1, SeenNext DEF Screen
  <2> QED BY <1>2, <2>1, <2>3
<1> QED BY <1>3, <1>4, <1>5, <1>6

LEMMA BackInit == ConsoleInit => BackInv
<1> SUFFICES ASSUME ConsoleInit PROVE BackInv
  OBVIOUS
<1>1. ~Prompted
  BY DEF ConsoleInit, Prompted
<1> QED BY <1>1, ConsoleInitInv DEF BackInv

LEMMA BackNext == BackInv /\ [ConsoleNext]_consoleVars => BackInv'
<1> SUFFICES ASSUME BackInv, [ConsoleNext]_consoleVars, quiet', Prompted', left' # <<>>
             PROVE  Lined' \/ AtPrompt' \/ InPrompt'
  BY ConsoleNextInv DEF BackInv
<1>1. CASE \E scan \in ScanCodes : CON_key_action(scan)
  BY <1>1 DEF CON_key_action
<1>2. CASE \E text \in Messages : printk(text) \/ printkln(text)
  BY <1>2 DEF printk, printkln, Begin
<1>3. CASE is_prompt
  <2>1. /\ printing \in [text : Seq(Character), line : BOOLEAN] /\ printing.line
        /\ left = <<>>
    BY <1>3 DEF BackInv, ConsoleInv, Prompted, is_prompt, AskingOver
  <2>2. CASE is_p' = TRUE /\ left' = ToDisplay(printing, TRUE)
    <3>1. PICK x : x = PromptBreak(TRUE) \o printing.text
      OBVIOUS
    <3>2. x \in Seq(Character) /\ LineFeed \in Character
      BY <2>1, <3>1, MessagesAreTexts, PromptParts DEF PromptBreak
    <3>3. PICK w : w = x \o <<LineFeed>>
      OBVIOUS
    <3>4. left' = w \o CONSOLE_PROMPT
      BY <2>1, <2>2, <3>1, <3>3 DEF ToDisplay, LineEnd
    <3>5. w \in Seq(Character) /\ Len(w) = Len(x) + 1 /\ w[Len(x) + 1] = LineFeed
      BY <3>2, <3>3
    <3>6. w # <<>>
      BY <3>2, <3>5
    <3>7. w[Len(w)] = LineFeed
      BY <3>5
    <3> QED BY <3>4, <3>5, <3>6, <3>7 DEF Lined
  <2>3. CASE ~is_p'
    BY <2>3 DEF Prompted
  <2>4. CASE left' = left
    BY <2>1, <2>4
  <2> QED BY <1>3, <2>2, <2>3, <2>4 DEF is_prompt
<1>4. CASE DisplayNext
  <2>1. quiet /\ Prompted /\ printing' # NoCall
    BY <1>4 DEF DisplayNext, Prompted, NoCall
  <2> QED BY <1>4, <2>1, BackShown
<1>5. CASE Report
  BY <1>5 DEF Report
<1>6. ASSUME UNCHANGED <<screenVars, printing, is_p, left, quiet>>
      PROVE  Lined' \/ AtPrompt' \/ InPrompt'
  <2>1. UNCHANGED <<vga_buff, current_row, current_col, printing, is_p, left, quiet>>
    BY <1>6 DEF screenVars
  <2>2. Prompted
    BY <2>1 DEF Prompted
  <2>3. Lined \/ AtPrompt \/ InPrompt
    BY <2>1, <2>2 DEF BackInv
  <2> QED BY <2>1, <2>3 DEF Lined, AtPrompt, InPrompt, Prompted, Opened, Screen
<1>7. CASE sti
  BY <1>6, <1>7 DEF sti
<1>8. CASE UNCHANGED consoleVars
  BY <1>6, <1>8 DEF consoleVars, printVars
<1> QED BY <1>1, <1>2, <1>3, <1>4, <1>5, <1>7, <1>8 DEF ConsoleNext

(* A printkln that found a prompt, and was not disturbed, leaves a prompt  *)
(* with the cursor behind it, on a screen of any size and for any messages *)
(* and keys: printkln's last VGA_display_str.                              *)
THEOREM PromptComesBack == ConsoleSpec => PromptBack
<1>1. BackInv /\ [ConsoleNext]_consoleVars =>
        [printing.line /\ printing' = NoCall /\ is_p /\ quiet =>
            (PromptSeen /\ current_col = Len(CONSOLE_PROMPT))']_consoleVars
  <2> SUFFICES ASSUME BackInv, [ConsoleNext]_consoleVars,
                      printing.line, printing' = NoCall, is_p, quiet
               PROVE  (PromptSeen /\ current_col = Len(CONSOLE_PROMPT))'
    OBVIOUS
  <2>1. printing # NoCall /\ Prompted
    BY DEF NoCall, Prompted
  <2>2. DisplayNext
    BY <2>1, MessageSteps
  <2>3. (PromptSeen /\ current_col = 2)'
    BY <2>1, <2>2, BackShown
  <2>4. Len(CONSOLE_PROMPT) = 2
    BY PromptParts
  <2> QED BY <2>3, <2>4
<1> QED BY <1>1, BackInit, BackNext, PTL DEF ConsoleSpec, PromptBack

-----------------------------------------------------------------------------
(* The screen implements a terminal. The lines of a screen.                *)
Typed == Chars \cup {LineFeed, Tab}

(* A sequence whose members are all in T is a sequence over T.             *)
LEMMA SeqOver ==
    ASSUME NEW S, NEW T, NEW a \in Seq(S), \A i \in 1..Len(a) : a[i] \in T
    PROVE  a \in Seq(T)
  BY SeqDef

(* So is one of whose members the first is replaced.                       *)
LEMMA FirstReplaced ==
    ASSUME NEW S, NEW a \in Seq(S), NEW b \in S
    PROVE  [a EXCEPT ![1] = b] \in Seq(S)
<1>1. PICK n \in Nat : a \in [1..n -> S]
  BY SeqDef
<1>2. [a EXCEPT ![1] = b] \in [1..n -> S]
  BY <1>1
<1> QED BY <1>2, SeqDef

(* What Printable says of Chars and of each constant.                      *)
LEMMA CharsAre ==
    ASSUME Printable
    PROVE  /\ Chars \subseteq Character
           /\ Blank \notin Chars /\ LineFeed \notin Chars /\ Tab \notin Chars
           /\ Backspace \notin Chars /\ NoChar \notin Chars
           /\ {">", " ", "a", "A"} \subseteq Chars
           /\ BeyondTable \subseteq Chars \cup {LineFeed, Tab, Backspace, NoChar}
           /\ {Welcome} \cup Messages \subseteq Seq(Typed)
           /\ Reports \subseteq Seq(Chars \cup {LineFeed})
<1> DEFINE All == {Welcome} \cup Messages \cup Reports
<1>1. All \subseteq Seq(STRING)
  BY ConsoleAssumption
<1>2. \A text \in All : ToSet(text) \subseteq STRING
  <2>1. ASSUME NEW text \in Seq(STRING) PROVE ToSet(text) \subseteq STRING
    BY DEF ToSet
  <2> QED BY <1>1, <2>1
<1>3. \A text \in All : Blank \notin ToSet(text)
  <2>1. ASSUME NEW text \in All PROVE Blank \notin ToSet(text)
    <3>1. text \in Seq(STRING)
      BY <1>1, <2>1
    <3>2. DOMAIN text = 1..Len(text)
      BY <3>1
    <3>3. ASSUME NEW i \in DOMAIN text PROVE text[i] # Blank
      BY <2>1, <3>2, <3>3 DEF Printable
    <3> QED BY <3>3 DEF ToSet
  <2> QED BY <2>1
<1>4. Chars \subseteq Character
  <2>1. BeyondTable \subseteq STRING
    BY ConsoleAssumption
  <2> QED BY <1>2, <2>1 DEF Chars, Character
<1>5. Blank \notin Chars
  <2>1. Blank \notin {">", " ", "a", "A"}
    BY DEF Blank
  <2>2. Blank \notin BeyondTable
    BY DEF Printable
  <2> QED BY <1>3, <2>1, <2>2 DEF Chars
<1>6. LineFeed \notin Chars /\ Tab \notin Chars /\ Backspace \notin Chars /\ NoChar \notin Chars
  BY DEF Chars
<1>7. {">", " ", "a", "A"} \subseteq Chars
  BY DEF Chars, LineFeed, Tab, Backspace, NoChar
<1>8. BeyondTable \subseteq Chars \cup {LineFeed, Tab, Backspace, NoChar}
  BY DEF Chars
<1>9. ASSUME NEW text \in All, NEW i \in 1..Len(text)
      PROVE  text[i] \in Chars \cup {LineFeed, Tab}
  <2>1. text \in Seq(STRING)
    BY <1>1, <1>9
  <2>2. DOMAIN text = 1..Len(text)
    BY <2>1
  <2>3. text[i] \in ToSet(text)
    BY <2>2 DEF ToSet
  <2>4. text[i] \notin {Backspace, NoChar}
    BY <1>9 DEF Printable
  <2> QED BY <1>9, <2>3, <2>4 DEF Chars
<1>10. {Welcome} \cup Messages \subseteq Seq(Typed)
  <2>1. ASSUME NEW text \in {Welcome} \cup Messages PROVE text \in Seq(Typed)
    <3>1. \A i \in 1..Len(text) : text[i] \in Typed
      BY <1>9 DEF Typed
    <3>2. text \in Seq(STRING)
      BY <1>1
    <3> QED BY <3>1, <3>2, SeqOver
  <2> QED BY <2>1
<1>11. Reports \subseteq Seq(Chars \cup {LineFeed})
  <2>1. ASSUME NEW text \in Reports PROVE text \in Seq(Chars \cup {LineFeed})
    <3>1. \A i \in 1..Len(text) : text[i] \in Chars \cup {LineFeed}
      BY <1>9 DEF Printable
    <3>2. text \in Seq(STRING)
      BY <1>1
    <3> QED BY <3>1, <3>2, SeqOver
  <2> QED BY <2>1
<1> QED BY <1>4, <1>5, <1>6, <1>7, <1>8, <1>10, <1>11

(* A cell that a line of the screen may hold.                              *)
Marks == Chars \cup {Blank}

(* A row of cells holds a line up to its last cell that is not blank.      *)
Cut(cells, n) == [i \in 1..n |-> cells[i - 1]]
(* n is where the line of a row ends; EndOf is Line's choice of it.        *)
EndsAt(cells, n) ==
    /\ n \in 0..MAX_COL
    /\ n > 0 => cells[n - 1] # Blank
    /\ \A col \in n..(MAX_COL - 1) : cells[col] = Blank
EndOf(cells) == CHOOSE n \in 0..MAX_COL :
                    /\ n > 0 => cells[n - 1] # Blank
                    /\ \A col \in n..(MAX_COL - 1) : cells[col] = Blank

(* There is at most one end,                                               *)
LEMMA EndIs ==
    ASSUME NEW cells, NEW n, EndsAt(cells, n)
    PROVE  EndOf(cells) = n
<1> DEFINE P(m) == /\ m > 0 => cells[m - 1] # Blank
                   /\ \A col \in m..(MAX_COL - 1) : cells[col] = Blank
<1>1. n \in 0..MAX_COL /\ P(n)
  BY DEF EndsAt
<1>2. ASSUME NEW m \in 0..MAX_COL, P(m) PROVE m = n
  <2>1. ~(m < n)
    <3> SUFFICES ASSUME m < n PROVE FALSE
      OBVIOUS
    <3>1. n - 1 \in m..(MAX_COL - 1) /\ n > 0
      BY <1>1, ConsoleSizes
    <3> QED BY <1>1, <1>2, <3>1
  <2>2. ~(n < m)
    <3> SUFFICES ASSUME n < m PROVE FALSE
      OBVIOUS
    <3>1. m - 1 \in n..(MAX_COL - 1) /\ m > 0
      BY <1>1, ConsoleSizes
    <3> QED BY <1>1, <1>2, <3>1
  <2> QED BY <1>1, <2>1, <2>2, ConsoleSizes
<1> HIDE DEF P
<1>3. (CHOOSE m \in 0..MAX_COL : P(m)) = n
  BY <1>1, <1>2
<1> QED BY <1>3 DEF P, EndOf

(* and there is one.                                                       *)
LEMMA EndExists ==
    ASSUME NEW cells
    PROVE  EndsAt(cells, EndOf(cells))
<1> DEFINE B == {n \in Nat : n <= MAX_COL /\ \A col \in n..(MAX_COL - 1) : cells[col] = Blank}
<1>1. PICK n \in B : \A m \in B : n <= m
  <2>1. B \in SUBSET Nat /\ MAX_COL \in B
    BY ConsoleSizes
  <2> HIDE DEF B
  <2> QED BY <2>1, LeastElement
<1>2. /\ n \in Nat /\ n \in 0..MAX_COL
      /\ \A col \in n..(MAX_COL - 1) : cells[col] = Blank
  BY <1>1, ConsoleSizes
<1>3. ASSUME n > 0 PROVE cells[n - 1] # Blank
  <2> SUFFICES ASSUME cells[n - 1] = Blank PROVE FALSE
    OBVIOUS
  <2>1. \A col \in (n - 1)..(MAX_COL - 1) : col = n - 1 \/ col \in n..(MAX_COL - 1)
    BY <1>2, ConsoleSizes
  <2>2. n - 1 \in B
    BY <1>2, <1>3, <2>1, ConsoleSizes
  <2>3. ~(n <= n - 1)
    BY <1>2
  <2> QED BY <1>1, <2>2, <2>3
<1>5. EndsAt(cells, n)
  BY <1>2, <1>3 DEF EndsAt
<1> QED BY <1>5, EndIs

(* The lines of a screen s, row by row: LinesIn(Screen) is Lines.          *)
Closed(cells) == Cut(cells, EndOf(cells))
LineIn(s, row) == IF row = MAX_ROW THEN <<>> ELSE Closed(s.cells[row])
LinesIn(s) == [i \in 1..(s.row + 1) |-> LineIn(s, i - 1)]

(* No blank left of column n.                                              *)
Filled(cells, n) == \A col \in 0..(n - 1) : cells[col] # Blank
(* A tidy screen of printable cells, with no blank before the cursor. The  *)
(* last row, when the cursor stands at its start, is blank or a copy of    *)
(* the row above it, which ends in its last column.                        *)
Legible(s) ==
    /\ s \in Screens
    /\ \A row \in 0..(MAX_ROW - 1) : s.cells[row] \in [Columns -> Marks]
    /\ s.row < MAX_ROW => Filled(s.cells[s.row], s.col)
    /\ s.row = MAX_ROW - 1 /\ s.col = 0 =>
          s.cells[s.row] = BlankRow \/ s.cells[s.row][MAX_COL - 1] # Blank

(* The line entered on the row of the cursor, as Terminal has it.          *)
EnteredOf(line) == IF Len(line) = MAX_COL THEN <<>> ELSE line

(* The first n cells of a row are a text.                                  *)
LEMMA CutTyped ==
    ASSUME NEW cells \in [Columns -> Marks], NEW n \in 0..MAX_COL
    PROVE  /\ Cut(cells, n) \in Seq(Marks) /\ Len(Cut(cells, n)) = n
           /\ \A i \in 1..n : Cut(cells, n)[i] = cells[i - 1]
<1>1. ASSUME NEW i \in 1..n PROVE cells[i - 1] \in Marks
  <2>1. i - 1 \in Columns
    BY ConsoleSizes DEF Columns
  <2> QED BY <2>1
<1>2. n \in Nat
  BY ConsoleSizes
<1> QED BY <1>1, <1>2 DEF Cut

(* So is a row up to its end, wherever that is.                            *)
LEMMA ClosedTyped ==
    ASSUME NEW cells \in [Columns -> Marks]
    PROVE  Closed(cells) \in Seq(Marks)
<1>1. EndsAt(cells, EndOf(cells))
  BY EndExists
<1> QED BY <1>1, CutTyped DEF Closed, EndsAt

(* An end found is the end.                                                *)
LEMMA ClosedIs ==
    ASSUME NEW cells, NEW n, EndsAt(cells, n)
    PROVE  Closed(cells) = Cut(cells, n)
  BY EndIs DEF Closed

(* Nothing is left of column 0, nor on a blank row.                        *)
LEMMA NoneCut == ASSUME NEW cells PROVE Cut(cells, 0) = <<>>
  BY DEF Cut

LEMMA BlankClosed == Closed(BlankRow) = <<>>
<1>1. EndsAt(BlankRow, 0)
  BY ConsoleSizes DEF EndsAt, BlankRow, Columns
<1> QED BY <1>1, ClosedIs, NoneCut

(* What Legible says, part by part.                                        *)
LEMMA LegibleParts ==
    ASSUME NEW s, Legible(s)
    PROVE  /\ s \in [cells : Cells, row : Rows, col : Columns]
           /\ s.row \in 0..MAX_ROW /\ s.col \in 0..(MAX_COL - 1)
           /\ s.row = MAX_ROW => s.col = 0
           /\ s.cells \in Cells
           /\ \A row \in 0..(MAX_ROW - 1) : s.cells[row] \in [Columns -> Marks]
           /\ \A row \in (s.row + 1)..(MAX_ROW - 1) : s.cells[row] = BlankRow
           /\ s.row < MAX_ROW => Filled(s.cells[s.row], s.col)
           /\ s.row < MAX_ROW =>
                \/ \A col \in s.col..(MAX_COL - 1) : s.cells[s.row][col] = Blank
                \/ s.row = MAX_ROW - 1 /\ s.col = 0
  BY DEF Legible, Screens, Tidy, Rows, Columns

(* The row of the cursor: a line up to the cursor, or a copy behind it.    *)
LEMMA CursorRow ==
    ASSUME NEW s, Legible(s), s.row < MAX_ROW, NEW x, x = Closed(s.cells[s.row])
    PROVE  /\ x \in Seq(Marks)
           /\ \/ x = Cut(s.cells[s.row], s.col) /\ Len(x) = s.col /\ Len(x) # MAX_COL
              \/ /\ s.col = 0 /\ s.row = MAX_ROW - 1 /\ Len(x) = MAX_COL
                 /\ x = Cut(s.cells[s.row], MAX_COL)
           /\ EnteredOf(x) = Cut(s.cells[s.row], s.col)
<1>1. /\ s.row \in 0..(MAX_ROW - 1) /\ s.col \in 0..(MAX_COL - 1) /\ s.col \in 0..MAX_COL
      /\ s.cells[s.row] \in [Columns -> Marks]
      /\ Filled(s.cells[s.row], s.col)
      /\ \/ \A col \in s.col..(MAX_COL - 1) : s.cells[s.row][col] = Blank
         \/ s.row = MAX_ROW - 1 /\ s.col = 0
  BY LegibleParts, ConsoleSizes
<1>2. x \in Seq(Marks)
  BY <1>1, ClosedTyped
<1>3. CASE \A col \in s.col..(MAX_COL - 1) : s.cells[s.row][col] = Blank
  <2>1. s.col > 0 => s.cells[s.row][s.col - 1] # Blank
    <3>1. s.col > 0 => s.col - 1 \in 0..(s.col - 1)
      BY <1>1, ConsoleSizes
    <3> QED BY <1>1, <3>1 DEF Filled
  <2>2. EndsAt(s.cells[s.row], s.col)
    BY <1>1, <1>3, <2>1 DEF EndsAt
  <2>3. x = Cut(s.cells[s.row], s.col) /\ Len(x) = s.col
    BY <1>1, <2>2, ClosedIs, CutTyped
  <2>4. s.col # MAX_COL
    BY <1>1, ConsoleSizes
  <2> QED BY <1>2, <2>3, <2>4 DEF EnteredOf
<1>4. CASE ~(\A col \in s.col..(MAX_COL - 1) : s.cells[s.row][col] = Blank)
  <2>1. s.row = MAX_ROW - 1 /\ s.col = 0
    BY <1>1, <1>4
  <2>2. s.cells[s.row] # BlankRow
    <3>1. ASSUME NEW col \in s.col..(MAX_COL - 1) PROVE BlankRow[col] = Blank
      BY <2>1, ConsoleSizes DEF BlankRow, Columns
    <3> QED BY <1>4, <3>1
  <2>3. s.cells[s.row][MAX_COL - 1] # Blank
    BY <2>1, <2>2 DEF Legible
  <2>4. EndsAt(s.cells[s.row], MAX_COL)
    BY <2>3, ConsoleSizes DEF EndsAt
  <2>5. MAX_COL \in 0..MAX_COL
    BY ConsoleSizes
  <2>6. x = Cut(s.cells[s.row], MAX_COL) /\ Len(x) = MAX_COL
    <3>1. x = Cut(s.cells[s.row], MAX_COL)
      BY <2>4, ClosedIs
    <3>2. Len(Cut(s.cells[s.row], MAX_COL)) = MAX_COL
      BY <1>1, <2>5, CutTyped
    <3> QED BY <3>1, <3>2
  <2>7. EnteredOf(x) = Cut(s.cells[s.row], s.col)
    BY <2>1, <2>6, NoneCut DEF EnteredOf
  <2> QED BY <1>2, <2>1, <2>6, <2>7
<1> QED BY <1>3, <1>4

(* The line of a row on the screen is that row, closed.                    *)
LEMMA RowLine ==
    ASSUME NEW s, NEW row \in 0..(MAX_ROW - 1)
    PROVE  LineIn(s, row) = Closed(s.cells[row])
<1>1. row # MAX_ROW
  BY ConsoleSizes
<1> QED BY <1>1 DEF LineIn

(* The lines of a legible screen are texts, one for each row to the        *)
(* cursor.                                                                 *)
LEMMA LinesTyped ==
    ASSUME NEW s, Legible(s)
    PROVE  /\ LinesIn(s) \in Seq(Seq(Marks)) /\ Len(LinesIn(s)) = s.row + 1
           /\ \A i \in 1..(s.row + 1) : LinesIn(s)[i] = LineIn(s, i - 1)
           /\ LinesIn(s)[s.row + 1] = LineIn(s, s.row)
           /\ EnteredOf(LineIn(s, s.row)) = Cut(s.cells[s.row], s.col)
           /\ Len(Cut(s.cells[s.row], s.col)) = s.col
           /\ Cut(s.cells[s.row], s.col) \in Seq(Marks)
<1>1. /\ s.row \in 0..MAX_ROW /\ s.col \in 0..(MAX_COL - 1)
      /\ s.row = MAX_ROW => s.col = 0
      /\ \A row \in 0..(MAX_ROW - 1) : s.cells[row] \in [Columns -> Marks]
  BY LegibleParts
<1>2. <<>> \in Seq(Marks) /\ Len(<<>>) = 0 /\ EnteredOf(<<>>) = <<>>
  BY DEF EnteredOf
<1>3. /\ EnteredOf(LineIn(s, s.row)) = Cut(s.cells[s.row], s.col)
      /\ Cut(s.cells[s.row], s.col) \in Seq(Marks) /\ Len(Cut(s.cells[s.row], s.col)) = s.col
  <2>1. CASE s.row = MAX_ROW
    <3>1. s.col = 0 /\ Cut(s.cells[s.row], s.col) = <<>>
      BY <1>1, <2>1, NoneCut
    <3>2. LineIn(s, s.row) = <<>>
      BY <2>1 DEF LineIn
    <3> QED BY <1>2, <3>1, <3>2
  <2>2. CASE s.row < MAX_ROW
    <3>1. s.row \in 0..(MAX_ROW - 1) /\ s.col \in 0..MAX_COL
      BY <1>1, <2>2, ConsoleSizes
    <3>2. LineIn(s, s.row) = Closed(s.cells[s.row])
      BY <3>1, RowLine
    <3> QED BY <1>1, <2>2, <3>1, <3>2, CutTyped, CursorRow
  <2> QED BY <1>1, <2>1, <2>2, ConsoleSizes
<1>4. ASSUME NEW i \in 1..(s.row + 1) PROVE LineIn(s, i - 1) \in Seq(Marks)
  <2>1. CASE i - 1 = MAX_ROW
    BY <1>2, <2>1 DEF LineIn
  <2>2. CASE i - 1 # MAX_ROW
    <3>1. i - 1 \in 0..(MAX_ROW - 1)
      BY <1>1, <2>2, ConsoleSizes
    <3> QED BY <1>1, <3>1, ClosedTyped, RowLine
  <2> QED BY <2>1, <2>2
<1>5. s.row + 1 \in Nat /\ s.row + 1 \in 1..(s.row + 1) /\ (s.row + 1) - 1 = s.row
  BY <1>1, ConsoleSizes
<1>6. LinesIn(s) \in Seq(Seq(Marks)) /\ Len(LinesIn(s)) = s.row + 1
  BY <1>4, <1>5 DEF LinesIn
<1>7. \A i \in 1..(s.row + 1) : LinesIn(s)[i] = LineIn(s, i - 1)
  BY DEF LinesIn
<1>8. LinesIn(s)[s.row + 1] = LineIn(s, s.row)
  BY <1>5, <1>7
<1> QED BY <1>3, <1>6, <1>7, <1>8

(* What a step makes of a list of lines: the last one becomes x; x is      *)
(* closed and y follows; the first one is lost; both.                      *)
Replaced(L, M, x) ==
    /\ Len(M) = Len(L)
    /\ \A i \in 1..(Len(L) - 1) : M[i] = L[i]
    /\ M[Len(L)] = x
Fresh(L, M, x, y) ==
    /\ Len(M) = Len(L) + 1
    /\ \A i \in 1..(Len(L) - 1) : M[i] = L[i]
    /\ M[Len(L)] = x /\ M[Len(L) + 1] = y
Dropped(L, M) == Len(M) = Len(L) - 1 /\ \A i \in 1..Len(M) : M[i] = L[i + 1]
Scrolled(L, M, x, y) ==
    /\ Len(M) = Len(L)
    /\ \A i \in 1..(Len(L) - 2) : M[i] = L[i + 1]
    /\ M[Len(L) - 1] = x /\ M[Len(L)] = y

(* Making room: the top line leaves the screen.                            *)
LEMMA RoomLines ==
    ASSUME NEW s, Legible(s), NEW t, t = RoomMade(s)
    PROVE  /\ Legible(t) /\ t.row < MAX_ROW
           /\ \/ t = s
              \/ s.row = MAX_ROW /\ t.row = MAX_ROW - 1 /\ Dropped(LinesIn(s), LinesIn(t))
<1>1. /\ s \in [cells : Cells, row : Rows, col : Columns]
      /\ s.row \in 0..MAX_ROW /\ s.col \in 0..(MAX_COL - 1)
      /\ s.row = MAX_ROW => s.col = 0
      /\ s.cells \in Cells
      /\ \A row \in 0..(MAX_ROW - 1) : s.cells[row] \in [Columns -> Marks]
  BY LegibleParts
<1>2. CASE s.row < MAX_ROW
  BY <1>2 DEF RoomMade
<1>3. CASE s.row = MAX_ROW
  <2>c. PICK cells : cells = clear_row(scroll(s.cells), MAX_ROW - 1)
    OBVIOUS
  <2>1. t \in Screens /\ t \in OnScreen
    BY RoomMadeTidy DEF OnScreen, Legible
  <2>2. t.cells = cells /\ t.row = MAX_ROW - 1 /\ t.col = 0
    <3>1. t = [s EXCEPT !.cells = cells, !.row = MAX_ROW - 1]
      BY <1>3, <2>c, ConsoleSizes DEF RoomMade
    <3> QED BY <1>1, <1>3, <3>1
  <2>3. \A row \in 0..(MAX_ROW - 2) : cells[row] = s.cells[row + 1]
    <3>1. ASSUME NEW row \in 0..(MAX_ROW - 2) PROVE cells[row] = s.cells[row + 1]
      <4>1. row \in Rows /\ row < MAX_ROW - 1 /\ row # MAX_ROW - 1
        BY ConsoleSizes DEF Rows
      <4>2. scroll(s.cells)[row] = s.cells[row + 1]
        BY <4>1 DEF scroll
      <4> QED BY <2>c, <4>1, <4>2 DEF clear_row, scroll
    <3> QED BY <3>1
  <2>4. cells[MAX_ROW - 1] = BlankRow
    <3>1. MAX_ROW - 1 \in Rows
      BY ConsoleSizes DEF Rows
    <3> QED BY <2>c, <3>1 DEF clear_row, scroll
  <2>5. BlankRow \in [Columns -> Marks]
    BY DEF BlankRow, Marks
  <2>6. \A row \in 0..(MAX_ROW - 1) : t.cells[row] \in [Columns -> Marks]
    <3>1. ASSUME NEW row \in 0..(MAX_ROW - 1)
          PROVE  cells[row] \in [Columns -> Marks]
      <4>1. CASE row = MAX_ROW - 1
        BY <2>4, <2>5, <4>1
      <4>2. CASE row # MAX_ROW - 1
        <5>1. row \in 0..(MAX_ROW - 2) /\ row + 1 \in 0..(MAX_ROW - 1)
          BY <4>2, ConsoleSizes
        <5> QED BY <1>1, <2>3, <5>1
      <4> QED BY <4>1, <4>2
    <3> QED BY <2>2, <3>1
  <2>7. Legible(t)
    <3>1. Filled(t.cells[t.row], t.col)
      BY <2>2 DEF Filled
    <3> QED BY <2>1, <2>2, <2>4, <2>5, <2>6, <3>1 DEF Legible
  <2>8. Dropped(LinesIn(s), LinesIn(t))
    <3>1. /\ Len(LinesIn(s)) = MAX_ROW + 1 /\ Len(LinesIn(t)) = MAX_ROW
          /\ \A i \in 1..(MAX_ROW + 1) : LinesIn(s)[i] = LineIn(s, i - 1)
          /\ \A i \in 1..MAX_ROW : LinesIn(t)[i] = LineIn(t, i - 1)
      <4>1. (MAX_ROW - 1) + 1 = MAX_ROW
        BY ConsoleSizes
      <4> QED BY <1>3, <2>2, <2>7, <4>1, LinesTyped
    <3>2. ASSUME NEW i \in 1..MAX_ROW PROVE LinesIn(t)[i] = LinesIn(s)[i + 1]
      <4>1. i + 1 \in 1..(MAX_ROW + 1) /\ (i + 1) - 1 = i
        BY ConsoleSizes
      <4>2. CASE i = MAX_ROW
        <5>1. LineIn(s, i) = <<>>
          BY <4>2 DEF LineIn
        <5>2. LineIn(t, i - 1) = <<>>
          <6>1. MAX_ROW - 1 \in 0..(MAX_ROW - 1)
            BY ConsoleSizes
          <6> QED BY <2>2, <2>4, <4>2, <6>1, BlankClosed, RowLine
        <5> QED BY <3>1, <4>1, <5>1, <5>2
      <4>3. CASE i # MAX_ROW
        <5>1. /\ i - 1 \in 0..(MAX_ROW - 2) /\ (i - 1) + 1 = i
              /\ i - 1 \in 0..(MAX_ROW - 1) /\ i \in 0..(MAX_ROW - 1)
          BY <4>3, ConsoleSizes
        <5>2. LineIn(s, i) = Closed(s.cells[i])
          BY <5>1, RowLine
        <5>3. LineIn(t, i - 1) = Closed(t.cells[i - 1])
          BY <5>1, RowLine
        <5>4. t.cells[i - 1] = s.cells[i]
          BY <2>2, <2>3, <5>1
        <5> QED BY <3>1, <4>1, <5>2, <5>3, <5>4
      <4> QED BY <4>2, <4>3
    <3> QED BY <3>1, <3>2, ConsoleSizes DEF Dropped
  <2> QED BY <1>3, <2>2, <2>7, <2>8, ConsoleSizes
<1> QED BY <1>1, <1>2, <1>3, ConsoleSizes

(* A line feed of VGA_display_char closes the row of the cursor as it is.  *)
LEMMA FeedLines ==
    ASSUME NEW t, Legible(t), t.row < MAX_ROW,
           NEW e, e = [t EXCEPT !.row = t.row + 1, !.col = 0]
    PROVE  /\ Legible(e)
           /\ Fresh(LinesIn(t), LinesIn(e), LineIn(t, t.row), <<>>)
<1>1. /\ t \in [cells : Cells, row : Rows, col : Columns]
      /\ t.row \in 0..(MAX_ROW - 1) /\ t.row \in Nat
      /\ \A row \in 0..(MAX_ROW - 1) : t.cells[row] \in [Columns -> Marks]
      /\ \A row \in (t.row + 1)..(MAX_ROW - 1) : t.cells[row] = BlankRow
  BY LegibleParts, ConsoleSizes
<1>2. e.row = t.row + 1 /\ e.col = 0 /\ e.cells = t.cells
  BY <1>1
<1>3. e \in Screens
  <2>1. LineFeed \in Character
    BY DEF Character
  <2>2. RoomMade(t) = t
    BY DEF RoomMade
  <2>3. VGA_display_char(t, LineFeed) = e
    BY <2>2 DEF VGA_display_char
  <2>4. t \in Screens
    BY DEF Legible
  <2> QED BY <2>1, <2>3, <2>4, DisplayTidy
<1>4. e.row < MAX_ROW => e.cells[e.row] = BlankRow /\ e.row \in 0..(MAX_ROW - 1)
  <2>1. e.row < MAX_ROW => e.row \in (t.row + 1)..(MAX_ROW - 1) /\ e.row \in 0..(MAX_ROW - 1)
    BY <1>1, <1>2, ConsoleSizes
  <2> QED BY <1>1, <1>2, <2>1
<1>5. Legible(e)
  <2>1. e.row < MAX_ROW => Filled(e.cells[e.row], e.col)
    BY <1>2 DEF Filled
  <2>2. e.row = MAX_ROW - 1 => e.cells[e.row] = BlankRow
    BY <1>4, ConsoleSizes
  <2> QED BY <1>1, <1>2, <1>3, <2>1, <2>2 DEF Legible
<1>6. LineIn(e, t.row + 1) = <<>>
  <2>1. CASE t.row + 1 = MAX_ROW
    BY <2>1 DEF LineIn
  <2>2. CASE t.row + 1 < MAX_ROW
    BY <1>2, <1>4, <2>2, BlankClosed, RowLine
  <2> QED BY <1>1, <2>1, <2>2, ConsoleSizes
<1>L. PICK L, M : L = LinesIn(t) /\ M = LinesIn(e)
  OBVIOUS
<1>7. /\ Len(L) = t.row + 1 /\ Len(M) = t.row + 2
      /\ \A i \in 1..(t.row + 1) : L[i] = LineIn(t, i - 1)
      /\ \A i \in 1..(t.row + 2) : M[i] = LineIn(e, i - 1)
  <2>1. (t.row + 1) + 1 = t.row + 2
    BY <1>1
  <2> QED BY <1>2, <1>5, <1>L, <2>1, LinesTyped
<1>8. \A row : LineIn(e, row) = LineIn(t, row)
  BY <1>2 DEF LineIn
<1>9. ASSUME NEW i \in 1..(t.row + 1) PROVE M[i] = L[i]
  <2>1. i \in 1..(t.row + 2)
    BY <1>1
  <2> QED BY <1>7, <1>8, <2>1
<1>10. /\ t.row + 1 \in 1..(t.row + 1) /\ (t.row + 1) - 1 = t.row
       /\ t.row + 2 \in 1..(t.row + 2) /\ (t.row + 2) - 1 = t.row + 1
       /\ t.row + 2 = (t.row + 1) + 1
       /\ \A i \in 1..t.row : i \in 1..(t.row + 1)
  BY <1>1
<1>11. M[t.row + 1] = LineIn(t, t.row) /\ M[t.row + 2] = <<>>
  BY <1>6, <1>7, <1>9, <1>10
<1>12. Fresh(L, M, LineIn(t, t.row), <<>>)
  BY <1>7, <1>9, <1>10, <1>11 DEF Fresh
<1> QED BY <1>5, <1>12, <1>L

(* The row it is written in.                                               *)
LEMMA CharacterRow ==
    ASSUME Printable, NEW t, Legible(t), t.row < MAX_ROW, NEW c \in Chars,
           NEW line, line = RowWith(t, c)
    PROVE  /\ line \in [Columns -> Marks]
           /\ Filled(line, t.col + 1)
           /\ \A col \in (t.col + 1)..(MAX_COL - 1) : line[col] = Blank
           /\ Cut(line, t.col + 1) = Append(Cut(t.cells[t.row], t.col), c)
           /\ Len(Cut(line, t.col + 1)) = t.col + 1
           /\ Cut(line, t.col + 1) \in Seq(Marks)
<1>1. /\ t.row \in 0..(MAX_ROW - 1) /\ t.col \in 0..(MAX_COL - 1) /\ t.col \in Nat
      /\ t.cells[t.row] \in [Columns -> Marks]
      /\ Filled(t.cells[t.row], t.col)
      /\ \/ \A col \in t.col..(MAX_COL - 1) : t.cells[t.row][col] = Blank
         \/ t.row = MAX_ROW - 1 /\ t.col = 0
  BY LegibleParts, ConsoleSizes
<1>o. PICK old : old = IF t.col = 0 THEN BlankRow ELSE t.cells[t.row]
  OBVIOUS
<1>2. old \in [Columns -> Marks] /\ line = [old EXCEPT ![t.col] = c]
  BY <1>1, <1>o DEF BlankRow, RowWith, Marks
<1>3. t.col \in Columns /\ c # Blank /\ c \in Marks
  BY <1>1, CharsAre DEF Columns, Marks
<1>4. line \in [Columns -> Marks] /\ line[t.col] = c
      /\ \A col \in Columns : col # t.col => line[col] = old[col]
  BY <1>2, <1>3
<1>5. \A col \in 0..(t.col - 1) : line[col] = t.cells[t.row][col] /\ line[col] # Blank
  <2>1. ASSUME NEW col \in 0..(t.col - 1)
        PROVE  line[col] = t.cells[t.row][col] /\ line[col] # Blank
    <3>1. col \in Columns /\ col # t.col /\ t.col # 0
      BY <1>1, ConsoleSizes DEF Columns
    <3>2. line[col] = t.cells[t.row][col]
      BY <1>4, <1>o, <3>1
    <3> QED BY <1>1, <3>2 DEF Filled
  <2> QED BY <2>1
<1>6. Filled(line, t.col + 1)
  <2>1. ASSUME NEW col \in 0..((t.col + 1) - 1) PROVE line[col] # Blank
    <3>1. col = t.col \/ col \in 0..(t.col - 1)
      BY <1>1
    <3> QED BY <1>3, <1>4, <1>5, <3>1
  <2> QED BY <2>1 DEF Filled
<1>7. ASSUME NEW col \in (t.col + 1)..(MAX_COL - 1) PROVE line[col] = Blank
  <2>1. col \in Columns /\ col # t.col /\ col \in t.col..(MAX_COL - 1)
    BY <1>1, ConsoleSizes DEF Columns
  <2>2. old[col] = Blank
    <3>1. CASE t.col = 0
      BY <1>o, <2>1, <3>1 DEF BlankRow
    <3>2. CASE t.col # 0
      BY <1>1, <1>o, <2>1, <3>2
    <3> QED BY <3>1, <3>2
  <2> QED BY <1>4, <2>1, <2>2
<1>8. t.col + 1 \in 0..MAX_COL /\ t.col \in 0..MAX_COL
  BY <1>1, ConsoleSizes
<1>9. /\ Cut(line, t.col + 1) \in Seq(Marks) /\ Len(Cut(line, t.col + 1)) = t.col + 1
      /\ \A i \in 1..(t.col + 1) : Cut(line, t.col + 1)[i] = line[i - 1]
  BY <1>4, <1>8, CutTyped
<1>10. /\ Cut(t.cells[t.row], t.col) \in Seq(Marks) /\ Len(Cut(t.cells[t.row], t.col)) = t.col
       /\ \A i \in 1..t.col : Cut(t.cells[t.row], t.col)[i] = t.cells[t.row][i - 1]
  BY <1>1, <1>8, CutTyped
<1>11. Cut(line, t.col + 1) = Append(Cut(t.cells[t.row], t.col), c)
  <2>1. PICK a \in Seq(Marks) : a = Cut(t.cells[t.row], t.col)
    BY <1>10
  <2>2. PICK b \in Seq(Marks) : b = Cut(line, t.col + 1)
    BY <1>9
  <2>3. \A i \in 1..t.col : b[i] = a[i]
    <3>1. ASSUME NEW i \in 1..t.col PROVE b[i] = a[i]
      <4>1. i \in 1..(t.col + 1) /\ i - 1 \in 0..(t.col - 1)
        BY <1>1
      <4> QED BY <1>5, <1>9, <1>10, <2>1, <2>2, <4>1
    <3> QED BY <3>1
  <2>4. b[t.col + 1] = c
    <3>1. t.col + 1 \in 1..(t.col + 1) /\ (t.col + 1) - 1 = t.col
      BY <1>1
    <3> QED BY <1>4, <1>9, <2>2, <3>1
  <2>5. Len(a) = t.col /\ Len(b) = t.col + 1
    BY <1>9, <1>10, <2>1, <2>2
  <2>6. ASSUME NEW n \in Nat, Len(a) = n, Len(b) = n + 1, \A i \in 1..n : b[i] = a[i],
               b[n + 1] = c
        PROVE  b = Append(a, c)
    BY <2>6
  <2> QED BY <1>1, <2>1, <2>2, <2>3, <2>4, <2>5, <2>6
<1> QED BY <1>4, <1>6, <1>7, <1>9, <1>11

(* What Written makes of the cells.                                        *)
LEMMA WrittenIs ==
    ASSUME NEW t, Legible(t), t.row < MAX_ROW, NEW c,
           NEW cells, cells = [t.cells EXCEPT ![t.row] = RowWith(t, c)]
    PROVE  Written(t, c) =
              IF t.col + 1 < MAX_COL THEN [t EXCEPT !.cells = cells, !.col = t.col + 1]
              ELSE IF t.row + 1 < MAX_ROW THEN [cells |-> cells, row |-> t.row + 1, col |-> 0]
              ELSE [cells |-> scroll(cells), row |-> t.row, col |-> 0]
<1>1. t.cells \in Cells /\ t.row \in Rows
  BY LegibleParts DEF Rows
<1>f. PICK fresh : fresh = IF t.col = 0 THEN clear_row(t.cells, t.row) ELSE t.cells
  OBVIOUS
<1>2. [fresh EXCEPT ![t.row][t.col] = c] = cells
  <2>1. CASE t.col = 0
    <3>1. fresh = [t.cells EXCEPT ![t.row] = BlankRow]
      BY <1>f, <2>1 DEF clear_row
    <3>2. RowWith(t, c) = [BlankRow EXCEPT ![t.col] = c]
      BY <2>1 DEF RowWith
    <3> QED BY <1>1, <3>1, <3>2 DEF Cells
  <2>2. CASE t.col # 0
    <3>1. fresh = t.cells
      BY <1>f, <2>2
    <3>2. RowWith(t, c) = [t.cells[t.row] EXCEPT ![t.col] = c]
      BY <2>2 DEF RowWith
    <3> QED BY <3>1, <3>2
  <2> QED BY <2>1, <2>2
<1> QED BY <1>2, <1>f DEF Written

(* VGA_display_char of one cell: it extends the line of the cursor, and    *)
(* wraps, with scroll on the last row, when the line is full.              *)
LEMMA WrittenLines ==
    ASSUME Printable, NEW t, Legible(t), t.row < MAX_ROW, NEW c \in Chars,
           NEW e, e = Written(t, c), NEW x, x = Append(Cut(t.cells[t.row], t.col), c)
    PROVE  /\ Legible(e) /\ e.row < MAX_ROW
           /\ x \in Seq(Marks) /\ Len(x) <= MAX_COL
           /\ Len(x) < MAX_COL => Replaced(LinesIn(t), LinesIn(e), x)
           /\ Len(x) = MAX_COL =>
                \/ t.row + 1 < MAX_ROW /\ Fresh(LinesIn(t), LinesIn(e), x, <<>>)
                \/ t.row + 1 = MAX_ROW /\ Scrolled(LinesIn(t), LinesIn(e), x, x)
<1>1. /\ t \in [cells : Cells, row : Rows, col : Columns] /\ t.cells \in Cells
      /\ t.row \in 0..(MAX_ROW - 1) /\ t.row \in Nat /\ t.row \in Rows
      /\ t.col \in 0..(MAX_COL - 1) /\ t.col \in Nat
      /\ \A row \in 0..(MAX_ROW - 1) : t.cells[row] \in [Columns -> Marks]
      /\ \A row \in (t.row + 1)..(MAX_ROW - 1) : t.cells[row] = BlankRow
  BY LegibleParts, ConsoleSizes DEF Rows
<1>l. PICK line : line = RowWith(t, c)
  OBVIOUS
<1>2. /\ line \in [Columns -> Marks]
      /\ Filled(line, t.col + 1)
      /\ \A col \in (t.col + 1)..(MAX_COL - 1) : line[col] = Blank
      /\ Cut(line, t.col + 1) = x /\ Len(x) = t.col + 1 /\ x \in Seq(Marks)
  BY <1>l, CharacterRow
<1>e. line[t.col] # Blank /\ Closed(line) = x
  <2>1. t.col \in 0..((t.col + 1) - 1) /\ (t.col + 1) - 1 = t.col
        /\ t.col + 1 \in 0..MAX_COL
    BY <1>1, ConsoleSizes
  <2>2. line[t.col] # Blank
    BY <1>2, <2>1 DEF Filled
  <2>3. EndsAt(line, t.col + 1)
    BY <1>2, <2>1, <2>2 DEF EndsAt
  <2> QED BY <1>2, <2>2, <2>3, ClosedIs
<1>c. PICK cells : cells = [t.cells EXCEPT ![t.row] = line]
  OBVIOUS
<1>3. /\ cells[t.row] = line
      /\ \A row \in Rows : row # t.row => cells[row] = t.cells[row]
  BY <1>1, <1>c DEF Cells
<1>4. \A row \in 0..(MAX_ROW - 1) : cells[row] \in [Columns -> Marks]
  <2>1. ASSUME NEW row \in 0..(MAX_ROW - 1)
        PROVE  cells[row] \in [Columns -> Marks]
    <3>1. row \in Rows
      BY ConsoleSizes DEF Rows
    <3> QED BY <1>1, <1>2, <1>3, <3>1
  <2> QED BY <2>1
<1>5. e = IF t.col + 1 < MAX_COL THEN [t EXCEPT !.cells = cells, !.col = t.col + 1]
          ELSE IF t.row + 1 < MAX_ROW THEN [cells |-> cells, row |-> t.row + 1, col |-> 0]
          ELSE [cells |-> scroll(cells), row |-> t.row, col |-> 0]
  BY <1>c, <1>l, WrittenIs
<1>6. e \in Screens /\ e.row < MAX_ROW
  <2>1. t \in OnScreen /\ c \in Character
    BY CharsAre DEF OnScreen, Legible
  <2> QED BY <2>1, WrittenTidy DEF OnScreen
<1>L. PICK L : L = LinesIn(t)
  OBVIOUS
<1>M. PICK M : M = LinesIn(e)
  OBVIOUS
<1>7. /\ Len(L) = t.row + 1
      /\ \A i \in 1..t.row : L[i] = Closed(t.cells[i - 1])
  <2>1. ASSUME NEW i \in 1..t.row PROVE L[i] = Closed(t.cells[i - 1])
    <3>1. i \in 1..(t.row + 1) /\ i - 1 \in 0..(MAX_ROW - 1)
      BY <1>1, ConsoleSizes
    <3> QED BY <1>L, <3>1, LinesTyped, RowLine
  <2> QED BY <1>L, <2>1, LinesTyped
<1>8. ASSUME NEW i \in 1..t.row
      PROVE  i - 1 \in Rows /\ i - 1 # t.row /\ cells[i - 1] = t.cells[i - 1]
  <2>1. i - 1 \in Rows /\ i - 1 # t.row
    BY <1>1, ConsoleSizes DEF Rows
  <2> QED BY <1>3, <2>1
<1>9. /\ \A i \in 1..(t.row + 1) : i - 1 \in 0..(MAX_ROW - 1)
      /\ \A i \in 1..t.row : i \in 1..(t.row + 1)
      /\ t.row + 1 \in 1..(t.row + 1) /\ (t.row + 1) - 1 = t.row
  BY <1>1, ConsoleSizes
<1>A. ASSUME t.col + 1 < MAX_COL
      PROVE  Legible(e) /\ Replaced(L, M, x)
  <2>1. e.cells = cells /\ e.col = t.col + 1 /\ e.row = t.row
    BY <1>1, <1>5, <1>A
  <2>2. Legible(e)
    <3>1. e.col # 0
      BY <1>1, <2>1
    <3>2. Filled(e.cells[e.row], e.col)
      BY <1>2, <1>3, <2>1
    <3> QED BY <1>4, <1>6, <2>1, <3>1, <3>2 DEF Legible
  <2>3. Len(M) = t.row + 1 /\ \A i \in 1..(t.row + 1) : M[i] = Closed(cells[i - 1])
    <3>1. Len(M) = t.row + 1 /\ \A i \in 1..(t.row + 1) : M[i] = LineIn(e, i - 1)
      BY <1>M, <2>1, <2>2, LinesTyped
    <3>2. \A i \in 1..(t.row + 1) : LineIn(e, i - 1) = Closed(cells[i - 1])
      BY <1>9, <2>1, RowLine
    <3> QED BY <3>1, <3>2
  <2>4. ASSUME NEW i \in 1..t.row PROVE M[i] = L[i]
    BY <1>7, <1>8, <1>9, <2>3
  <2>5. M[t.row + 1] = x
    BY <1>3, <1>9, <1>e, <2>3
  <2> QED BY <1>7, <1>9, <2>2, <2>3, <2>4, <2>5 DEF Replaced
<1>f. t.col + 1 >= MAX_COL => t.col + 1 = MAX_COL /\ t.col = MAX_COL - 1
  BY <1>1, ConsoleSizes
<1>B. ASSUME t.col + 1 >= MAX_COL, t.row + 1 < MAX_ROW
      PROVE  Legible(e) /\ Fresh(L, M, x, <<>>)
  <2>1. e.cells = cells /\ e.col = 0 /\ e.row = t.row + 1
    BY <1>1, <1>5, <1>B, ConsoleSizes
  <2>2. cells[t.row + 1] = BlankRow /\ t.row + 1 \in 0..(MAX_ROW - 1)
    <3>1. t.row + 1 \in (t.row + 1)..(MAX_ROW - 1) /\ t.row + 1 \in Rows /\ t.row + 1 # t.row
          /\ t.row + 1 \in 0..(MAX_ROW - 1)
      BY <1>1, <1>B, ConsoleSizes DEF Rows
    <3> QED BY <1>1, <1>3, <3>1
  <2>3. Legible(e)
    <3>1. Filled(e.cells[e.row], e.col)
      BY <2>1 DEF Filled
    <3> QED BY <1>4, <1>6, <2>1, <2>2, <3>1 DEF Legible
  <2>4. Len(M) = t.row + 2 /\ \A i \in 1..(t.row + 2) : M[i] = Closed(cells[i - 1])
    <3>0. (t.row + 1) + 1 = t.row + 2
      BY <1>1
    <3>1. Len(M) = t.row + 2 /\ \A i \in 1..(t.row + 2) : M[i] = LineIn(e, i - 1)
      BY <1>M, <2>1, <2>3, <3>0, LinesTyped
    <3>2. \A i \in 1..(t.row + 2) : i - 1 \in 0..(MAX_ROW - 1)
      BY <1>1, <1>B, ConsoleSizes
    <3>3. \A i \in 1..(t.row + 2) : LineIn(e, i - 1) = Closed(cells[i - 1])
      BY <2>1, <3>2, RowLine
    <3> QED BY <3>1, <3>3
  <2>5. /\ t.row + 1 \in 1..(t.row + 2) /\ t.row + 2 \in 1..(t.row + 2)
        /\ (t.row + 2) - 1 = t.row + 1 /\ t.row + 2 = (t.row + 1) + 1
        /\ \A i \in 1..t.row : i \in 1..(t.row + 2)
    BY <1>1
  <2>6. ASSUME NEW i \in 1..t.row PROVE M[i] = L[i]
    BY <1>7, <1>8, <2>4, <2>5
  <2>7. M[t.row + 1] = x
    BY <1>3, <1>9, <1>e, <2>4, <2>5
  <2>8. M[t.row + 2] = <<>>
    BY <2>2, <2>4, <2>5, BlankClosed
  <2> QED BY <1>7, <1>9, <2>3, <2>4, <2>5, <2>6, <2>7, <2>8 DEF Fresh
<1>C. ASSUME t.col + 1 >= MAX_COL, ~(t.row + 1 < MAX_ROW)
      PROVE  Legible(e) /\ Scrolled(L, M, x, x) /\ t.row + 1 = MAX_ROW
  <2>0. t.row + 1 = MAX_ROW /\ t.row = MAX_ROW - 1 /\ t.row > 0
    BY <1>1, <1>C, ConsoleSizes
  <2>1. e.cells = scroll(cells) /\ e.col = 0 /\ e.row = t.row
    BY <1>1, <1>5, <1>C, ConsoleSizes
  <2>2. \A row \in 0..(t.row - 1) : e.cells[row] = cells[row + 1]
    <3>1. ASSUME NEW row \in 0..(t.row - 1) PROVE scroll(cells)[row] = cells[row + 1]
      <4>1. row \in Rows /\ row < MAX_ROW - 1
        BY <2>0, ConsoleSizes DEF Rows
      <4> QED BY <4>1 DEF scroll
    <3> QED BY <2>1, <3>1
  <2>3. e.cells[t.row] = line
    <3>1. scroll(cells)[t.row] = cells[t.row]
      BY <1>1, <2>0 DEF scroll
    <3> QED BY <1>3, <2>1, <3>1
  <2>4. t.row - 1 \in 0..(t.row - 1) /\ (t.row - 1) + 1 = t.row
    BY <1>1, <2>0
  <2>5. e.cells[t.row - 1] = line
    BY <1>3, <2>2, <2>4
  <2>6. Legible(e)
    <3>1. ASSUME NEW row \in 0..(MAX_ROW - 1)
          PROVE  e.cells[row] \in [Columns -> Marks]
      <4>1. CASE row = t.row
        BY <1>2, <2>3, <4>1
      <4>2. CASE row # t.row
        <5>1. row \in 0..(t.row - 1) /\ row + 1 \in 0..(MAX_ROW - 1)
          BY <2>0, <4>2, ConsoleSizes
        <5> QED BY <1>4, <2>2, <5>1
      <4> QED BY <4>1, <4>2
    <3>2. Filled(e.cells[e.row], e.col)
      BY <2>1 DEF Filled
    <3>3. e.cells[e.row][MAX_COL - 1] # Blank
      BY <1>e, <1>f, <1>C, <2>1, <2>3
    <3> QED BY <1>6, <3>1, <3>2, <3>3 DEF Legible
  <2>7. Len(M) = t.row + 1 /\ \A i \in 1..(t.row + 1) : M[i] = Closed(e.cells[i - 1])
    <3>1. Len(M) = t.row + 1 /\ \A i \in 1..(t.row + 1) : M[i] = LineIn(e, i - 1)
      BY <1>M, <2>1, <2>6, LinesTyped
    <3>2. \A i \in 1..(t.row + 1) : LineIn(e, i - 1) = Closed(e.cells[i - 1])
      BY <1>9, RowLine
    <3> QED BY <3>1, <3>2
  <2>8. ASSUME NEW i \in 1..(t.row - 1) PROVE M[i] = L[i + 1]
    <3>1. /\ i \in 1..(t.row + 1) /\ i - 1 \in 0..(t.row - 1)
          /\ (i - 1) + 1 = i /\ i + 1 \in 1..t.row /\ (i + 1) - 1 = i
      BY <1>1
    <3>2. M[i] = Closed(cells[i])
      BY <2>2, <2>7, <3>1
    <3>3. cells[i] = t.cells[i]
      BY <1>8, <3>1
    <3>4. L[i + 1] = Closed(t.cells[i])
      BY <1>7, <3>1
    <3> QED BY <3>2, <3>3, <3>4
  <2>9. M[t.row] = x
    <3>1. t.row \in 1..(t.row + 1)
      BY <1>1, <2>0
    <3> QED BY <1>e, <2>5, <2>7, <3>1
  <2>10. M[t.row + 1] = x
    BY <1>9, <1>e, <2>3, <2>7
  <2>11. (t.row + 1) - 2 = t.row - 1
    BY <1>1
  <2> QED BY <1>7, <1>9, <2>0, <2>6, <2>7, <2>8, <2>9, <2>10, <2>11 DEF Scrolled
<1>10. Len(x) = t.col + 1 /\ t.col + 1 <= MAX_COL
  BY <1>1, <1>2, ConsoleSizes
<1>11. CASE t.col + 1 < MAX_COL
  <2>1. Len(x) < MAX_COL /\ Len(x) # MAX_COL
    BY <1>1, <1>10, <1>11, ConsoleSizes
  <2> QED BY <1>2, <1>6, <1>10, <1>11, <1>A, <1>L, <1>M, <2>1
<1>12. CASE t.col + 1 >= MAX_COL
  <2>1. Len(x) = MAX_COL /\ ~(Len(x) < MAX_COL)
    BY <1>1, <1>10, <1>12, ConsoleSizes
  <2> QED BY <1>2, <1>6, <1>10, <1>12, <1>B, <1>C, <1>L, <1>M, <2>1
<1>13. t.col + 1 < MAX_COL \/ t.col + 1 >= MAX_COL
  BY <1>1, ConsoleSizes
<1> QED BY <1>11, <1>12, <1>13

(* VGA_erase takes the last character of the line, never of its prompt, or *)
(* the first of the copy behind the cursor.                                *)
LEMMA EraseLines ==
    ASSUME NEW s, Legible(s), NEW e, e = VGA_erase(s),
           NEW x, x = LineIn(s, s.row), NEW y, y = Cut(s.cells[s.row], s.col)
    PROVE  /\ Legible(e) /\ x \in Seq(Marks)
           /\ Len(y) > 2 => x = y /\ Replaced(LinesIn(s), LinesIn(e), Front(x))
           /\ ~(Len(y) > 2) /\ Len(x) = MAX_COL =>
                Replaced(LinesIn(s), LinesIn(e), [x EXCEPT ![1] = Blank])
           /\ ~(Len(y) > 2) /\ Len(x) # MAX_COL => Replaced(LinesIn(s), LinesIn(e), x)
<1>1. /\ s \in [cells : Cells, row : Rows, col : Columns] /\ s.cells \in Cells
      /\ s.row \in 0..MAX_ROW /\ s.row \in Nat /\ s.row \in Rows
      /\ s.col \in 0..(MAX_COL - 1) /\ s.col \in Nat /\ s.col \in 0..MAX_COL
      /\ s.row = MAX_ROW => s.col = 0
      /\ s.row < MAX_ROW => Filled(s.cells[s.row], s.col)
      /\ \A row \in 0..(MAX_ROW - 1) : s.cells[row] \in [Columns -> Marks]
  BY LegibleParts, ConsoleSizes DEF Rows
<1>k. PICK col : col = IF s.col - 1 >= 2 THEN s.col - 1 ELSE s.col
  OBVIOUS
<1>2. col \in 0..(MAX_COL - 1) /\ col \in Nat /\ col \in Columns /\ col \in 0..MAX_COL
  BY <1>1, <1>k, ConsoleSizes DEF Columns
<1>3. /\ e.row = s.row /\ e.col = col
      /\ e.cells = [s.cells EXCEPT ![s.row][col] = Blank]
  BY <1>1, <1>k DEF VGA_erase
<1>4. /\ e.cells[s.row] = [s.cells[s.row] EXCEPT ![col] = Blank]
      /\ \A row \in Rows : row # s.row => e.cells[row] = s.cells[row]
  BY <1>1, <1>3 DEF Cells
<1>5. s.cells[s.row] \in [Columns -> Character]
  BY <1>1 DEF Cells
<1>6. /\ e.cells[s.row][col] = Blank
      /\ \A c \in Columns : c # col => e.cells[s.row][c] = s.cells[s.row][c]
  BY <1>2, <1>4, <1>5
<1>7. \A row \in 0..(MAX_ROW - 1) : e.cells[row] \in [Columns -> Marks]
  <2>1. ASSUME NEW row \in 0..(MAX_ROW - 1)
        PROVE  e.cells[row] \in [Columns -> Marks]
    <3>1. row \in Rows /\ Blank \in Marks
      BY ConsoleSizes DEF Rows, Marks
    <3>2. CASE row = s.row
      BY <1>1, <1>4, <3>1, <3>2
    <3>3. CASE row # s.row
      BY <1>1, <1>4, <3>1, <3>3
    <3> QED BY <3>2, <3>3
  <2> QED BY <2>1
<1>8. e \in Screens
  BY EraseTidy DEF Legible
<1>9. \A c \in 0..(col - 1) : e.cells[s.row][c] = s.cells[s.row][c]
  <2>1. ASSUME NEW c \in 0..(col - 1) PROVE c \in Columns /\ c # col
    BY <1>2, ConsoleSizes DEF Columns
  <2> QED BY <1>6, <2>1
<1>10. col <= s.col
  BY <1>1, <1>k
<1>11. e.row < MAX_ROW => Filled(e.cells[e.row], e.col)
  <2> SUFFICES ASSUME s.row < MAX_ROW, NEW c \in 0..(col - 1)
               PROVE  e.cells[s.row][c] # Blank
    BY <1>3 DEF Filled
  <2>1. c \in 0..(s.col - 1)
    BY <1>1, <1>2, <1>10
  <2> QED BY <1>1, <1>9, <2>1 DEF Filled
(* A blank last row stays blank, and a copy keeps its last cell.           *)
<1>12. e.row = MAX_ROW - 1 /\ e.col = 0 =>
          e.cells[e.row] = BlankRow \/ e.cells[e.row][MAX_COL - 1] # Blank
  <2> SUFFICES ASSUME s.row = MAX_ROW - 1, col = 0
               PROVE  e.cells[s.row] = BlankRow \/ e.cells[s.row][MAX_COL - 1] # Blank
    BY <1>3
  <2>1. s.col = 0
    BY <1>1, <1>k
  <2>2. s.cells[s.row] = BlankRow \/ s.cells[s.row][MAX_COL - 1] # Blank
    BY <2>1 DEF Legible
  <2>3. CASE s.cells[s.row] = BlankRow
    <3>1. \A c \in Columns : e.cells[s.row][c] = Blank
      BY <1>6, <2>3 DEF BlankRow
    <3>2. s.row \in 0..(MAX_ROW - 1)
      BY <1>1, ConsoleSizes
    <3>3. e.cells[s.row] \in [Columns -> Marks]
      BY <1>7, <3>2
    <3> QED BY <3>1, <3>3 DEF BlankRow
  <2>4. CASE s.cells[s.row][MAX_COL - 1] # Blank
    <3>1. MAX_COL - 1 \in Columns /\ MAX_COL - 1 # col
      BY ConsoleSizes DEF Columns
    <3> QED BY <1>6, <2>4, <3>1
  <2> QED BY <2>2, <2>3, <2>4
<1>13. Legible(e)
  BY <1>7, <1>8, <1>11, <1>12 DEF Legible
<1>L. PICK L : L = LinesIn(s)
  OBVIOUS
<1>M. PICK M : M = LinesIn(e)
  OBVIOUS
<1>z. PICK z : z = LineIn(e, s.row)
  OBVIOUS
<1>14. /\ L \in Seq(Seq(Marks)) /\ Len(L) = s.row + 1 /\ L[s.row + 1] = x
       /\ \A i \in 1..(s.row + 1) : L[i] = LineIn(s, i - 1)
       /\ EnteredOf(x) = y /\ Len(y) = s.col /\ y \in Seq(Marks)
  BY <1>L, LinesTyped
<1>15. /\ M \in Seq(Seq(Marks)) /\ Len(M) = s.row + 1 /\ M[s.row + 1] = z
       /\ \A i \in 1..(s.row + 1) : M[i] = LineIn(e, i - 1)
       /\ EnteredOf(z) = Cut(e.cells[s.row], col) /\ Len(Cut(e.cells[s.row], col)) = col
  <2>1. /\ LinesIn(e) \in Seq(Seq(Marks)) /\ Len(LinesIn(e)) = e.row + 1
        /\ LinesIn(e)[e.row + 1] = LineIn(e, e.row)
        /\ \A i \in 1..(e.row + 1) : LinesIn(e)[i] = LineIn(e, i - 1)
        /\ EnteredOf(LineIn(e, e.row)) = Cut(e.cells[e.row], e.col)
        /\ Len(Cut(e.cells[e.row], e.col)) = e.col
    BY <1>13, LinesTyped
  <2> QED BY <1>3, <1>M, <1>z, <2>1
<1>16. x \in Seq(Marks) /\ z \in Seq(Marks)
  <2>1. s.row + 1 \in 1..(s.row + 1)
    BY <1>1
  <2> QED BY <1>14, <1>15, <2>1
<1>17. Replaced(L, M, z)
  <2>1. ASSUME NEW i \in 1..s.row PROVE M[i] = L[i]
    <3>1. i \in 1..(s.row + 1) /\ i - 1 # s.row /\ i - 1 \in 0..(MAX_ROW - 1) /\ i - 1 \in Rows
      BY <1>1, ConsoleSizes DEF Rows
    <3>2. L[i] = Closed(s.cells[i - 1]) /\ M[i] = Closed(e.cells[i - 1])
      BY <1>14, <1>15, <3>1, RowLine
    <3> QED BY <1>4, <3>1, <3>2
  <2>2. (s.row + 1) - 1 = s.row
    BY <1>1
  <2> QED BY <1>14, <1>15, <2>1, <2>2 DEF Replaced
<1>18. ASSUME Len(y) > 2 PROVE x = y /\ z = Front(x)
  <2>1. col = s.col - 1 /\ col > 1 /\ s.col > 2
    BY <1>1, <1>14, <1>18, <1>k
  <2>2. s.row \in 0..(MAX_ROW - 1) /\ s.row < MAX_ROW
    BY <1>1, <2>1, ConsoleSizes
  <2>3. x = y
    <3>1. EnteredOf(x) # <<>>
      BY <1>14, <1>18
    <3> QED BY <1>14, <3>1 DEF EnteredOf
  <2>4. z = Cut(e.cells[s.row], col)
    <3>1. Cut(e.cells[s.row], col) # <<>>
      BY <1>15, <2>1
    <3> QED BY <1>15, <3>1 DEF EnteredOf
  <2>5. Len(z) = col /\ Len(x) = s.col
    BY <1>14, <1>15, <2>3, <2>4
  <2>6. ASSUME NEW i \in 1..col PROVE z[i] = x[i]
    <3>1. i - 1 \in 0..(col - 1) /\ i \in 1..s.col
      BY <1>1, <1>2, <1>10
    <3>2. z[i] = e.cells[s.row][i - 1]
      BY <2>4 DEF Cut
    <3>3. x[i] = s.cells[s.row][i - 1]
      BY <2>3, <3>1 DEF Cut
    <3> QED BY <1>9, <3>1, <3>2, <3>3
  <2>7. /\ Front(x) \in Seq(Marks) /\ Len(Front(x)) = Len(x) - 1
        /\ \A i \in 1..(Len(x) - 1) : Front(x)[i] = x[i]
    <3>1. Len(x) > 2
      BY <1>18, <2>3
    <3> QED BY <1>16, <3>1 DEF Front
  <2>8. PICK a \in Seq(Marks), b \in Seq(Marks) : a = z /\ b = Front(x)
    BY <1>16, <2>7
  <2>9. Len(a) = Len(b) /\ \A i \in 1..Len(a) : a[i] = b[i]
    BY <2>1, <2>5, <2>6, <2>7, <2>8
  <2>10. a = b
    BY <2>9
  <2> QED BY <2>3, <2>8, <2>10
<1>19. ASSUME ~(Len(y) > 2), Len(x) = MAX_COL PROVE z = [x EXCEPT ![1] = Blank]
  <2>1. s.col = 0 /\ col = 0 /\ s.row < MAX_ROW /\ s.row \in 0..(MAX_ROW - 1)
    <3>1. EnteredOf(x) = <<>>
      BY <1>19 DEF EnteredOf
    <3>2. s.col = 0
      BY <1>14, <3>1
    <3>3. s.row # MAX_ROW
      <4>1. LineIn(s, MAX_ROW) = <<>> /\ Len(<<>>) = 0
        BY DEF LineIn
      <4> QED BY <1>19, <4>1, ConsoleSizes
    <3> QED BY <1>1, <1>k, <3>2, <3>3, ConsoleSizes
  <2>2. x = Closed(s.cells[s.row]) /\ z = Closed(e.cells[s.row])
    BY <1>z, <2>1, RowLine
  <2>3. x = Cut(s.cells[s.row], MAX_COL)
    <3>1. MAX_COL > 0
      BY ConsoleSizes
    <3> QED BY <1>19, <2>1, <2>2, <3>1, CursorRow
  <2>4. MAX_COL \in 0..MAX_COL /\ MAX_COL \in 1..MAX_COL /\ MAX_COL - 1 \in Columns
        /\ MAX_COL - 1 # col /\ MAX_COL \in Nat
    BY <2>1, ConsoleSizes DEF Columns
  <2>5. s.cells[s.row][MAX_COL - 1] # Blank
    <3>1. EndsAt(s.cells[s.row], EndOf(s.cells[s.row]))
      BY EndExists
    <3>2. EndOf(s.cells[s.row]) = MAX_COL
      <4>1. Len(Closed(s.cells[s.row])) = EndOf(s.cells[s.row])
        BY <1>1, <2>1, <3>1, CutTyped DEF Closed, EndsAt
      <4> QED BY <1>19, <2>2, <4>1
    <3> QED BY <3>1, <3>2, ConsoleSizes DEF EndsAt
  <2>6. EndsAt(e.cells[s.row], MAX_COL)
    BY <1>6, <2>4, <2>5, ConsoleSizes DEF EndsAt
  <2>7. z = Cut(e.cells[s.row], MAX_COL)
    BY <2>2, <2>6, ClosedIs
  <2>8. Len(z) = MAX_COL
    BY <1>7, <2>1, <2>4, <2>7, CutTyped
  <2>9. ASSUME NEW i \in 1..MAX_COL PROVE z[i] = IF i = 1 THEN Blank ELSE x[i]
    <3>1. i - 1 \in Columns /\ (i # 1 => i - 1 # col) /\ (i = 1 => i - 1 = col)
      BY <2>1, <2>4 DEF Columns
    <3>2. z[i] = e.cells[s.row][i - 1] /\ x[i] = s.cells[s.row][i - 1]
      BY <2>3, <2>7 DEF Cut
    <3> QED BY <1>6, <3>1, <3>2
  <2>10. PICK a \in Seq(Marks) : a = [x EXCEPT ![1] = Blank]
    <3>1. Blank \in Marks
      BY DEF Marks
    <3> QED BY <1>16, <3>1, FirstReplaced
  <2>11. Len(a) = MAX_COL /\ \A i \in 1..MAX_COL : a[i] = IF i = 1 THEN Blank ELSE x[i]
    BY <1>16, <1>19, <2>4, <2>10
  <2>12. Len(a) = Len(z) /\ \A i \in 1..Len(a) : a[i] = z[i]
    BY <2>8, <2>9, <2>11
  <2>13. a = z
    BY <1>16, <2>12
  <2> QED BY <2>10, <2>13
<1>20. ASSUME ~(Len(y) > 2), Len(x) # MAX_COL PROVE z = x
  <2>1. col = s.col
    BY <1>1, <1>14, <1>20, <1>k
  <2>2. CASE s.row = MAX_ROW
    BY <1>z, <2>2 DEF LineIn
  <2>3. CASE s.row < MAX_ROW
    <3>1. s.row \in 0..(MAX_ROW - 1)
      BY <1>1, <2>3, ConsoleSizes
    <3>2. x = Closed(s.cells[s.row]) /\ z = Closed(e.cells[s.row])
      BY <1>z, <3>1, RowLine
    <3>3. x = Cut(s.cells[s.row], s.col) /\ Len(x) = s.col
      BY <1>20, <2>3, <3>2, CursorRow
    <3>4. EndsAt(s.cells[s.row], s.col)
      <4>1. EndsAt(s.cells[s.row], EndOf(s.cells[s.row]))
        BY EndExists
      <4>2. Len(x) = EndOf(s.cells[s.row])
        BY <1>1, <3>1, <3>2, <4>1, CutTyped DEF Closed, EndsAt
      <4> QED BY <3>3, <4>1, <4>2
    <3>5. EndsAt(e.cells[s.row], s.col)
      <4>1. ASSUME NEW c \in s.col..(MAX_COL - 1) PROVE e.cells[s.row][c] = Blank
        <5>1. c \in Columns
          BY <1>1, ConsoleSizes DEF Columns
        <5> QED BY <1>6, <3>4, <5>1 DEF EndsAt
      <4>2. s.col > 0 => s.col - 1 \in 0..(col - 1)
        BY <1>1, <2>1
      <4> QED BY <1>9, <3>4, <4>1, <4>2 DEF EndsAt
    <3>6. z = Cut(e.cells[s.row], s.col)
      BY <3>2, <3>5, ClosedIs
    <3>7. Len(z) = s.col
      BY <1>1, <1>7, <3>1, <3>6, CutTyped
    <3>8. ASSUME NEW i \in 1..s.col PROVE z[i] = x[i]
      <4>1. i - 1 \in 0..(col - 1)
        BY <1>1, <2>1
      <4> QED BY <1>9, <3>3, <3>6, <4>1 DEF Cut
    <3> QED BY <1>16, <3>3, <3>7, <3>8
  <2> QED BY <1>1, <2>2, <2>3, ConsoleSizes
<1> QED BY <1>13, <1>16, <1>17, <1>18, <1>19, <1>20, <1>L, <1>M

-----------------------------------------------------------------------------
(* The text of module Terminal: lines, of which the last is open.          *)
LineTexts == {ls \in Seq(Seq(Marks)) : ls # <<>>}

(* Sequences of one length with the same members are equal.                *)
LEMMA EqualSeq ==
    ASSUME NEW T, NEW a \in Seq(T), NEW b \in Seq(T), Len(a) = Len(b),
           \A i \in 1..Len(a) : a[i] = b[i]
    PROVE  a = b
  OBVIOUS

(* OpenReplaced replaces the open line and no other.                       *)
LEMMA OpenLine ==
    ASSUME NEW T \in LineTexts, NEW x \in Seq(Marks), NEW U, U = Text!OpenReplaced(T, x)
    PROVE  /\ U \in LineTexts /\ Len(U) = Len(T) /\ Len(T) \in Nat /\ Len(T) > 0
           /\ \A i \in 1..(Len(T) - 1) : U[i] = T[i]
           /\ U[Len(T)] = x
           /\ Text!Open(T) = T[Len(T)] /\ T[Len(T)] \in Seq(Marks)
           /\ x = T[Len(T)] => U = T
<1>1. T \in Seq(Seq(Marks)) /\ T # <<>>
  BY DEF LineTexts
<1>n. PICK n \in Nat : n = Len(T)
  BY <1>1
<1>2. n > 0
  BY <1>1, <1>n
<1>3. PICK S : S = Seq(Marks)
  OBVIOUS
<1>4. PICK F : F = SubSeq(T, 1, n - 1)
  OBVIOUS
<1>5. F \in Seq(S) /\ Len(F) = n - 1 /\ \A i \in 1..(n - 1) : F[i] = T[i]
  BY <1>1, <1>2, <1>3, <1>4, <1>n
<1>6. U = Append(F, x)
  BY <1>4, <1>n DEF Text!OpenReplaced, Text!Front
<1>7. /\ U \in Seq(S) /\ Len(U) = n /\ U # <<>>
      /\ \A i \in 1..(n - 1) : U[i] = T[i]
      /\ U[n] = x
  <2>1. x \in S
    BY <1>3
  <2>2. Append(F, x) \in Seq(S) /\ Len(Append(F, x)) = (n - 1) + 1
        /\ \A i \in 1..(n - 1) : Append(F, x)[i] = F[i]
        /\ Append(F, x)[(n - 1) + 1] = x
    BY <1>2, <1>5, <2>1
  <2>3. (n - 1) + 1 = n
    OBVIOUS
  <2>4. Append(F, x) # <<>>
    BY <1>2, <2>2, <2>3
  <2> QED BY <1>5, <1>6, <2>2, <2>3, <2>4
<1>8. Text!Open(T) = T[n] /\ T[n] \in Seq(Marks)
  <2>1. T[n] \in Seq(Marks)
    BY <1>1, <1>2, <1>n
  <2>2. Text!Open(T) = T[n]
    BY <1>n DEF Text!Open, Text!Last
  <2> QED BY <2>1, <2>2
<1>9. x = T[n] => U = T
  <2> SUFFICES ASSUME x = T[n] PROVE U = T
    OBVIOUS
  <2>1. \A i \in 1..n : U[i] = T[i]
    <3>1. ASSUME NEW i \in 1..n PROVE i = n \/ i \in 1..(n - 1)
      OBVIOUS
    <3> QED BY <1>7, <3>1
  <2> QED BY <1>1, <1>3, <1>7, <1>n, <2>1, EqualSeq
<1> QED BY <1>1, <1>2, <1>3, <1>7, <1>8, <1>9, <1>n DEF LineTexts

(* The line is closed, and a new one opened, which shows y.                *)
NextLine(T, x, y) == Append(Text!OpenReplaced(T, x), y)

(* NextLine leaves the lines above alone.                                  *)
LEMMA NextLineIs ==
    ASSUME NEW T \in LineTexts, NEW x \in Seq(Marks), NEW y \in Seq(Marks),
           NEW U, U = NextLine(T, x, y)
    PROVE  /\ U \in LineTexts /\ Len(U) = Len(T) + 1 /\ Len(T) \in Nat /\ Len(T) > 0
           /\ \A i \in 1..(Len(T) - 1) : U[i] = T[i]
           /\ U[Len(T)] = x /\ U[Len(T) + 1] = y
<1>v. PICK V : V = Text!OpenReplaced(T, x)
  OBVIOUS
<1>1. /\ V \in LineTexts /\ Len(V) = Len(T) /\ Len(T) \in Nat /\ Len(T) > 0
      /\ \A i \in 1..(Len(T) - 1) : V[i] = T[i]
      /\ V[Len(T)] = x
  BY <1>v, OpenLine
<1>2. V \in Seq(Seq(Marks))
  BY <1>1 DEF LineTexts
<1>3. U = Append(V, y)
  BY <1>v DEF NextLine
<1>4. /\ U \in Seq(Seq(Marks)) /\ Len(U) = Len(T) + 1 /\ U # <<>>
      /\ \A i \in 1..Len(T) : U[i] = V[i]
      /\ U[Len(T) + 1] = y
  <2>1. ASSUME NEW S, NEW a \in Seq(S), NEW b \in S
        PROVE  /\ Append(a, b) \in Seq(S) /\ Len(Append(a, b)) = Len(a) + 1
               /\ Append(a, b) # <<>>
               /\ \A i \in 1..Len(a) : Append(a, b)[i] = a[i]
               /\ Append(a, b)[Len(a) + 1] = b
    OBVIOUS
  <2> QED BY <1>1, <1>2, <1>3, <2>1
<1>5. \A i \in 1..(Len(T) - 1) : i \in 1..Len(T)
  BY <1>1
<1>6. Len(T) \in 1..Len(T)
  BY <1>1
<1> QED BY <1>1, <1>4, <1>5, <1>6 DEF LineTexts

(* Feed, input by input.                                                   *)
LEMMA FeedMakes ==
    ASSUME Printable, NEW T \in LineTexts, NEW x, x = T[Len(T)]
    PROVE  /\ x \in Seq(Marks)
           /\ \A c \in Chars :
                LET z == Append(EnteredOf(x), c)
                IN  Text!Feed(T, c) = IF Len(z) < MAX_COL THEN Text!OpenReplaced(T, z)
                                      ELSE NextLine(T, z, IF Len(T) >= MAX_ROW THEN z ELSE <<>>)
           /\ Text!Feed(T, LineFeed) = NextLine(T, x, <<>>)
           /\ Text!Feed(T, Backspace) =
                IF Len(EnteredOf(x)) > 2 THEN Text!OpenReplaced(T, Front(x))
                ELSE IF Len(x) = MAX_COL THEN Text!OpenReplaced(T, [x EXCEPT ![1] = Blank])
                ELSE Text!OpenReplaced(T, x)
<1>1. Text!Open(T) = x /\ x \in Seq(Marks) /\ Text!OpenReplaced(T, x) = T
  <2>1. <<>> \in Seq(Marks)
    OBVIOUS
  <2>2. x \in Seq(Marks)
    BY <2>1, OpenLine
  <2> QED BY <2>2, OpenLine
<1>2. Text!Entered(T) = EnteredOf(x)
  BY <1>1 DEF Text!Entered, Text!IsCopy, EnteredOf
<1>3. ASSUME NEW c \in Chars, NEW z, z = Append(EnteredOf(x), c)
      PROVE  Text!Feed(T, c) = IF Len(z) < MAX_COL THEN Text!OpenReplaced(T, z)
                               ELSE NextLine(T, z, IF Len(T) >= MAX_ROW THEN z ELSE <<>>)
  <2>1. c # LineFeed /\ c # Backspace
    BY CharsAre
  <2>2. Text!Feed(T, c) = Text!Enter(T, c)
    BY <2>1 DEF Text!Feed
  <2> QED BY <1>2, <1>3, <2>2 DEF Text!Enter, NextLine
<1>4. Text!Feed(T, LineFeed) = NextLine(T, x, <<>>)
  BY <1>1 DEF Text!Feed, NextLine
<1>5. Text!Feed(T, Backspace) =
        IF Len(EnteredOf(x)) > 2 THEN Text!OpenReplaced(T, Front(x))
        ELSE IF Len(x) = MAX_COL THEN Text!OpenReplaced(T, [x EXCEPT ![1] = Blank])
        ELSE Text!OpenReplaced(T, x)
  <2>1. Backspace # LineFeed
    BY DEF Backspace, LineFeed
  <2>2. Text!Feed(T, Backspace) = Text!EraseLast(T)
    BY <2>1 DEF Text!Feed
  <2>3. Text!Front(x) = Front(x)
    BY DEF Text!Front, Front
  <2>4. Len(CONSOLE_PROMPT) = 2
    BY ConsoleSizes
  <2> QED BY <1>1, <1>2, <2>2, <2>3, <2>4 DEF Text!EraseLast, Text!IsCopy
<1> QED BY <1>1, <1>3, <1>4, <1>5

-----------------------------------------------------------------------------
(* Screen and text together.                                               *)
(* The screen shows the end of the text T: all of it, or MAX_ROW lines.    *)
Shows(L, T) ==
    /\ T \in LineTexts /\ Len(L) \in 1..Len(T)
    /\ \A i \in 1..Len(L) : L[i] = T[Len(T) - Len(L) + i]
    /\ Len(L) = Len(T) \/ Len(L) >= MAX_ROW

(* What each step makes of the screen's lines follows what it makes of     *)
(* T's.                                                                    *)
LEMMA ShowsReplaced ==
    ASSUME NEW L, NEW T, Shows(L, T), NEW x \in Seq(Marks), NEW M, Replaced(L, M, x)
    PROVE  Shows(M, Text!OpenReplaced(T, x))
<1>u. PICK U : U = Text!OpenReplaced(T, x)
  OBVIOUS
<1>1. /\ U \in LineTexts /\ Len(U) = Len(T) /\ Len(T) \in Nat
      /\ \A i \in 1..(Len(T) - 1) : U[i] = T[i]
      /\ U[Len(T)] = x
  BY <1>u, OpenLine DEF Shows
<1>2. PICK m \in Nat, n \in Nat : m = Len(L) /\ n = Len(T) /\ m \in 1..n
  BY <1>1 DEF Shows
<1>3. ASSUME NEW i \in 1..m PROVE M[i] = U[n - m + i]
  <2>1. CASE i = m
    <3>1. n - m + i = n
      BY <2>1
    <3> QED BY <1>1, <1>2, <2>1, <3>1 DEF Replaced
  <2>2. CASE i # m
    <3>1. i \in 1..(m - 1) /\ n - m + i \in 1..(n - 1)
      BY <1>2, <2>2
    <3> QED BY <1>1, <1>2, <3>1 DEF Replaced, Shows
  <2> QED BY <2>1, <2>2
<1> QED BY <1>1, <1>2, <1>3, <1>u DEF Shows, Replaced

LEMMA ShowsFresh ==
    ASSUME NEW L, NEW T, Shows(L, T), NEW x \in Seq(Marks),
           NEW y \in Seq(Marks), NEW M, Fresh(L, M, x, y)
    PROVE  Shows(M, NextLine(T, x, y))
<1>u. PICK U : U = NextLine(T, x, y)
  OBVIOUS
<1>1. /\ U \in LineTexts /\ Len(U) = Len(T) + 1 /\ Len(T) \in Nat
      /\ \A i \in 1..(Len(T) - 1) : U[i] = T[i]
      /\ U[Len(T)] = x /\ U[Len(T) + 1] = y
  <2>1. T \in LineTexts
    BY DEF Shows
  <2> QED BY <1>u, <2>1, NextLineIs
<1>2. PICK m \in Nat, n \in Nat : m = Len(L) /\ n = Len(T) /\ m \in 1..n
  BY <1>1 DEF Shows
<1>3. ASSUME NEW i \in 1..(m + 1) PROVE M[i] = U[(n + 1) - (m + 1) + i]
  <2>0. CASE i = m + 1
    <3>1. (n + 1) - (m + 1) + i = n + 1
      BY <2>0
    <3> QED BY <1>1, <1>2, <2>0, <3>1 DEF Fresh
  <2>1. CASE i = m
    <3>1. (n + 1) - (m + 1) + i = n
      BY <2>1
    <3> QED BY <1>1, <1>2, <2>1, <3>1 DEF Fresh
  <2>2. CASE i # m /\ i # m + 1
    <3>0. i \in 1..(m - 1) /\ m <= n /\ m \in Nat /\ n \in Nat
      BY <1>2, <2>2
    <3>1. n - m + i \in 1..(n - 1)
      BY <3>0
    <3>2. (n + 1) - (m + 1) + i = n - m + i
      BY <3>0
    <3>3. M[i] = L[i]
      BY <1>2, <3>0 DEF Fresh
    <3>4. i \in 1..m
      BY <3>0
    <3>5. L[i] = T[n - m + i]
      BY <1>2, <3>4 DEF Shows
    <3>6. U[n - m + i] = T[n - m + i]
      BY <1>1, <1>2, <3>1
    <3> QED BY <3>2, <3>3, <3>5, <3>6
  <2> QED BY <2>0, <2>1, <2>2
<1>4. Len(M) = m + 1 /\ Len(U) = n + 1 /\ m + 1 \in 1..(n + 1)
  BY <1>1, <1>2 DEF Fresh
<1>5. m + 1 = n + 1 \/ m + 1 >= MAX_ROW
  BY <1>2, ConsoleSizes DEF Shows
<1> QED BY <1>1, <1>3, <1>4, <1>5, <1>u DEF Shows

(* With the screen full, the first line leaves it and stays in the text.   *)
LEMMA ShowsScrolled ==
    ASSUME NEW L, NEW T, Shows(L, T), NEW x \in Seq(Marks),
           NEW y \in Seq(Marks), NEW M, Scrolled(L, M, x, y), Len(L) = MAX_ROW
    PROVE  Shows(M, NextLine(T, x, y))
<1>u. PICK U : U = NextLine(T, x, y)
  OBVIOUS
<1>1. /\ U \in LineTexts /\ Len(U) = Len(T) + 1 /\ Len(T) \in Nat
      /\ \A i \in 1..(Len(T) - 1) : U[i] = T[i]
      /\ U[Len(T)] = x /\ U[Len(T) + 1] = y
  <2>1. T \in LineTexts
    BY DEF Shows
  <2> QED BY <1>u, <2>1, NextLineIs
<1>2. PICK m \in Nat, n \in Nat : m = Len(L) /\ n = Len(T) /\ m \in 1..n
  BY <1>1 DEF Shows
<1>3. ASSUME NEW i \in 1..m PROVE M[i] = U[(n + 1) - m + i]
  <2>0. CASE i = m
    <3>1. (n + 1) - m + i = n + 1
      BY <2>0
    <3> QED BY <1>1, <1>2, <2>0, <3>1 DEF Scrolled
  <2>1. CASE i = m - 1
    <3>1. (n + 1) - m + i = n
      BY <2>1
    <3> QED BY <1>1, <1>2, <2>1, <3>1 DEF Scrolled
  <2>2. CASE i # m /\ i # m - 1
    <3>0. m <= n /\ i \in 1..(m - 2)
      BY <1>2, <2>2
    <3>1. i \in 1..(m - 2) /\ i + 1 \in 1..m /\ n - m + (i + 1) \in 1..(n - 1)
          /\ (n + 1) - m + i = n - m + (i + 1)
      BY <3>0
    <3>2. M[i] = L[i + 1]
      BY <1>2, <3>1 DEF Scrolled
    <3>3. L[i + 1] = T[n - m + (i + 1)]
      BY <1>2, <3>1 DEF Shows
    <3> QED BY <1>1, <1>2, <3>1, <3>2, <3>3
  <2> QED BY <2>0, <2>1, <2>2
<1>4. Len(M) = m /\ Len(U) = n + 1 /\ m \in 1..(n + 1) /\ m >= MAX_ROW
  BY <1>1, <1>2, ConsoleSizes DEF Scrolled
<1> QED BY <1>1, <1>3, <1>4, <1>u DEF Shows

LEMMA ShowsDropped ==
    ASSUME NEW L, NEW T, Shows(L, T), NEW M, Dropped(L, M), Len(L) = MAX_ROW + 1
    PROVE  Shows(M, T)
<1>1. PICK m \in Nat, n \in Nat : m = Len(L) /\ n = Len(T) /\ m \in 1..n
  <2>1. Len(T) \in Nat
    BY DEF Shows, LineTexts
  <2> QED BY <2>1 DEF Shows
<1>2. ASSUME NEW i \in 1..(m - 1) PROVE M[i] = T[n - (m - 1) + i]
  <2>1. i + 1 \in 1..m /\ n - (m - 1) + i = n - m + (i + 1)
    BY <1>1
  <2> QED BY <1>1, <2>1 DEF Shows, Dropped
<1>3. Len(M) = m - 1 /\ m - 1 \in 1..n /\ m - 1 >= MAX_ROW
  BY <1>1, ConsoleSizes DEF Dropped
<1> QED BY <1>1, <1>2, <1>3 DEF Shows

(* s shows T, and is legible.                                              *)
Shown(s, T) == Legible(s) /\ Shows(LinesIn(s), T)

(* The line of the cursor is the open line of the text; the screen is full *)
(* when the text has as many lines as it has rows.                         *)
LEMMA LastShown ==
    ASSUME NEW s, NEW T, Shown(s, T)
    PROVE  /\ T \in LineTexts
           /\ T[Len(T)] = LineIn(s, s.row)
           /\ EnteredOf(T[Len(T)]) = Cut(s.cells[s.row], s.col)
           /\ s.row < MAX_ROW => (Len(T) >= MAX_ROW <=> s.row + 1 = MAX_ROW)
<1>L. PICK L : L = LinesIn(s)
  OBVIOUS
<1>1. Shows(L, T) /\ T \in LineTexts
  BY <1>L DEF Shown, Shows
<1>2. /\ Len(L) = s.row + 1 /\ L[s.row + 1] = LineIn(s, s.row)
      /\ EnteredOf(LineIn(s, s.row)) = Cut(s.cells[s.row], s.col)
  BY <1>L, LinesTyped DEF Shown
<1>3. PICK m \in Nat, n \in Nat : m = Len(L) /\ n = Len(T) /\ m \in 1..n
  <2>1. Len(T) \in Nat
    BY <1>1 DEF LineTexts
  <2> QED BY <1>1, <2>1 DEF Shows
<1>4. L[m] = T[n]
  <2>1. m \in 1..m /\ n - m + m = n
    BY <1>3
  <2> QED BY <1>1, <1>3, <2>1 DEF Shows
<1>5. s.row < MAX_ROW => (n >= MAX_ROW <=> s.row + 1 = MAX_ROW)
  <2>1. s.row \in 0..MAX_ROW
    BY LegibleParts DEF Shown
  <2>2. m = n \/ m >= MAX_ROW
    BY <1>1, <1>3 DEF Shows
  <2> QED BY <1>2, <1>3, <2>1, <2>2, ConsoleSizes
<1> QED BY <1>1, <1>2, <1>3, <1>4, <1>5

(* Making room for a character changes nothing of the text.                *)
LEMMA RoomShown ==
    ASSUME NEW s, NEW T, Shown(s, T), NEW t, t = RoomMade(s)
    PROVE  Shown(t, T) /\ t.row < MAX_ROW
<1>1. CASE t = s
  BY <1>1, RoomLines DEF Shown
<1>2. CASE s.row = MAX_ROW /\ Dropped(LinesIn(s), LinesIn(t))
  <2>1. Len(LinesIn(s)) = MAX_ROW + 1
    BY <1>2, LinesTyped DEF Shown
  <2> QED BY <1>2, <2>1, RoomLines, ShowsDropped DEF Shown
<1> QED BY <1>1, <1>2, RoomLines DEF Shown

(* A character written shows what Terminal makes of that character,        *)
LEMMA WrittenShown ==
    ASSUME Printable, NEW s, NEW T, Shown(s, T), s.row < MAX_ROW, NEW c \in Chars,
           NEW e, e = Written(s, c)
    PROVE  e.row < MAX_ROW /\ Shown(e, Text!Feed(T, c))
<1>x. PICK x : x = Append(Cut(s.cells[s.row], s.col), c)
  OBVIOUS
<1>1. Legible(s) /\ Shows(LinesIn(s), T)
  BY DEF Shown
<1>2. /\ Legible(e) /\ e.row < MAX_ROW
      /\ x \in Seq(Marks) /\ Len(x) <= MAX_COL
      /\ Len(x) < MAX_COL => Replaced(LinesIn(s), LinesIn(e), x)
      /\ Len(x) = MAX_COL =>
            \/ s.row + 1 < MAX_ROW /\ Fresh(LinesIn(s), LinesIn(e), x, <<>>)
            \/ s.row + 1 = MAX_ROW /\ Scrolled(LinesIn(s), LinesIn(e), x, x)
  BY <1>1, <1>x, WrittenLines
<1>3. /\ T \in LineTexts /\ x = Append(EnteredOf(T[Len(T)]), c)
      /\ Len(T) >= MAX_ROW <=> s.row + 1 = MAX_ROW
  BY <1>x, LastShown
<1>4. Text!Feed(T, c) = IF Len(x) < MAX_COL THEN Text!OpenReplaced(T, x)
                        ELSE NextLine(T, x, IF Len(T) >= MAX_ROW THEN x ELSE <<>>)
  BY <1>3, FeedMakes
<1>5. Len(LinesIn(s)) = s.row + 1
  BY <1>1, LinesTyped
<1>6. CASE Len(x) < MAX_COL
  <2>1. Shows(LinesIn(e), Text!OpenReplaced(T, x))
    BY <1>1, <1>2, <1>6, ShowsReplaced
  <2> QED BY <1>2, <1>4, <1>6, <2>1 DEF Shown
<1>7. CASE Len(x) = MAX_COL
  <2>0. ~(Len(x) < MAX_COL) /\ <<>> \in Seq(Marks)
    BY <1>7, ConsoleSizes
  <2>1. CASE s.row + 1 < MAX_ROW /\ Fresh(LinesIn(s), LinesIn(e), x, <<>>)
    <3>1. Shows(LinesIn(e), NextLine(T, x, <<>>))
      BY <1>1, <1>2, <2>0, <2>1, ShowsFresh
    <3>2. ~(Len(T) >= MAX_ROW)
      <4>1. s.row + 1 # MAX_ROW
        <5>1. s.row \in 0..MAX_ROW
          BY <1>1, LegibleParts
        <5> QED BY <2>1, <5>1, ConsoleSizes
      <4> QED BY <1>3, <4>1
    <3> QED BY <1>2, <1>4, <2>0, <3>1, <3>2 DEF Shown
  <2>2. CASE s.row + 1 = MAX_ROW /\ Scrolled(LinesIn(s), LinesIn(e), x, x)
    <3>1. Len(LinesIn(s)) = MAX_ROW
      BY <1>5, <2>2
    <3>2. Shows(LinesIn(e), NextLine(T, x, x))
      BY <1>1, <1>2, <2>2, <3>1, ShowsScrolled
    <3> QED BY <1>2, <1>3, <1>4, <2>0, <2>2, <3>2 DEF Shown
  <2> QED BY <1>2, <1>7, <2>1, <2>2
<1>8. Len(x) \in Nat
  BY <1>2
<1> QED BY <1>2, <1>6, <1>7, <1>8, ConsoleSizes

(* so does VGA_display_char of a character or a line feed,                 *)
LEMMA DisplayShown ==
    ASSUME Printable, NEW s, NEW T, Shown(s, T), NEW c \in Chars \cup {LineFeed},
           NEW e, e = VGA_display_char(s, c)
    PROVE  Shown(e, Text!Feed(T, c))
<1>t. PICK t : t = RoomMade(s)
  OBVIOUS
<1>1. Shown(t, T) /\ t.row < MAX_ROW
  BY <1>t, RoomShown
<1>2. CASE c = LineFeed
  <2>1. e = [t EXCEPT !.row = t.row + 1, !.col = 0]
    BY <1>2, <1>t DEF VGA_display_char
  <2>x. PICK x : x = LineIn(t, t.row)
    OBVIOUS
  <2>2. Legible(e) /\ Fresh(LinesIn(t), LinesIn(e), x, <<>>)
    BY <1>1, <2>1, <2>x, FeedLines DEF Shown
  <2>3. T \in LineTexts /\ x = T[Len(T)]
    BY <1>1, <2>x, LastShown
  <2>4. x \in Seq(Marks) /\ Text!Feed(T, LineFeed) = NextLine(T, x, <<>>)
    BY <2>3, FeedMakes
  <2>5. <<>> \in Seq(Marks)
    OBVIOUS
  <2>6. Shows(LinesIn(e), NextLine(T, x, <<>>))
    BY <1>1, <2>2, <2>4, <2>5, ShowsFresh DEF Shown
  <2> QED BY <1>2, <2>2, <2>4, <2>6 DEF Shown
<1>3. CASE c \in Chars
  <2>1. c # LineFeed /\ c # Tab
    BY <1>3, CharsAre
  <2>2. e = Written(t, c)
    BY <1>t, <2>1 DEF VGA_display_char
  <2> QED BY <1>1, <1>3, <2>2, WrittenShown
<1> QED BY <1>2, <1>3

(* and VGA_erase what Terminal makes of the erase key.                     *)
LEMMA EraseShown ==
    ASSUME Printable, NEW s, NEW T, Shown(s, T), NEW e, e = VGA_erase(s)
    PROVE  Shown(e, Text!Feed(T, Backspace))
<1>x. PICK x, y : x = LineIn(s, s.row) /\ y = Cut(s.cells[s.row], s.col)
  OBVIOUS
<1>1. /\ Legible(e) /\ x \in Seq(Marks)
      /\ Len(y) > 2 => x = y /\ Replaced(LinesIn(s), LinesIn(e), Front(x))
      /\ ~(Len(y) > 2) /\ Len(x) = MAX_COL =>
            Replaced(LinesIn(s), LinesIn(e), [x EXCEPT ![1] = Blank])
      /\ ~(Len(y) > 2) /\ Len(x) # MAX_COL => Replaced(LinesIn(s), LinesIn(e), x)
  BY <1>x, EraseLines DEF Shown
<1>2. T \in LineTexts /\ T[Len(T)] = x /\ EnteredOf(x) = y /\ Shows(LinesIn(s), T)
  BY <1>x, LastShown DEF Shown
<1>3. Text!Feed(T, Backspace) =
        IF Len(y) > 2 THEN Text!OpenReplaced(T, Front(x))
        ELSE IF Len(x) = MAX_COL THEN Text!OpenReplaced(T, [x EXCEPT ![1] = Blank])
        ELSE Text!OpenReplaced(T, x)
  BY <1>2, FeedMakes
<1>4. CASE Len(y) > 2
  <2>1. Front(x) \in Seq(Marks)
    BY <1>1, <1>4 DEF Front
  <2>2. Shows(LinesIn(e), Text!OpenReplaced(T, Front(x)))
    BY <1>1, <1>2, <1>4, <2>1, ShowsReplaced
  <2> QED BY <1>1, <1>3, <1>4, <2>2 DEF Shown
<1>5. CASE ~(Len(y) > 2) /\ Len(x) = MAX_COL
  <2>1. [x EXCEPT ![1] = Blank] \in Seq(Marks)
    <3>1. Blank \in Marks
      BY DEF Marks
    <3> QED BY <1>1, <3>1, FirstReplaced
  <2>2. Shows(LinesIn(e), Text!OpenReplaced(T, [x EXCEPT ![1] = Blank]))
    BY <1>1, <1>2, <1>5, <2>1, ShowsReplaced
  <2> QED BY <1>1, <1>3, <1>5, <2>2 DEF Shown
<1>6. CASE ~(Len(y) > 2) /\ Len(x) # MAX_COL
  <2>1. Shows(LinesIn(e), Text!OpenReplaced(T, x))
    BY <1>1, <1>2, <1>6, ShowsReplaced
  <2> QED BY <1>1, <1>3, <1>6, <2>1 DEF Shown
<1> QED BY <1>4, <1>5, <1>6

-----------------------------------------------------------------------------
(* Strings: two folds, of the screen and of the text, step by step.        *)
(* g computes the fold of f over str as MapThenFoldSet does: over the      *)
(* indices up to the largest. h lists what it computes after each member.  *)
Folds(S, g, n, base, f, str) ==
    /\ g[{}] = base
    /\ \A u \in SUBSET (1..n) : u # {} /\ g[u \ {Max(u)}] \in S =>
            g[u] = f[g[u \ {Max(u)}], str[Max(u)]]

RunsAs(h, g, n, base, f, str) ==
    /\ h[0] = base /\ h[n] = g[1..n]
    /\ \A k \in 1..n : h[k] = f[h[k - 1], str[k]]

(* Every such fold can be listed.                                          *)
LEMMA FoldRuns ==
    ASSUME NEW S, NEW T, NEW base \in S, NEW f \in [S \X T -> S],
           NEW n \in Nat, NEW str, \A k \in 1..n : str[k] \in T,
           NEW g, Folds(S, g, n, base, f, str)
    PROVE  \E h \in [0..n -> S] : RunsAs(h, g, n, base, f, str)
<1>6. ASSUME NEW u \in SUBSET (1..n), u # {}, g[u \ {Max(u)}] \in S PROVE g[u] \in S
  <2>1. Max(u) \in 1..n
    BY <1>6, MaxIsMember
  <2>2. str[Max(u)] \in T
    BY <2>1
  <2>3. g[u] = f[g[u \ {Max(u)}], str[Max(u)]]
    BY <1>6 DEF Folds
  <2> QED BY <1>6, <2>2, <2>3
<1>7. ASSUME NEW k \in 0..n PROVE g[1..k] \in S
  <2>1. ASSUME NEW u \in SUBSET (1..k), u # {}, g[u \ {Max(u)}] \in S
        PROVE  g[u] \in S
    <3>1. u \in SUBSET (1..n)
      <4>1. 1..k \subseteq 1..n
        BY <1>7
      <4> QED BY <4>1
    <3> QED BY <1>6, <2>1, <3>1
  <2>2. k \in Nat
    OBVIOUS
  <2>3. g[{}] \in S
    BY DEF Folds
  <2> QED BY <2>1, <2>2, <2>3, FoldInside
<1>8. ASSUME NEW k \in 1..n PROVE g[1..k] = f[g[1..(k - 1)], str[k]]
  <2>1. 1..k \in SUBSET (1..n) /\ 1..k # {} /\ k \in Nat
    <3>1. k \in 1..k /\ (\A x \in 1..k : x \in 1..n) /\ k \in Nat
      BY <1>8
    <3> QED BY <3>1
  <2>2. Max(1..k) = k
    <3>1. Max(1..k) \in 1..k /\ \A x \in 1..k : x <= Max(1..k)
      BY <2>1, MaxIsMember
    <3> QED BY <3>1
  <2>3. (1..k) \ {k} = 1..(k - 1) /\ k - 1 \in 0..n
    OBVIOUS
  <2>4. g[(1..k) \ {Max(1..k)}] \in S
    BY <1>7, <2>2, <2>3
  <2>5. g[1..k] = f[g[(1..k) \ {Max(1..k)}], str[Max(1..k)]]
    BY <2>1, <2>4 DEF Folds
  <2> QED BY <2>2, <2>3, <2>5
<1> DEFINE h == [k \in 0..n |-> g[1..k]]
<1>9. h \in [0..n -> S] /\ h[n] = g[1..n] /\ h[0] = base
  <2>1. 1..0 = {}
    OBVIOUS
  <2>2. h[0] = g[1..0] /\ h[n] = g[1..n]
    OBVIOUS
  <2>3. h \in [0..n -> S]
    BY <1>7
  <2> QED BY <2>1, <2>2, <2>3 DEF Folds
<1>10. ASSUME NEW k \in 1..n PROVE h[k] = f[h[k - 1], str[k]]
  <2>1. h[k] = g[1..k] /\ h[k - 1] = g[1..(k - 1)]
    OBVIOUS
  <2> QED BY <1>8, <2>1
<1> HIDE DEF h
<1> QED BY <1>9, <1>10 DEF RunsAs

(* A tab is four spaces, one after the other.                              *)
LEMMA TabSteps ==
    ASSUME NEW t \in OnScreen
    PROVE  \E h \in [0..4 -> OnScreen] :
                /\ h[0] = t
                /\ h[4] = FoldLeft(Written, t, <<" ", " ", " ", " ">>)
                /\ \A k \in 1..4 : h[k] = Written(h[k - 1], " ")
<1>s. PICK str : str = <<" ", " ", " ", " ">>
  OBVIOUS
<1>1. /\ str \in Seq({" "}) /\ Len(str) = 4 /\ DOMAIN str = 1..4
      /\ \A i \in 1..4 : str[i] = " "
  BY <1>s, FourSpaces
<1> DEFINE Steps(g) == g = [u \in SUBSET (DOMAIN str) |->
                              IF u = {} THEN t ELSE Written(g[u \ {Max(u)}], str[Max(u)])]
           f == [p \in OnScreen \X {" "} |-> Written(p[1], p[2])]
<1>2. FoldLeft(Written, t, str) = (CHOOSE g : Steps(g))[DOMAIN str]
  BY DEF FoldLeft, MapThenFoldSet
<1>f. /\ f \in [OnScreen \X {" "} -> OnScreen]
      /\ \A x \in OnScreen, y \in {" "} : f[x, y] = Written(x, y)
  <2>1. " " \in Character
    BY DEF Character
  <2>2. \A x \in OnScreen : Written(x, " ") \in OnScreen
    BY <2>1, WrittenTidy
  <2> QED BY <2>2
<1> HIDE DEF f
<1>m. \A u \in SUBSET (1..4) : u # {} => str[Max(u)] = " "
  BY <1>1, MaxIsMember
<1>3. \E g : Steps(g)
  <2>3. PICK g \in [SUBSET (1..Len(str)) -> OnScreen] : FoldOf(g, 1..Len(str), t, f, str)
    BY <1>1, <1>f, FoldExists
  <2>4. ASSUME NEW u \in SUBSET (1..4), u # {}
        PROVE  f[g[u \ {Max(u)}], str[Max(u)]] = Written(g[u \ {Max(u)}], str[Max(u)])
    <3>1. str[Max(u)] \in {" "}
      BY <1>m, <2>4
    <3>2. g[u \ {Max(u)}] \in OnScreen
      BY <1>1, <2>3
    <3> QED BY <1>f, <3>1, <3>2
  <2>5. Steps(g)
    BY <1>1, <2>3, <2>4 DEF FoldOf
  <2> QED BY <2>5
<1>g. PICK g : g = (CHOOSE h : Steps(h))
  OBVIOUS
<1>4. Steps(g)
  <2> HIDE DEF Steps
  <2> QED BY <1>3, <1>g
<1>5. g[{}] = t
  BY <1>4
<1>6. ASSUME NEW u \in SUBSET (1..4), u # {}, g[u \ {Max(u)}] \in OnScreen
      PROVE  g[u] = f[g[u \ {Max(u)}], str[Max(u)]]
  <2>1. g[u] = Written(g[u \ {Max(u)}], str[Max(u)])
    BY <1>1, <1>4, <1>6
  <2>2. str[Max(u)] \in {" "}
    BY <1>m, <1>6
  <2> QED BY <1>6, <1>f, <2>1, <2>2
<1> HIDE DEF Steps
<1>7. PICK h \in [0..4 -> OnScreen] : RunsAs(h, g, 4, t, f, str)
  <2>1. 4 \in Nat /\ \A k \in 1..4 : str[k] \in {" "}
    BY <1>1
  <2>c. PICK C : C = {" "}
    OBVIOUS
  <2>m. PICK m \in Nat : m = 4
    OBVIOUS
  <2>2. C = {" "} /\ m = 4
    BY <2>c, <2>m
  <2>3. Folds(OnScreen, g, m, t, f, str)
    BY <1>5, <1>6, <2>2 DEF Folds
  <2>4. f \in [OnScreen \X C -> OnScreen] /\ \A k \in 1..m : str[k] \in C
    BY <1>f, <2>1, <2>2
  <2>5. \E h \in [0..m -> OnScreen] : RunsAs(h, g, m, t, f, str)
    BY <2>3, <2>4, FoldRuns
  <2> QED BY <2>2, <2>5
<1>8. ASSUME NEW k \in 1..4 PROVE h[k] = Written(h[k - 1], " ")
  <2>1. k - 1 \in 0..4
    OBVIOUS
  <2>2. h[k - 1] \in OnScreen
    BY <2>1
  <2> QED BY <1>1, <1>7, <1>f, <2>2 DEF RunsAs
<1>9. h[4] = FoldLeft(Written, t, str)
  BY <1>1, <1>2, <1>7, <1>g DEF RunsAs
<1> QED BY <1>7, <1>8, <1>9, <1>s DEF RunsAs

(* What the terminal is fed, one at a time.                                *)
Fed == Chars \cup {LineFeed, Backspace}

(* Feed makes a text of a text.                                            *)
LEMMA FeedTyped ==
    ASSUME Printable, NEW T \in LineTexts, NEW c \in Fed
    PROVE  Text!Feed(T, c) \in LineTexts
<1>x. PICK x : x = T[Len(T)]
  OBVIOUS
<1>e. <<>> \in Seq(Marks) /\ Chars \subseteq Marks /\ Blank \in Marks
  BY DEF Marks
<1>1. x \in Seq(Marks) /\ EnteredOf(x) \in Seq(Marks)
  BY <1>e, <1>x, FeedMakes DEF EnteredOf
<1>2. CASE c \in Chars
  <2>1. PICK z : z = Append(EnteredOf(x), c)
    OBVIOUS
  <2>2. z \in Seq(Marks)
    BY <1>1, <1>2, <1>e, <2>1
  <2>3. Text!Feed(T, c) = IF Len(z) < MAX_COL THEN Text!OpenReplaced(T, z)
                          ELSE NextLine(T, z, IF Len(T) >= MAX_ROW THEN z ELSE <<>>)
    BY <1>2, <1>x, <2>1, FeedMakes
  <2>4. PICK y : y = IF Len(T) >= MAX_ROW THEN z ELSE <<>>
    OBVIOUS
  <2>5. y \in Seq(Marks)
    BY <1>e, <2>2, <2>4
  <2>6. Text!OpenReplaced(T, z) \in LineTexts
    BY <2>2, OpenLine
  <2>7. NextLine(T, z, y) \in LineTexts
    BY <2>2, <2>5, NextLineIs
  <2> QED BY <2>3, <2>4, <2>6, <2>7
<1>3. CASE c = LineFeed
  <2>1. Text!Feed(T, LineFeed) = NextLine(T, x, <<>>)
    BY <1>x, FeedMakes
  <2>2. NextLine(T, x, <<>>) \in LineTexts
    BY <1>1, <1>e, NextLineIs
  <2> QED BY <1>3, <2>1, <2>2
<1>4. CASE c = Backspace
  <2>1. Text!Feed(T, Backspace) =
          IF Len(EnteredOf(x)) > 2 THEN Text!OpenReplaced(T, Front(x))
          ELSE IF Len(x) = MAX_COL THEN Text!OpenReplaced(T, [x EXCEPT ![1] = Blank])
          ELSE Text!OpenReplaced(T, x)
    BY <1>x, FeedMakes
  <2>2. CASE Len(EnteredOf(x)) > 2
    <3>1. EnteredOf(x) = x
      BY <2>2 DEF EnteredOf
    <3>2. Front(x) \in Seq(Marks)
      BY <1>1, <2>2, <3>1 DEF Front
    <3>3. Text!OpenReplaced(T, Front(x)) \in LineTexts
      BY <3>2, OpenLine
    <3> QED BY <1>4, <2>1, <2>2, <3>3
  <2>3. CASE ~(Len(EnteredOf(x)) > 2)
    <3>1. [x EXCEPT ![1] = Blank] \in Seq(Marks)
      BY <1>1, <1>e, FirstReplaced
    <3>2. Text!OpenReplaced(T, [x EXCEPT ![1] = Blank]) \in LineTexts
      BY <3>1, OpenLine
    <3>3. Text!OpenReplaced(T, x) \in LineTexts
      BY <1>1, OpenLine
    <3> QED BY <1>4, <2>1, <2>3, <3>2, <3>3
  <2> QED BY <2>2, <2>3
<1> QED BY <1>2, <1>3, <1>4 DEF Fed

(* What FedAll makes of a string, listed.                                  *)
LEMMA TextSteps ==
    ASSUME Printable, NEW T \in LineTexts, NEW str \in Seq(Fed)
    PROVE  \E h \in [0..Len(str) -> LineTexts] :
                /\ h[0] = T /\ h[Len(str)] = Text!FedAll(T, str)
                /\ \A k \in 1..Len(str) : h[k] = Text!Feed(h[k - 1], str[k])
<1>n. PICK n \in Nat : n = Len(str)
  OBVIOUS
<1>1. DOMAIN str = 1..n
  BY <1>n
<1>S. PICK S : S = LineTexts
  OBVIOUS
<1> DEFINE Steps(g) == g = [u \in SUBSET (DOMAIN str) |->
                      IF u = {} THEN T ELSE Text!Feed(g[u \ {Max(u)}], str[Max(u)])]
           f == [p \in S \X Fed |-> Text!Feed(p[1], p[2])]
<1>2. Text!FedAll(T, str) = (CHOOSE g : Steps(g))[DOMAIN str]
  BY DEF Text!FedAll, Text!FoldLeft, Text!MapThenFoldSet, Text!Max, Max
<1>f. /\ f \in [S \X Fed -> S]
      /\ \A x \in S, y \in Fed : f[x, y] = Text!Feed(x, y)
  <2>1. ASSUME NEW x \in S, NEW y \in Fed PROVE Text!Feed(x, y) \in S
    BY <1>S, FeedTyped
  <2> QED BY <2>1
<1> HIDE DEF f
<1>m. \A u \in SUBSET (1..n) : u # {} => str[Max(u)] \in Fed
  <2>1. \A u \in SUBSET (1..n) : u # {} => Max(u) \in 1..n
    BY MaxIsMember
  <2> QED BY <1>n, <2>1, ElementOfSeq
<1>0. T \in S
  BY <1>S
<1>3. \E g : Steps(g)
  <2>3. PICK g \in [SUBSET (1..Len(str)) -> S] : FoldOf(g, 1..Len(str), T, f, str)
    BY <1>0, <1>f, FoldExists
  <2>4. ASSUME NEW u \in SUBSET (1..n), u # {}
        PROVE  f[g[u \ {Max(u)}], str[Max(u)]] = Text!Feed(g[u \ {Max(u)}], str[Max(u)])
    <3>1. str[Max(u)] \in Fed
      BY <1>m, <2>4
    <3>2. g[u \ {Max(u)}] \in S
      BY <1>n, <2>3
    <3> QED BY <1>f, <3>1, <3>2
  <2>5. Steps(g)
    BY <1>1, <1>n, <2>3, <2>4 DEF FoldOf
  <2> QED BY <2>5
<1>g. PICK g : g = (CHOOSE h : Steps(h))
  OBVIOUS
<1>4. Steps(g)
  <2> HIDE DEF Steps
  <2> QED BY <1>3, <1>g
<1>5. g[{}] = T
  BY <1>4
<1>6. ASSUME NEW u \in SUBSET (1..n), u # {}, g[u \ {Max(u)}] \in S
      PROVE  g[u] = f[g[u \ {Max(u)}], str[Max(u)]]
  <2>1. g[u] = Text!Feed(g[u \ {Max(u)}], str[Max(u)])
    BY <1>1, <1>4, <1>6
  <2>2. str[Max(u)] \in Fed
    BY <1>m, <1>6
  <2> QED BY <1>6, <1>f, <2>1, <2>2
<1> HIDE DEF Steps
<1>7. PICK h \in [0..n -> S] : RunsAs(h, g, n, T, f, str)
  <2>1. \A k \in 1..n : str[k] \in Fed
    BY <1>n, ElementOfSeq
  <2>2. Folds(S, g, n, T, f, str)
    BY <1>5, <1>6 DEF Folds
  <2> QED BY <1>0, <1>f, <2>1, <2>2, FoldRuns
<1>8. ASSUME NEW k \in 1..n PROVE h[k] = Text!Feed(h[k - 1], str[k])
  <2>1. k - 1 \in 0..n
    OBVIOUS
  <2>2. h[k - 1] \in S
    BY <2>1
  <2>3. str[k] \in Fed
    BY <1>n, ElementOfSeq
  <2> QED BY <1>7, <1>f, <2>2, <2>3 DEF RunsAs
<1>9. h[n] = Text!FedAll(T, str)
  BY <1>1, <1>2, <1>7, <1>g DEF RunsAs
<1> QED BY <1>7, <1>8, <1>9, <1>n, <1>S DEF RunsAs

(* The text a string makes of T; and g and h display and feed it together. *)
FedTo(T, str) == Text!FedAll(T, str)
Follows(g, h, n, str) ==
    /\ Shown(g[0], h[0])
    /\ \A k \in 1..n : /\ g[k] = VGA_display_char(g[k - 1], str[k])
                       /\ h[k] = Text!Feed(h[k - 1], str[k])
                       /\ str[k] \in Chars \cup {LineFeed}

(* Then after each character the screen shows the text.                    *)
LEMMA ShownAlong ==
    ASSUME Printable, NEW n \in Nat, NEW str, NEW g, NEW h, Follows(g, h, n, str)
    PROVE  Shown(g[n], h[n])
<1> DEFINE K == {k \in Nat : k <= n => Shown(g[k], h[k])}
<1>1. 0 \in K
  BY DEF Follows
<1>2. ASSUME NEW k \in K PROVE k + 1 \in K
  <2>1. k \in Nat /\ (k <= n => Shown(g[k], h[k]))
    OBVIOUS
  <2>2. ASSUME k + 1 <= n PROVE Shown(g[k + 1], h[k + 1])
    <3>1. Shown(g[k], h[k])
      BY <2>1, <2>2
    <3>2. k + 1 \in 1..n /\ (k + 1) - 1 = k
      BY <2>1, <2>2
    <3>3. /\ g[k + 1] = VGA_display_char(g[k], str[k + 1])
          /\ h[k + 1] = Text!Feed(h[k], str[k + 1])
          /\ str[k + 1] \in Chars \cup {LineFeed}
      BY <3>2 DEF Follows
    <3> QED BY <3>1, <3>3, DisplayShown
  <2> QED BY <2>1, <2>2
<1>3. K \in SUBSET Nat
  OBVIOUS
<1> HIDE DEF K
<1>4. K = Nat
  BY <1>1, <1>2, <1>3, NaturalInduction
<1>5. n \in K
  BY <1>4
<1> QED BY <1>5 DEF K

(* A screen that shows a text is tidy.                                     *)
LEMMA ShownTidy ==
    ASSUME NEW s, NEW T, Shown(s, T)
    PROVE  s \in Screens /\ T \in LineTexts
  BY DEF Shown, Shows, Legible

(* VGA_display_str of a string without tabs.                               *)
LEMMA StringShown ==
    ASSUME Printable, NEW s, NEW T, Shown(s, T), NEW str \in Seq(Chars \cup {LineFeed}),
           NEW e, e = VGA_display_str(s, str)
    PROVE  Shown(e, FedTo(T, str))
<1>n. PICK n \in Nat : n = Len(str)
  OBVIOUS
<1>1. \A k \in 1..n : str[k] \in Chars \cup {LineFeed}
  BY <1>n, ElementOfSeq
<1>2. str \in Seq(Fed) /\ str \in Seq(Character)
  <2>1. Chars \cup {LineFeed} \subseteq Fed /\ Chars \cup {LineFeed} \subseteq Character
    BY CharsAre DEF Fed, Character
  <2>2. \A k \in 1..Len(str) : str[k] \in Fed /\ str[k] \in Character
    BY <1>1, <1>n, <2>1
  <2> QED BY <2>2, SeqOver
<1>3. PICK g \in [0..n -> Screens] :
            /\ g[0] = s /\ g[n] = e
            /\ \A k \in 1..n : g[k] = VGA_display_char(g[k - 1], str[k])
  BY <1>2, <1>n, StringSteps, ShownTidy
<1>4. PICK h \in [0..n -> LineTexts] :
            /\ h[0] = T /\ h[n] = FedTo(T, str)
            /\ \A k \in 1..n : h[k] = Text!Feed(h[k - 1], str[k])
  <2>1. T \in LineTexts
    BY ShownTidy
  <2> QED BY <1>2, <1>n, <2>1, TextSteps DEF FedTo
<1>5. Follows(g, h, n, str)
  BY <1>1, <1>3, <1>4 DEF Follows
<1> QED BY <1>3, <1>4, <1>5, ShownAlong

(* A string of one character is that character.                            *)
LEMMA FedOne ==
    ASSUME Printable, NEW T \in LineTexts, NEW c \in Fed
    PROVE  FedTo(T, <<c>>) = Text!Feed(T, c)
<1>s. PICK str : str = <<c>>
  OBVIOUS
<1>1. str \in Seq(Fed) /\ Len(str) = 1 /\ str[1] = c
  BY <1>s
<1>2. PICK h \in [0..Len(str) -> LineTexts] :
            /\ h[0] = T /\ h[Len(str)] = FedTo(T, str)
            /\ \A k \in 1..Len(str) : h[k] = Text!Feed(h[k - 1], str[k])
  BY <1>1, TextSteps DEF FedTo
<1>3. h[1] = Text!Feed(h[0], c) /\ h[1] = FedTo(T, str)
  <2>1. 1 \in 1..1 /\ 1 - 1 = 0
    OBVIOUS
  <2> QED BY <1>1, <1>2, <2>1
<1> QED BY <1>2, <1>3, <1>s

(* A tab.                                                                  *)
LEMMA TabShown ==
    ASSUME Printable, NEW s, NEW T, Shown(s, T), NEW e, e = VGA_display_char(s, Tab)
    PROVE  Shown(e, FedTo(T, <<" ", " ", " ", " ">>))
<1>t. PICK t : t = RoomMade(s)
  OBVIOUS
<1>s. PICK str : str = <<" ", " ", " ", " ">>
  OBVIOUS
<1>1. Shown(t, T) /\ t \in OnScreen
  BY <1>t, RoomShown, ShownTidy DEF OnScreen
<1>2. e = FoldLeft(Written, t, str)
  BY <1>s, <1>t DEF VGA_display_char, Tab, LineFeed
<1>3. PICK g \in [0..4 -> OnScreen] :
            /\ g[0] = t /\ g[4] = e
            /\ \A k \in 1..4 : g[k] = Written(g[k - 1], " ")
  BY <1>1, <1>2, <1>s, TabSteps
<1>4. str \in Seq({" "}) /\ Len(str) = 4 /\ \A i \in 1..4 : str[i] = " "
  BY <1>s, FourSpaces
<1>5. " " \in Chars /\ " " \in Fed
  BY CharsAre DEF Fed
<1>6. str \in Seq(Fed)
  <2>1. \A i \in 1..Len(str) : str[i] \in Fed
    BY <1>4, <1>5
  <2> QED BY <1>4, <2>1, SeqOver
<1>7. PICK h \in [0..Len(str) -> LineTexts] :
            /\ h[0] = T /\ h[Len(str)] = FedTo(T, str)
            /\ \A k \in 1..Len(str) : h[k] = Text!Feed(h[k - 1], str[k])
  <2>1. T \in LineTexts
    BY <1>1, ShownTidy
  <2> QED BY <1>6, <2>1, TextSteps DEF FedTo
<1>8. ASSUME NEW k \in 1..4 PROVE g[k] = VGA_display_char(g[k - 1], str[k])
  <2>1. k - 1 \in 0..4
    OBVIOUS
  <2>2. g[k - 1] \in OnScreen
    BY <2>1
  <2>3. RoomMade(g[k - 1]) = g[k - 1]
    BY <2>2 DEF OnScreen, RoomMade
  <2>4. VGA_display_char(g[k - 1], " ") = Written(g[k - 1], " ")
    BY <2>3 DEF VGA_display_char, LineFeed, Tab
  <2> QED BY <1>3, <1>4, <2>4
<1>9. Follows(g, h, 4, str)
  BY <1>1, <1>3, <1>4, <1>5, <1>7, <1>8 DEF Follows
<1>10. Shown(g[4], h[4])
  BY <1>9, ShownAlong
<1> QED BY <1>3, <1>4, <1>7, <1>10, <1>s

(* A line feed typed: the prompt again.                                    *)
LEMMA PromptShown ==
    ASSUME Printable, NEW s, NEW T, Shown(s, T),
           NEW e, e = VGA_display_str(VGA_display_char(s, LineFeed), CONSOLE_PROMPT)
    PROVE  Shown(e, FedTo(T, <<LineFeed>> \o CONSOLE_PROMPT))
<1>s. PICK str : str = <<LineFeed>> \o CONSOLE_PROMPT
  OBVIOUS
<1>q. PICK q : q = CONSOLE_PROMPT
  OBVIOUS
<1>f. PICK first : first = VGA_display_char(s, LineFeed)
  OBVIOUS
<1>0. ">" \in Chars /\ " " \in Chars /\ LineFeed \in Character
  BY CharsAre DEF Character
<1>1. /\ q \in Seq(Character) /\ Len(q) = 2
      /\ q[1] = ">" /\ q[2] = " "
  <2>1. q \in Seq(Character) /\ Len(q) = 2
    BY <1>q, ConsoleSizes
  <2> QED BY <1>q, <2>1 DEF CONSOLE_PROMPT
<1>2. /\ str \in Seq(Fed) /\ Len(str) = 3
      /\ str[1] = LineFeed /\ str[2] = q[1] /\ str[3] = q[2]
  <2>1. ASSUME NEW S, NEW a \in S, NEW b \in S, NEW c \in S
        PROVE  /\ <<a>> \o <<b, c>> \in Seq(S) /\ Len(<<a>> \o <<b, c>>) = 3
               /\ (<<a>> \o <<b, c>>)[1] = a /\ (<<a>> \o <<b, c>>)[2] = b
               /\ (<<a>> \o <<b, c>>)[3] = c
    OBVIOUS
  <2>2. LineFeed \in Fed /\ ">" \in Fed /\ " " \in Fed
    BY <1>0 DEF Fed
  <2>3. str = <<LineFeed>> \o <<">", " ">>
    BY <1>s DEF CONSOLE_PROMPT
  <2>4. /\ str \in Seq(Fed) /\ Len(str) = 3
        /\ str[1] = LineFeed /\ str[2] = ">" /\ str[3] = " "
    <3>1. PICK a \in Fed, b \in Fed, c \in Fed : a = LineFeed /\ b = ">" /\ c = " "
      BY <2>2
    <3>2. str = <<a>> \o <<b, c>>
      BY <2>3, <3>1
    <3>3. str \in Seq(Fed) /\ Len(str) = 3 /\ str[1] = a /\ str[2] = b /\ str[3] = c
      BY <2>1, <3>2
    <3> QED BY <3>1, <3>3
  <2> QED BY <1>1, <2>4
<1>3. first \in Screens
  BY <1>0, <1>f, DisplayTidy, ShownTidy
<1>4. PICK p \in [0..Len(q) -> Screens] :
            /\ p[0] = first /\ p[Len(q)] = VGA_display_str(first, q)
            /\ \A k \in 1..Len(q) : p[k] = VGA_display_char(p[k - 1], q[k])
  BY <1>1, <1>3, StringSteps
<1>5. /\ p[0] = first /\ p[2] = e
      /\ p[1] = VGA_display_char(p[0], q[1]) /\ p[2] = VGA_display_char(p[1], q[2])
  <2>1. 1 \in 1..2 /\ 2 \in 1..2 /\ 1 - 1 = 0 /\ 2 - 1 = 1
    OBVIOUS
  <2> QED BY <1>1, <1>4, <1>f, <1>q, <2>1
<1>6. PICK h \in [0..Len(str) -> LineTexts] :
            /\ h[0] = T /\ h[Len(str)] = FedTo(T, str)
            /\ \A k \in 1..Len(str) : h[k] = Text!Feed(h[k - 1], str[k])
  BY <1>2, TextSteps, ShownTidy DEF FedTo
<1> DEFINE g == [k \in 0..3 |-> IF k = 0 THEN s ELSE p[k - 1]]
<1>7. g[0] = s /\ g[1] = p[0] /\ g[2] = p[1] /\ g[3] = p[2]
  OBVIOUS
<1> HIDE DEF g
<1>8. ASSUME NEW k \in 1..3
      PROVE  /\ g[k] = VGA_display_char(g[k - 1], str[k])
             /\ str[k] \in Chars \cup {LineFeed}
  <2>1. CASE k = 1
    BY <1>2, <1>5, <1>7, <1>f, <2>1
  <2>2. CASE k = 2
    <3>1. g[2] = VGA_display_char(g[1], str[2]) /\ str[2] \in Chars
      BY <1>0, <1>1, <1>2, <1>5, <1>7
    <3> QED BY <2>2, <3>1
  <2>3. CASE k = 3
    <3>1. g[3] = VGA_display_char(g[2], str[3]) /\ str[3] \in Chars
      BY <1>0, <1>1, <1>2, <1>5, <1>7
    <3> QED BY <2>3, <3>1
  <2> QED BY <2>1, <2>2, <2>3
<1>9. Follows(g, h, 3, str)
  BY <1>2, <1>6, <1>7, <1>8 DEF Follows
<1>10. Shown(g[3], h[3])
  BY <1>9, ShownAlong
<1> QED BY <1>2, <1>5, <1>6, <1>7, <1>10, <1>s

-----------------------------------------------------------------------------
(* The refinement.                                                         *)
(* Lines is LinesIn of the screen, before a step and after it.             *)
LEMMA LinesAre == Lines = LinesIn(Screen)
<1>1. Screen.cells = vga_buff /\ Screen.row = current_row /\ Screen.col = current_col
  BY DEF Screen
<1>2. \A row : Line(row) = LineIn(Screen, row)
  BY <1>1 DEF Line, LineIn, Closed, Cut, EndOf
<1> QED BY <1>1, <1>2 DEF Lines, LinesIn

LEMMA NextLinesAre == Lines' = LinesIn(Screen')
<1>1. Screen'.cells = vga_buff' /\ Screen'.row = current_row' /\ Screen'.col = current_col'
  BY DEF Screen
<1>2. \A row : Line(row)' = LineIn(Screen', row)
  BY <1>1 DEF Line, LineIn, Closed, Cut, EndOf
<1> QED BY <1>1, <1>2 DEF Lines, LinesIn

(* The lines shown are a suffix of the text.                               *)
LEMMA ShowsSuffix ==
    ASSUME NEW M, NEW U, Shows(M, U), M \in Seq(Seq(Marks))
    PROVE  Text!IsSuffix(M, U)
<1>1. PICK m \in Nat, n \in Nat : m = Len(M) /\ n = Len(U) /\ m \in 1..n
  <2>1. Len(U) \in Nat
    BY DEF Shows, LineTexts
  <2> QED BY <2>1 DEF Shows
<1>r. PICK r : r = Text!Reverse(M)
  OBVIOUS
<1>t. PICK t : t = Text!Reverse(U)
  OBVIOUS
<1>2. r = [i \in 1..m |-> M[(m - i) + 1]] /\ t = [i \in 1..n |-> U[(n - i) + 1]]
  BY <1>1, <1>r, <1>t DEF Text!Reverse
<1>S. PICK S : S = Seq(Marks)
  OBVIOUS
<1>3. M \in Seq(S) /\ U \in Seq(S)
  BY <1>S DEF Shows, LineTexts
<1>4. r \in Seq(S) /\ Len(r) = m
  <2>1. \A i \in 1..m : M[(m - i) + 1] \in S
    BY <1>1, <1>3
  <2> QED BY <1>2, <2>1
<1>5. t \in Seq(S) /\ Len(t) = n
  <2>1. \A i \in 1..n : U[(n - i) + 1] \in S
    BY <1>1, <1>3
  <2> QED BY <1>2, <2>1
<1>6. ASSUME NEW i \in 1..m PROVE r[i] = t[i]
  <2>1. (m - i) + 1 \in 1..m /\ n - m + ((m - i) + 1) = (n - i) + 1 /\ i \in 1..n
    BY <1>1
  <2>2. M[(m - i) + 1] = U[n - m + ((m - i) + 1)]
    BY <1>1, <2>1 DEF Shows
  <2> QED BY <1>2, <2>1, <2>2
<1>7. SubSeq(r, 1, m) = SubSeq(t, 1, m)
  <2>1. SubSeq(r, 1, m) \in Seq(S) /\ Len(SubSeq(r, 1, m)) = m
        /\ \A i \in 1..m : SubSeq(r, 1, m)[i] = r[i]
    BY <1>1, <1>4
  <2>2. SubSeq(t, 1, m) \in Seq(S) /\ Len(SubSeq(t, 1, m)) = m
        /\ \A i \in 1..m : SubSeq(t, 1, m)[i] = t[i]
    BY <1>1, <1>5
  <2>3. PICK a \in Seq(S), b \in Seq(S) : a = SubSeq(r, 1, m) /\ b = SubSeq(t, 1, m)
    BY <2>1, <2>2
  <2>4. Len(a) = Len(b) /\ \A i \in 1..Len(a) : a[i] = b[i]
    BY <1>6, <2>1, <2>2, <2>3
  <2>5. a = b
    BY <2>4, EqualSeq
  <2> QED BY <2>3, <2>5
<1>8. m <= n
  BY <1>1
<1>9. Text!IsPrefix(r, t)
  BY <1>4, <1>5, <1>7, <1>8 DEF Text!IsPrefix
<1> QED BY <1>9, <1>r, <1>t DEF Text!IsSuffix

(* A step that shows what one of the inputs makes of the text.             *)
LEMMA FedStep ==
    ASSUME Legible(Screen), NEW s, Show(s), NEW string \in TerminalInputs,
           NEW U, U = FedTo(LinesIn(Screen), string), Shown(s, U)
    PROVE  Legible(Screen') /\ Text!TerminalNext
<1>1. s \in [cells : Cells, row : Rows, col : Columns]
  BY LegibleParts DEF Shown
<1>2. Screen' = s
  BY <1>1 DEF Show, Screen
<1>3. Lines = LinesIn(Screen) /\ Lines' = LinesIn(s)
  BY <1>2, LinesAre, NextLinesAre
<1>4. Text!IsSuffix(Lines', U)
  BY <1>3, ShowsSuffix, LinesTyped DEF Shown
<1>5. Lines' = U \/ Len(Lines') >= MAX_ROW
  <2>1. CASE Len(LinesIn(s)) >= MAX_ROW
    BY <1>3, <2>1
  <2>2. CASE Len(LinesIn(s)) = Len(U)
    <3>1. PICK a \in Seq(Seq(Marks)), b \in Seq(Seq(Marks)) : a = LinesIn(s) /\ b = U
      BY LinesTyped DEF Shown, Shows, LineTexts
    <3>2. \A i \in 1..Len(a) : a[i] = b[i]
      <4>1. ASSUME NEW i \in 1..Len(a) PROVE a[i] = b[Len(b) - Len(a) + i]
        BY <3>1 DEF Shown, Shows
      <4>2. PICK n \in Nat : n = Len(a) /\ n = Len(b)
        BY <2>2, <3>1
      <4>3. \A i \in 1..n : n - n + i = i
        OBVIOUS
      <4> QED BY <4>1, <4>2, <4>3
    <3>3. a = b
      BY <2>2, <3>1, <3>2, EqualSeq
    <3> QED BY <1>3, <3>1, <3>3
  <2> QED BY <2>1, <2>2 DEF Shown, Shows
<1>6. U = Text!FedAll(Lines, string)
  BY <1>3 DEF FedTo
<1>7. Text!TerminalNext
  <2>1. Text!TerminalNext =
          \E now \in {Lines}, next \in {Lines'}, in \in TerminalInputs :
             \E text \in {Text!FedAll(now, in)} :
                /\ Text!IsSuffix(next, text)
                /\ next = text \/ Len(next) >= MAX_ROW
    BY DEF Text!TerminalNext
  <2>2. Lines \in {Lines} /\ Lines' \in {Lines'}
    OBVIOUS
  <2> QED BY <1>4, <1>5, <1>6, <2>1, <2>2
<1>8. Legible(Screen')
  BY <1>2 DEF Shown
<1> QED BY <1>7, <1>8

(* A legible screen shows its own lines.                                   *)
LEMMA NowShown ==
    ASSUME Legible(Screen)
    PROVE  Shown(Screen, LinesIn(Screen))
<1>1. PICK L : L = LinesIn(Screen)
  OBVIOUS
<1>2. L \in Seq(Seq(Marks)) /\ Len(L) = Screen.row + 1 /\ Screen.row \in Nat
  BY <1>1, LinesTyped, LegibleParts, ConsoleSizes
<1>3. PICK n \in Nat : n = Len(L) /\ n > 0
  BY <1>2
<1>4. L # <<>> /\ n \in 1..n /\ \A i \in 1..n : n - n + i = i
  BY <1>3
<1>5. L \in LineTexts
  BY <1>2, <1>4 DEF LineTexts
<1>6. Shows(L, L)
  BY <1>3, <1>4, <1>5 DEF Shows
<1> QED BY <1>1, <1>6 DEF Shown

(* Whatever is still to be displayed is printable, and the screen legible. *)
LinesInv ==
    /\ Legible(Screen)
    /\ printing \in [text : Seq(Typed), line : BOOLEAN]
    /\ left \in Seq(Typed)

(* The prompt, the line ends and the messages are printable.               *)
LEMMA TypedTexts ==
    ASSUME Printable
    PROVE  /\ CONSOLE_PROMPT \in Seq(Chars) /\ <<LineFeed>> \in Seq(Typed) /\ <<>> \in Seq(Typed)
           /\ CONSOLE_PROMPT \in Seq(Typed) /\ CONSOLE_PROMPT \in Seq(Chars \cup {LineFeed})
           /\ Welcome \in Seq(Typed)
           /\ \A text \in Messages : text \in Seq(Typed)
<1>1. {">", " "} \subseteq Chars
  BY CharsAre
<1>2. LineFeed \in Typed /\ Chars \subseteq Typed
  BY DEF Typed
<1>3. ASSUME NEW S, NEW a \in S, NEW b \in S PROVE <<a, b>> \in Seq(S) /\ <<a>> \in Seq(S)
  OBVIOUS
<1>4. ASSUME NEW S, {">", " "} \subseteq S PROVE CONSOLE_PROMPT \in Seq(S)
  BY <1>3, <1>4 DEF CONSOLE_PROMPT
<1>5. <<LineFeed>> \in Seq(Typed)
  BY <1>2, <1>3
<1>6. CONSOLE_PROMPT \in Seq(Chars) /\ CONSOLE_PROMPT \in Seq(Typed)
      /\ CONSOLE_PROMPT \in Seq(Chars \cup {LineFeed})
  <2>1. {">", " "} \subseteq Typed /\ {">", " "} \subseteq Chars \cup {LineFeed}
    BY <1>1, <1>2
  <2> QED BY <1>1, <1>4, <2>1
<1>7. Welcome \in Seq(Typed) /\ \A text \in Messages : text \in Seq(Typed)
  BY CharsAre
<1> QED BY <1>5, <1>6, <1>7

(* What is displayed of a call is printable,                               *)
LEMMA DisplayedTyped ==
    ASSUME Printable, NEW call \in [text : Seq(Typed), line : BOOLEAN], NEW found \in BOOLEAN
    PROVE  ToDisplay(call, found) \in Seq(Typed)
<1>1. /\ PromptBreak(found) \in Seq(Typed)
      /\ LineEnd(call) \in Seq(Typed)
      /\ (IF call.line /\ found THEN CONSOLE_PROMPT ELSE <<>>) \in Seq(Typed)
      /\ call.text \in Seq(Typed)
  BY TypedTexts DEF PromptBreak, LineEnd
<1> QED BY <1>1 DEF ToDisplay

(* and of a report, it has no tab.                                         *)
LEMMA ReportTyped ==
    ASSUME Printable, NEW text \in Reports, NEW found \in BOOLEAN
    PROVE  ToDisplay([text |-> text, line |-> TRUE], found) \in Seq(Chars \cup {LineFeed})
<1>S. PICK S : S = Chars \cup {LineFeed}
  OBVIOUS
<1>c. PICK call : call = [text |-> text, line |-> TRUE]
  OBVIOUS
<1>1. call.text = text /\ call.line = TRUE
  BY <1>c
<1>2. <<LineFeed>> \in Seq(S) /\ <<>> \in Seq(S) /\ CONSOLE_PROMPT \in Seq(S) /\ text \in Seq(S)
  <2>1. ASSUME NEW a \in S PROVE <<a>> \in Seq(S)
    OBVIOUS
  <2>2. <<LineFeed>> \in Seq(S)
    BY <1>S, <2>1
  <2>3. CONSOLE_PROMPT \in Seq(S)
    BY <1>S, TypedTexts
  <2>4. text \in Seq(S)
    BY <1>S, CharsAre
  <2> QED BY <2>2, <2>3, <2>4
<1>3. /\ PromptBreak(found) \in Seq(S)
      /\ LineEnd(call) \in Seq(S)
      /\ (IF call.line /\ found THEN CONSOLE_PROMPT ELSE <<>>) \in Seq(S)
      /\ call.text \in Seq(S)
  BY <1>1, <1>2 DEF PromptBreak, LineEnd
<1>4. ToDisplay(call, found) \in Seq(S)
  BY <1>3 DEF ToDisplay
<1> QED BY <1>4, <1>S, <1>c

(* One character, of a message or a key.                                   *)
LEMMA CharacterMakes ==
    ASSUME Printable, Legible(Screen), NEW c \in Typed, Show(VGA_display_char(Screen, c))
    PROVE  Legible(Screen') /\ Text!TerminalNext
<1>e. PICK e : e = VGA_display_char(Screen, c)
  OBVIOUS
<1>T. PICK T : T = LinesIn(Screen)
  OBVIOUS
<1>1. Shown(Screen, T) /\ T \in LineTexts
  BY <1>T, NowShown, ShownTidy
<1>2. CASE c = Tab
  <2>1. Shown(e, FedTo(T, <<" ", " ", " ", " ">>))
    BY <1>1, <1>2, <1>e, TabShown
  <2>2. <<" ", " ", " ", " ">> \in TerminalInputs
    <3>1. PICK tab : tab = <<" ", " ", " ", " ">>
      OBVIOUS
    <3>2. PICK prompt : prompt = <<LineFeed>> \o CONSOLE_PROMPT
      OBVIOUS
    <3>3. PICK X : X = { <<char>> : char \in Chars \cup {LineFeed, Backspace} }
      OBVIOUS
    <3>4. PICK Y : Y = UNION { { ToDisplay([text |-> text, line |-> TRUE], found) :
                                  found \in BOOLEAN } : text \in Reports }
      OBVIOUS
    <3>5. TerminalInputs = X \cup {prompt, tab} \cup Y
      BY <3>1, <3>2, <3>3, <3>4, Zenon DEF TerminalInputs
    <3> QED BY <3>1, <3>5
  <2> QED BY <1>e, <1>T, <2>1, <2>2, FedStep
<1>3. CASE c \in Chars \cup {LineFeed}
  <2>1. c \in Fed
    BY <1>3 DEF Fed
  <2>2. Shown(e, FedTo(T, <<c>>))
    BY <1>1, <1>3, <1>e, <2>1, DisplayShown, FedOne
  <2>3. <<c>> \in TerminalInputs
    BY <1>3 DEF TerminalInputs
  <2> QED BY <1>e, <1>T, <2>2, <2>3, FedStep
<1> QED BY <1>2, <1>3 DEF Typed

(* VGA_erase of the screen.                                                *)
LEMMA EraseMakes ==
    ASSUME Printable, Legible(Screen), Show(VGA_erase(Screen))
    PROVE  Legible(Screen') /\ Text!TerminalNext
<1>e. PICK e : e = VGA_erase(Screen)
  OBVIOUS
<1>T. PICK T : T = LinesIn(Screen)
  OBVIOUS
<1>1. Shown(Screen, T) /\ T \in LineTexts
  BY <1>T, NowShown, ShownTidy
<1>2. Backspace \in Fed
  BY DEF Fed
<1>3. Shown(e, FedTo(T, <<Backspace>>))
  BY <1>1, <1>2, <1>e, EraseShown, FedOne
<1>4. <<Backspace>> \in TerminalInputs
  BY DEF TerminalInputs
<1> QED BY <1>e, <1>T, <1>3, <1>4, FedStep

(* KeyPressed shows what one of the inputs makes of the lines,             *)
LEMMA KeyMakes ==
    ASSUME Printable, Legible(Screen), NEW scan \in ScanCodes, KeyPressed(scan)
    PROVE  Legible(Screen') /\ Text!TerminalNext
<1>1. PICK c \in KeyChars(scan) : c # NoChar /\ Show(KeyShown(c))
  BY DEF KeyPressed
<1>2. c \in Typed \cup {Backspace}
  <2>1. scan \in 1..LastIndexed
    BY DEF KeyPressed
  <2>2. CASE scan <= TableSize
    <3>1. scan \in 1..TableSize
      BY <2>1, <2>2 DEF LastIndexed, TableSize
    <3>2. scan \in DOMAIN pressed_keys
      BY <3>1, ConsoleAssumption
    <3>3. \A k \in DOMAIN pressed_keys : pressed_keys[k] \in {Backspace, Tab, LineFeed, "A", NoChar}
      BY DEF pressed_keys
    <3>4. c = pressed_keys[scan] /\ "A" \in Chars
      BY <2>2, CharsAre DEF KeyChars
    <3> QED BY <1>1, <3>2, <3>3, <3>4 DEF Typed
  <2>3. CASE ~(scan <= TableSize)
    <3>1. c \in BeyondTable
      BY <2>3 DEF KeyChars
    <3> QED BY <1>1, <3>1, CharsAre DEF Typed
  <2> QED BY <2>2, <2>3
<1>3. CASE is_alpha(c) /\ ~(is_left_shift \/ is_right_shift \/ is_capslock)
  <2>1. KeyShown(c) = VGA_display_char(Screen, Lower(c))
    BY <1>3 DEF KeyShown
  <2>2. Lower(c) \in Typed
    BY CharsAre DEF Lower, Typed
  <2> QED BY <1>1, <2>1, <2>2, CharacterMakes
<1>4. CASE ~(is_alpha(c) /\ ~(is_left_shift \/ is_right_shift \/ is_capslock)) /\ c = Backspace
  <2>1. KeyShown(c) = VGA_erase(Screen)
    BY <1>4 DEF KeyShown
  <2> QED BY <1>1, <2>1, EraseMakes
<1>5. CASE /\ ~(is_alpha(c) /\ ~(is_left_shift \/ is_right_shift \/ is_capslock))
           /\ c # Backspace /\ c = LineFeed
  <2>e. PICK e : e = VGA_display_str(VGA_display_char(Screen, LineFeed), CONSOLE_PROMPT)
    OBVIOUS
  <2>1. KeyShown(c) = e
    BY <1>5, <2>e DEF KeyShown
  <2>2. Shown(Screen, LinesIn(Screen))
    BY NowShown
  <2>3. Shown(e, FedTo(LinesIn(Screen), <<LineFeed>> \o CONSOLE_PROMPT))
    BY <2>2, <2>e, PromptShown
  <2>4. <<LineFeed>> \o CONSOLE_PROMPT \in TerminalInputs
    BY DEF TerminalInputs
  <2> QED BY <1>1, <2>1, <2>3, <2>4, FedStep
<1>6. CASE /\ ~(is_alpha(c) /\ ~(is_left_shift \/ is_right_shift \/ is_capslock))
           /\ c # Backspace /\ c # LineFeed
  <2>1. KeyShown(c) = VGA_display_char(Screen, c)
    BY <1>6 DEF KeyShown
  <2>2. c \in Typed
    BY <1>2, <1>6
  <2> QED BY <1>1, <2>1, <2>2, CharacterMakes
<1> QED BY <1>3, <1>4, <1>5, <1>6

(* and so does the report of a handler.                                    *)
LEMMA ReportMakes ==
    ASSUME Printable, Legible(Screen), Report
    PROVE  Legible(Screen') /\ Text!TerminalNext
<1>1. ASSUME NEW text \in Reports,
             Show(VGA_display_str(Screen, ToDisplay([text |-> text, line |-> TRUE], PromptSeen)))
      PROVE  Legible(Screen') /\ Text!TerminalNext
  <2>i. PICK shown : shown = ToDisplay([text |-> text, line |-> TRUE], PromptSeen)
    OBVIOUS
  <2>1. PromptSeen \in BOOLEAN
    BY DEF PromptSeen
  <2>2. shown \in Seq(Chars \cup {LineFeed})
    BY <2>1, <2>i, ReportTyped
  <2>3. shown \in TerminalInputs
    <3>1. PICK R : R = { ToDisplay([text |-> text, line |-> TRUE], found) :
                         found \in BOOLEAN }
      OBVIOUS
    <3>2. shown \in R
      BY <2>1, <2>i, <3>1
    <3>3. PICK Y : Y = { { ToDisplay([text |-> said, line |-> TRUE], found) :
                            found \in BOOLEAN } : said \in Reports }
      OBVIOUS
    <3>4. R \in Y
      BY <3>1, <3>3
    <3>5. UNION Y \subseteq TerminalInputs
      BY <3>3, Zenon DEF TerminalInputs
    <3> QED BY <3>2, <3>4, <3>5
  <2>e. PICK e : e = VGA_display_str(Screen, shown)
    OBVIOUS
  <2>4. Shown(Screen, LinesIn(Screen))
    BY NowShown
  <2>5. Shown(e, FedTo(LinesIn(Screen), shown))
    BY <2>2, <2>4, <2>e, StringShown
  <2> QED BY <1>1, <2>3, <2>5, <2>e, <2>i, FedStep
<1>2. ASSUME Show(VGA_display_char(Screen, LineFeed))
      PROVE  Legible(Screen') /\ Text!TerminalNext
  <2>1. LineFeed \in Typed
    BY DEF Typed
  <2> QED BY <1>2, <2>1, CharacterMakes
<1> QED BY <1>1, <1>2 DEF Report

(* VGA_clear leaves one empty line.                                        *)
LEMMA LinesInit == Printable /\ ConsoleInit => LinesInv /\ Text!TerminalInit
<1> SUFFICES ASSUME Printable, ConsoleInit PROVE LinesInv /\ Text!TerminalInit
  OBVIOUS
<1>1. Screen \in Screens
  BY ConsoleInitInv DEF ConsoleInv
<1>2. PICK below \in Below :
        vga_buff = [row \in Rows |-> IF row < MAX_ROW THEN BlankRow ELSE below]
  BY DEF ConsoleInit, VGA_clear
<1>3. Screen.cells = vga_buff /\ Screen.row = 0 /\ Screen.col = 0
  BY DEF ConsoleInit, VGA_clear, Screen
<1>4. \A row \in 0..(MAX_ROW - 1) : vga_buff[row] = BlankRow
  BY <1>2, ConsoleSizes DEF Rows
<1>5. BlankRow \in [Columns -> Marks] /\ BlankRow[0] = Blank
  BY ConsoleSizes DEF BlankRow, Marks, Columns
<1>6. Legible(Screen)
  <2>1. 0 \in 0..(MAX_ROW - 1) /\ vga_buff[0][0] = Blank
    BY <1>4, <1>5, ConsoleSizes
  <2>2. Filled(Screen.cells[Screen.row], Screen.col)
    BY <1>3 DEF Filled
  <2> QED BY <1>1, <1>3, <1>4, <1>5, <2>1, <2>2, ConsoleSizes DEF Legible
<1>7. printing \in [text : Seq(Typed), line : BOOLEAN] /\ left \in Seq(Typed)
  BY TypedTexts DEF ConsoleInit, NoCall
<1>8. Text!TerminalInit
  <2>1. LineIn(Screen, 0) = <<>>
    <3>1. 0 \in 0..(MAX_ROW - 1)
      BY ConsoleSizes
    <3> QED BY <1>3, <1>4, <3>1, BlankClosed, RowLine
  <2>2. LinesIn(Screen)[1] = <<>> /\ Len(LinesIn(Screen)) = 1
        /\ LinesIn(Screen) \in Seq(Seq(Marks))
    <3>1. /\ LinesIn(Screen) \in Seq(Seq(Marks)) /\ Len(LinesIn(Screen)) = Screen.row + 1
          /\ LinesIn(Screen)[Screen.row + 1] = LineIn(Screen, Screen.row)
      BY <1>6, LinesTyped
    <3>2. Screen.row + 1 = 1
      BY <1>3
    <3> QED BY <1>3, <2>1, <3>1, <3>2
  <2>3. PICK L \in Seq(Seq(Marks)) : L = LinesIn(Screen)
    BY <2>2
  <2>4. L = << <<>> >>
    BY <2>2, <2>3
  <2> QED BY <2>3, <2>4, LinesAre DEF Text!TerminalInit
<1> QED BY <1>6, <1>7, <1>8 DEF LinesInv

(* Every step of Console keeps LinesInv and is a step of Terminal or none. *)
LEMMA LinesStep ==
    Printable /\ LinesInv /\ [ConsoleNext]_consoleVars
        => LinesInv' /\ [Text!TerminalNext]_Lines
<1> SUFFICES ASSUME Printable, LinesInv, [ConsoleNext]_consoleVars
             PROVE  LinesInv' /\ [Text!TerminalNext]_Lines
  OBVIOUS
<1>0. /\ Legible(Screen)
      /\ printing \in [text : Seq(Typed), line : BOOLEAN]
      /\ left \in Seq(Typed)
  BY DEF LinesInv
<1>s. ASSUME UNCHANGED screenVars PROVE Legible(Screen') /\ Lines' = Lines
  <2>1. Screen' = Screen
    BY <1>s DEF screenVars, Screen
  <2> QED BY <1>0, <2>1, LinesAre, NextLinesAre
<1>1. ASSUME NEW scan \in ScanCodes, CON_key_action(scan)
      PROVE  LinesInv' /\ [Text!TerminalNext]_Lines
  <2>1. Legible(Screen') /\ [Text!TerminalNext]_Lines
    <3>1. CASE KeyPressed(scan)
      <4>1. Legible(Screen)
        BY <1>0
      <4> QED BY <3>1, <4>1, KeyMakes
    <3>2. CASE KeyOfModifier(scan)
      BY <1>s, <3>2 DEF KeyOfModifier
    <3> QED BY <1>1, <3>1, <3>2 DEF CON_key_action
  <2>2. printing' = printing /\ left' = left
    BY <1>1 DEF CON_key_action, printVars
  <2> QED BY <1>0, <2>1, <2>2 DEF LinesInv
<1>2. ASSUME NEW text \in Messages, printk(text) \/ printkln(text)
      PROVE  LinesInv' /\ [Text!TerminalNext]_Lines
  <2>1. PICK line \in BOOLEAN : Begin(text, line)
    BY <1>2 DEF printk, printkln
  <2>2. printing' \in [text : Seq(Typed), line : BOOLEAN] /\ left' = left
    BY <2>1, TypedTexts DEF Begin
  <2>3. Legible(Screen') /\ Lines' = Lines
    BY <1>s, <2>1 DEF Begin
  <2> QED BY <1>0, <2>2, <2>3 DEF LinesInv
<1>3. ASSUME is_prompt PROVE LinesInv' /\ [Text!TerminalNext]_Lines
  <2>1. left' \in Seq(Typed) /\ printing' = printing
    BY <1>0, <1>3, DisplayedTyped DEF is_prompt
  <2>2. Legible(Screen') /\ Lines' = Lines
    BY <1>s, <1>3 DEF is_prompt
  <2> QED BY <1>0, <2>1, <2>2 DEF LinesInv
<1>4. ASSUME DisplayNext PROVE LinesInv' /\ [Text!TerminalNext]_Lines
  <2>1. Head(left) \in Typed /\ Tail(left) \in Seq(Typed)
    BY <1>0, <1>4 DEF DisplayNext
  <2>2. Legible(Screen') /\ Text!TerminalNext
    BY <1>0, <1>4, <2>1, CharacterMakes DEF DisplayNext
  <2>3. printing' \in [text : Seq(Typed), line : BOOLEAN]
    BY <1>0, <1>4, TypedTexts DEF DisplayNext, NoCall
  <2>4. left' = Tail(left)
    BY <1>4 DEF DisplayNext
  <2> QED BY <2>1, <2>2, <2>3, <2>4 DEF LinesInv
<1>5. ASSUME Report PROVE LinesInv' /\ [Text!TerminalNext]_Lines
  <2>1. Legible(Screen') /\ Text!TerminalNext
    <3>1. Legible(Screen)
      BY <1>0
    <3> QED BY <1>5, <3>1, ReportMakes
  <2>2. printing' = printing /\ left' = left
    BY <1>5 DEF Report, printVars
  <2> QED BY <1>0, <2>1, <2>2 DEF LinesInv
<1>6. ASSUME sti PROVE LinesInv' /\ [Text!TerminalNext]_Lines
  <2>1. Legible(Screen') /\ Lines' = Lines /\ printing' = printing /\ left' = left
    BY <1>s, <1>6 DEF sti
  <2> QED BY <1>0, <2>1 DEF LinesInv
<1>7. ASSUME UNCHANGED consoleVars PROVE LinesInv' /\ [Text!TerminalNext]_Lines
  <2>1. Legible(Screen') /\ Lines' = Lines /\ printing' = printing /\ left' = left
    BY <1>s, <1>7 DEF consoleVars, printVars
  <2> QED BY <1>0, <2>1 DEF LinesInv
<1> QED BY <1>1, <1>2, <1>3, <1>4, <1>5, <1>6, <1>7 DEF ConsoleNext

(***************************************************************************)
(* Whatever the interleaving of printk, of keys and of the handlers'       *)
(* messages, every step of VGA_display_char, VGA_display_str and VGA_erase *)
(* leaves on the screen what module Terminal makes of it: no character is  *)
(* lost or moved by a wrap, a scroll, an erasure or a clearing, and the    *)
(* last MAX_ROW lines are always there.  The exception is Terminal's, too: *)
(* a line that fills the last row is shown twice (scroll, vga_api.c:163);  *)
(* the next character takes the place of the copy, but a line feed leaves  *)
(* it on the screen for good.  For every size of the screen and all        *)
(* messages and reports that are Printable.                                *)
(***************************************************************************)
THEOREM ScreenIsTerminal == Printable => (ConsoleSpec => ImplementsTerminal)
<1> SUFFICES ASSUME Printable PROVE ConsoleSpec => ImplementsTerminal
  OBVIOUS
<1>1. ConsoleInit => LinesInv /\ Text!TerminalInit
  BY LinesInit
<1>2. LinesInv /\ [ConsoleNext]_consoleVars => LinesInv' /\ [Text!TerminalNext]_Lines
  BY LinesStep
<1> QED BY <1>1, <1>2, PTL DEF ConsoleSpec, ImplementsTerminal

-----------------------------------------------------------------------------
(* The keyboard.                                                           *)
(* A request outlives its byte only if stray says so, and the handler runs *)
(* only after the set-up, which therefore takes no byte from under it.     *)
RequestInv ==
    /\ handler \in {"none", "read", "eoi"}
    /\ handler # "none" => flag
    /\ flag => Done
    /\ ~stray => /\ irr => output # NoByte
                 /\ handler = "read" => output # NoByte

LEMMA RequestInit == KeyboardInit => RequestInv
  BY DEF KeyboardInit, RequestInv, Level, NoByte

LEMMA RequestStep == RequestInv /\ [KeyboardNext]_vars => RequestInv'
<1> SUFFICES ASSUME RequestInv, [KeyboardNext]_vars PROVE RequestInv'
  OBVIOUS
<1> USE DEF RequestInv
<1>1. CASE Obey
  BY <1>1 DEF Obey, code, Edge, Level, Done
<1>2. CASE Reply
  BY <1>2 DEF Reply, code, history, Edge, Level, Done
<1>3. CASE Send
  BY <1>3 DEF Send, code, history, Edge, Level, Done
<1>4. CASE Press
  BY <1>4 DEF Press, code, Done
<1>5. CASE SetUp
  <2>1. ~flag /\ handler = "none" /\ UNCHANGED <<flag, handler>>
    BY <1>5 DEF SetUp
  <2>2. CASE Take
    BY <1>5, <2>1, <2>2 DEF Take
  <2>3. CASE UNCHANGED <<output, irr, history>>
    BY <1>5, <2>1, <2>3 DEF history
  <2> QED BY <1>5, <2>2, <2>3 DEF SetUp, history
<1>6. CASE TurnOnInterrupts
  BY <1>6 DEF TurnOnInterrupts, controller, history, Done
<1>7. CASE Deliver
  BY <1>7 DEF Deliver, history, Done
<1>8. CASE PS2_keyboard_interrupt
  BY <1>8 DEF PS2_keyboard_interrupt, Take, Done
<1>9. CASE IRQ_end_of_interrupt
  BY <1>9 DEF IRQ_end_of_interrupt, controller, history, Done
<1>10. CASE UNCHANGED vars
  BY <1>10 DEF vars, code, controller, history, Done
<1> QED
  BY <1>1, <1>2, <1>3, <1>4, <1>5, <1>6, <1>7, <1>8, <1>9, <1>10 DEF KeyboardNext

(* The handler of IRQ 1 waits with interrupts off; it never does so for a  *)
(* byte that nothing announces, unless a request outlived its byte.        *)
THEOREM NeverWaitsIdly == KeyboardSpec => []NoIdleWait
<1>1. RequestInv => NoIdleWait
  BY DEF RequestInv, NoIdleWait, Coming
<1> QED
  BY <1>1, RequestInit, RequestStep, PTL DEF KeyboardSpec
-----------------------------------------------------------------------------
(* The operations of the set-up, one by one.                               *)
LEMMA Operations ==
    /\ Len(PS2_setup_keyboard) = 14
    /\ PS2_setup_keyboard[1] = write_command("disable port 1")
    /\ PS2_setup_keyboard[2] = write_command("disable port 2")
    /\ PS2_setup_keyboard[3] = write_command("read config")
    /\ PS2_setup_keyboard[4] = read_data
    /\ PS2_setup_keyboard[5] = write_command("write config")
    /\ PS2_setup_keyboard[6] = write_data("config", <<>>)
    /\ PS2_setup_keyboard[7] = write_command("test")
    /\ PS2_setup_keyboard[8] = read_data
  BY DEF PS2_setup_keyboard

(* Nothing but the controller's replies can reach the output buffer.       *)
Quiet == output = NoByte /\ replies = <<>> /\ ~port1

Sent(op) == input = op /\ Quiet

Obeyed == input = Nothing /\ Quiet

(* The reply to a command is in the output buffer or on its way there, and *)
(* nothing else is.                                                        *)
Answered(reply) ==
    /\ input = Nothing /\ ~port1
    /\ \/ output = NoByte /\ replies = <<reply>>
       \/ output = reply /\ replies = <<>>

(* Where the set-up and the controller are, as long as no byte waited when *)
(* port 1 was disabled: the operations done, what was taken so far, what   *)
(* is in the buffers.                                                      *)
BeforeTest ==
    /\ pc \in 0..7
    /\ pc = 0 => taken = <<>> /\ input = Nothing /\ replies = <<>>
    /\ pc = 1 => /\ taken = <<>> /\ replies = <<>>
                 /\ input = write_command("disable port 1") \/ Obeyed
    /\ pc = 2 => taken = <<>> /\ (Sent(write_command("disable port 2")) \/ Obeyed)
    /\ pc = 3 => taken = <<>> /\ (Sent(write_command("read config")) \/ Answered(Config))
    /\ pc = 4 => taken = <<Config>> /\ Obeyed
    /\ pc = 5 => taken = <<Config>> /\ (Sent(write_command("write config")) \/ Obeyed)
    /\ pc = 6 => taken = <<Config>> /\ (Sent(write_data("config", <<>>)) \/ Obeyed)
    /\ pc = 7 => taken = <<Config>> /\ (Sent(write_command("test")) \/ Answered(TestOK))

Taken == taken \in Seq(Int) /\ Len(taken) >= 2 /\ taken[1] = Config /\ taken[2] = TestOK

BytesOK ==
    /\ pc \in 0..14
    /\ output \in Int /\ replies \in Seq(Int) /\ queue \in Seq(Int)
    /\ input.answers \in Seq(Int)

LEMMA AnswersTyped ==
    /\ \A i \in 1..14 : PS2_setup_keyboard[i].answers \in Seq(Int)
    /\ Nothing.answers \in Seq(Int)
<1>1. <<>> \in Seq(Int) /\ <<Ack>> \in Seq(Int) /\ <<Ack, SetNumber>> \in Seq(Int)
  BY DEF Ack, SetNumber
<1>2. ASSUME NEW i \in 1..14
      PROVE  \E kind, what : \E answers \in {<<>>, <<Ack>>, <<Ack, SetNumber>>} :
                PS2_setup_keyboard[i] = Op(kind, what, answers)
  <2>1. CASE i \in 1..8
    <3>1. i = 1 \/ i = 2 \/ i = 3 \/ i = 4 \/ i = 5 \/ i = 6 \/ i = 7 \/ i = 8
      BY <2>1
    <3> QED BY <3>1, Operations DEF write_command, write_data, read_data
  <2>2. /\ PS2_setup_keyboard[9] = write_command("enable port 1")
        /\ \A k \in 10..13 : PS2_setup_keyboard[k] = write_data("keyboard", <<Ack>>)
        /\ PS2_setup_keyboard[14] = write_data("keyboard", <<Ack, SetNumber>>)
    BY DEF PS2_setup_keyboard
  <2>3. CASE i = 9
    BY <2>2, <2>3 DEF write_command
  <2>4. CASE i \in 10..13
    BY <2>2, <2>4 DEF write_data
  <2>5. CASE i = 14
    BY <2>2, <2>5 DEF write_data
  <2> QED BY <2>1, <2>3, <2>4, <2>5
<1>3. \A kind, what, answers : Op(kind, what, answers).answers = answers
  BY DEF Op
<1>4. ASSUME NEW i \in 1..14 PROVE PS2_setup_keyboard[i].answers \in Seq(Int)
  <2>1. PICK kind, what : \E answers \in {<<>>, <<Ack>>, <<Ack, SetNumber>>} :
                PS2_setup_keyboard[i] = Op(kind, what, answers)
    BY <1>2
  <2>2. PICK answers \in {<<>>, <<Ack>>, <<Ack, SetNumber>>} :
                PS2_setup_keyboard[i] = Op(kind, what, answers)
    BY <2>1
  <2>3. answers \in Seq(Int)
    BY <1>1
  <2> QED BY <1>3, <2>2, <2>3
<1> QED BY <1>1, <1>3, <1>4 DEF Nothing

LEMMA BytesInit == KeyboardInit => BytesOK
<1> SUFFICES ASSUME KeyboardInit PROVE BytesOK
  OBVIOUS
<1>1. pc = 0 /\ replies = <<>> /\ queue = <<>> /\ input = Nothing /\ output \in {0, 100}
  BY DEF KeyboardInit, NoByte, StaleKey
<1>2. replies \in Seq(Int) /\ queue \in Seq(Int)
  BY <1>1
<1> QED BY <1>1, <1>2, AnswersTyped DEF BytesOK

LEMMA BytesStep == BytesOK /\ [KeyboardNext]_vars => BytesOK'
<1> SUFFICES ASSUME BytesOK, [KeyboardNext]_vars PROVE BytesOK'
  OBVIOUS
<1> USE DEF BytesOK
<1>0. Nothing.answers \in Seq(Int)
  BY AnswersTyped
<1>1. CASE Obey
  <2>1. replies' \in Seq(Int)
    <3>1. <<Config>> \in Seq(Int) /\ <<TestOK>> \in Seq(Int) /\ <<>> \in Seq(Int)
      BY DEF Config, TestOK
    <3>2. PICK r : r \in {<<Config>>, <<TestOK>>, <<>>} /\ replies' = replies \o r
      BY <1>1 DEF Obey
    <3> QED BY <3>1, <3>2, ConcatProperties
  <2>2. queue' \in Seq(Int)
    BY <1>1, ConcatProperties DEF Obey
  <2> QED BY <1>0, <1>1, <2>1, <2>2 DEF Obey, code
<1>2. CASE Reply
  BY <1>2, HeadTailProperties DEF Reply, code
<1>3. CASE Send
  BY <1>3, HeadTailProperties DEF Send, code
<1>4. CASE Press
  <2>1. PICK k \in Keys : queue' = Append(queue, k)
    BY <1>4 DEF Press
  <2>2. k \in Int
    BY KeyboardAssumption DEF Keys
  <2> QED BY <1>4, <2>1, <2>2 DEF Press, code
<1>5. CASE SetUp
  <2>1. pc + 1 \in 1..14 /\ pc' = pc + 1 /\ UNCHANGED <<replies, queue>>
    <3>1. pc # 14 /\ pc' = pc + 1
      BY <1>5, Operations DEF SetUp, Done
    <3>2. UNCHANGED <<replies, queue>>
      BY <1>5 DEF SetUp, Take
    <3>3. pc + 1 \in 1..14
      BY <3>1
    <3> QED BY <3>1, <3>2, <3>3
  <2>2. output' \in Int /\ input'.answers \in Seq(Int)
    <3>1. NextOp.answers \in Seq(Int)
      BY <2>1, AnswersTyped DEF NextOp
    <3>2. CASE input' = NextOp /\ UNCHANGED output
      BY <3>1, <3>2
    <3>3. CASE Take
      BY <3>3 DEF Take, NoByte
    <3> QED BY <1>5, <3>2, <3>3 DEF SetUp
  <2> QED BY <2>1, <2>2
<1>6. CASE TurnOnInterrupts
  BY <1>6 DEF TurnOnInterrupts, controller
<1>7. CASE Deliver
  BY <1>7 DEF Deliver
<1>8. CASE PS2_keyboard_interrupt
  BY <1>8 DEF PS2_keyboard_interrupt, Take, NoByte
<1>9. CASE IRQ_end_of_interrupt
  BY <1>9 DEF IRQ_end_of_interrupt, controller
<1>10. CASE UNCHANGED vars
  BY <1>10 DEF vars, code, controller
<1> QED
  BY <1>1, <1>2, <1>3, <1>4, <1>5, <1>6, <1>7, <1>8, <1>9, <1>10 DEF KeyboardNext

Progress == ~early => BeforeTest \/ (pc >= 8 /\ Taken)

AnswersInv == RequestInv /\ BytesOK /\ Progress

LEMMA ProgressInit == KeyboardInit => Progress
  BY DEF KeyboardInit, Progress, BeforeTest

(* What an operation does to the port and to the replies.                  *)
LEMMA ObeyEffect ==
    ASSUME Obey, replies = <<>>
    PROVE  /\ input.what = "disable port 1" => ~port1'
           /\ ~port1 /\ input.what \notin {"disable port 1", "enable port 1", "keyboard"} => ~port1'
           /\ input.what = "read config" => replies' = <<Config>>
           /\ input.what = "test" => replies' = <<TestOK>>
           /\ input.what \notin {"read config", "test"} => replies' = <<>>
<1>0. /\ input.what = "disable port 1" => ~port1'
      /\ input.what \notin {"disable port 1", "enable port 1", "keyboard"} => port1' = port1
  BY DEF Obey
<1>1. ASSUME ~port1, input.what \notin {"disable port 1", "enable port 1", "keyboard"}
      PROVE  ~port1'
  <2>1. port1' = port1
    BY <1>0, <1>1
  <2> QED BY <1>1, <2>1, Zenon
<1>2. /\ input.what = "read config" => replies' = replies \o <<Config>>
      /\ input.what = "test" => replies' = replies \o <<TestOK>>
      /\ input.what \notin {"read config", "test"} => replies' = replies \o <<>>
  BY DEF Obey
<1>3. <<>> \o <<Config>> = <<Config>> /\ <<>> \o <<TestOK>> = <<TestOK>>
  BY DEF Config, TestOK
<1>4. <<>> \o <<>> = <<>>
  OBVIOUS
<1> QED BY <1>0, <1>1, <1>2, <1>3, <1>4

(* The controller obeys what the set-up has sent.                          *)
LEMMA ObeyProgress == AnswersInv /\ Obey => Progress'
<1> SUFFICES ASSUME AnswersInv, Obey, ~early' PROVE (BeforeTest \/ (pc >= 8 /\ Taken))'
  BY DEF Progress
<1>1. /\ input # Nothing /\ input' = Nothing /\ UNCHANGED <<pc, output, taken>>
      /\ ~early /\ ~(input.what = "disable port 1" /\ output # NoByte)
  BY DEF Obey, code
<1>2. CASE pc >= 8 /\ Taken
  BY <1>1, <1>2 DEF Taken
<1>3. CASE BeforeTest
  <2>1. \A what : write_command(what).what = what /\ write_command(what).answers = <<>>
    BY DEF write_command, Op
  <2>2. /\ write_data("config", <<>>).what = "config"
        /\ write_data("config", <<>>).answers = <<>>
    BY DEF write_data, Op
  <2>3. CASE pc = 1 /\ taken = <<>> /\ input = write_command("disable port 1") /\ replies = <<>>
    <3>1. output' = NoByte /\ ~port1' /\ replies' = <<>>
      BY <1>1, <2>1, <2>3, ObeyEffect
    <3>2. Obeyed'
      BY <1>1, <3>1 DEF Obeyed, Quiet
    <3>3. pc' = 1 /\ taken' = <<>> /\ replies' = <<>>
      BY <1>1, <2>3, <3>1
    <3>4. BeforeTest'
      BY <3>2, <3>3 DEF BeforeTest
    <3> QED BY <3>4
  <2>4. CASE pc = 2 /\ taken = <<>> /\ Sent(write_command("disable port 2"))
    <3>1. ~port1' /\ replies' = <<>> /\ output = NoByte
      BY <2>1, <2>4, ObeyEffect DEF Sent, Quiet
    <3>2. Obeyed'
      BY <1>1, <3>1 DEF Obeyed, Quiet
    <3>3. pc' = 2 /\ taken' = <<>>
      BY <1>1, <2>4
    <3> QED BY <3>2, <3>3 DEF BeforeTest
  <2>5. CASE pc = 3 /\ taken = <<>> /\ Sent(write_command("read config"))
    <3>1. ~port1' /\ replies' = <<Config>> /\ output = NoByte
      BY <2>1, <2>5, ObeyEffect DEF Sent, Quiet
    <3>2. Answered(Config)'
      BY <1>1, <3>1 DEF Answered
    <3>3. pc' = 3 /\ taken' = <<>>
      BY <1>1, <2>5
    <3> QED BY <3>2, <3>3 DEF BeforeTest
  <2>6. CASE pc = 5 /\ taken = <<Config>> /\ Sent(write_command("write config"))
    <3>1. ~port1' /\ replies' = <<>> /\ output = NoByte
      BY <2>1, <2>6, ObeyEffect DEF Sent, Quiet
    <3>2. Obeyed'
      BY <1>1, <3>1 DEF Obeyed, Quiet
    <3>3. pc' = 5 /\ taken' = <<Config>>
      BY <1>1, <2>6
    <3> QED BY <3>2, <3>3 DEF BeforeTest
  <2>7. CASE pc = 6 /\ taken = <<Config>> /\ Sent(write_data("config", <<>>))
    <3>1. ~port1' /\ replies' = <<>> /\ output = NoByte
      BY <2>2, <2>7, ObeyEffect DEF Sent, Quiet
    <3>2. Obeyed'
      BY <1>1, <3>1 DEF Obeyed, Quiet
    <3>3. pc' = 6 /\ taken' = <<Config>>
      BY <1>1, <2>7
    <3> QED BY <3>2, <3>3 DEF BeforeTest
  <2>8. CASE pc = 7 /\ taken = <<Config>> /\ Sent(write_command("test"))
    <3>1. ~port1' /\ replies' = <<TestOK>> /\ output = NoByte
      BY <2>1, <2>8, ObeyEffect DEF Sent, Quiet
    <3>2. Answered(TestOK)'
      BY <1>1, <3>1 DEF Answered
    <3>3. pc' = 7 /\ taken' = <<Config>>
      BY <1>1, <2>8
    <3> QED BY <3>2, <3>3 DEF BeforeTest
  <2> QED
    BY <1>1, <1>3, <2>3, <2>4, <2>5, <2>6, <2>7, <2>8 DEF BeforeTest, Obeyed, Answered
<1> QED
  BY <1>1, <1>2, <1>3 DEF AnswersInv, Progress

(* A byte moves to the output buffer: a reply, for nothing else may.       *)
LEMMA ReplyProgress == AnswersInv /\ Reply => Progress'
<1> SUFFICES ASSUME AnswersInv, Reply, ~early' PROVE (BeforeTest \/ (pc >= 8 /\ Taken))'
  BY DEF Progress
<1>1. /\ ~early /\ UNCHANGED <<pc, taken, input, port1>>
      /\ output = NoByte /\ replies # <<>> /\ output' = Head(replies) /\ replies' = Tail(replies)
  BY DEF Reply, code, history
<1>2. ASSUME NEW reply, Answered(reply) PROVE Answered(reply)'
  BY <1>1, <1>2 DEF Answered
<1> QED
  BY <1>1, <1>2 DEF AnswersInv, Progress, BeforeTest, Obeyed, Sent, Quiet, Taken

LEMMA SendProgress == AnswersInv /\ Send => Progress'
<1> SUFFICES ASSUME AnswersInv, Send, ~early' PROVE (BeforeTest \/ (pc >= 8 /\ Taken))'
  BY DEF Progress
<1>1. ~early /\ UNCHANGED <<pc, taken, input, replies, port1>> /\ port1
  BY DEF Send, code, history
<1> QED
  BY <1>1 DEF AnswersInv, Progress, BeforeTest, Obeyed, Sent, Answered, Quiet, Taken

(* The operation that comes next.                                         *)
LEMMA SetUpOps ==
    /\ pc = 0 => NextOp = write_command("disable port 1")
    /\ pc = 1 => NextOp = write_command("disable port 2")
    /\ pc = 2 => NextOp = write_command("read config")
    /\ pc = 3 => NextOp = read_data
    /\ pc = 4 => NextOp = write_command("write config")
    /\ pc = 5 => NextOp = write_data("config", <<>>)
    /\ pc = 6 => NextOp = write_command("test")
    /\ pc = 7 => NextOp = read_data
<1>1. /\ 0 + 1 = 1 /\ 1 + 1 = 2 /\ 2 + 1 = 3 /\ 3 + 1 = 4 /\ 4 + 1 = 5 /\ 5 + 1 = 6
      /\ 6 + 1 = 7 /\ 7 + 1 = 8
  OBVIOUS
<1>2. NextOp = PS2_setup_keyboard[pc + 1]
  BY DEF NextOp
<1> QED BY <1>1, <1>2, Operations, Zenon

LEMMA Kinds ==
    /\ \A what : write_command(what).kind = "command" /\ write_command(what) # Nothing
    /\ \A what, answers :
          write_data(what, answers).kind = "data" /\ write_data(what, answers) # Nothing
    /\ read_data.kind = "read"
  BY DEF write_command, write_data, read_data, Nothing, Op

(* The set-up goes on: it sends when the controller has obeyed, and takes  *)
(* the byte it waited for.                                                 *)
LEMMA SetUpProgress == AnswersInv /\ SetUp => Progress'
<1> SUFFICES ASSUME AnswersInv, SetUp, ~early' PROVE (BeforeTest \/ (pc >= 8 /\ Taken))'
  BY DEF Progress
<1>1. /\ pc \in 0..13 /\ pc' = pc + 1 /\ ~early /\ replies' = replies /\ port1' = port1
      /\ BeforeTest \/ (pc >= 8 /\ Taken)
      /\ output \in Int
  <2>1. pc # 14 /\ pc' = pc + 1
    BY Operations DEF SetUp, Done
  <2>2. early' = early /\ replies' = replies /\ port1' = port1
    BY DEF SetUp, Take, history
  <2>3. ~early
    BY <2>2, Zenon
  <2> QED BY <2>1, <2>2, <2>3 DEF AnswersInv, BytesOK, Progress
<1>2. \/ /\ NextOp.kind # "read" /\ input = Nothing /\ input' = NextOp
         /\ output' = output /\ taken' = taken
      \/ /\ NextOp.kind = "read" /\ output # NoByte
         /\ taken' = Append(taken, output) /\ output' = NoByte /\ input' = input
  BY DEF SetUp, Take, wait_for_write, wait_for_read, history
<1>4. CASE pc >= 8 /\ Taken
  <2>1. pc' >= 8
    BY <1>1, <1>4
  <2>2. CASE taken' = taken
    BY <1>4, <2>1, <2>2 DEF Taken
  <2>3. CASE taken' = Append(taken, output)
    BY <1>1, <1>4, <2>1, <2>3 DEF Taken
  <2> QED BY <1>2, <2>2, <2>3
<1>5. CASE BeforeTest
  <2>1. CASE pc = 0
    <3>1. NextOp = write_command("disable port 1")
      BY <2>1, SetUpOps
    <3>2. taken = <<>> /\ input = Nothing /\ replies = <<>>
      BY <1>5, <2>1 DEF BeforeTest
    <3>3. input' = NextOp /\ taken' = <<>>
      BY <1>2, <3>1, <3>2, Kinds
    <3>7. pc' = 1
      BY <1>1, <2>1
    <3>8. pc' \in 0..7 /\ pc' \notin {0, 2, 3, 4, 5, 6, 7}
      BY <3>7
    <3>4. input' = write_command("disable port 1")
      BY <3>1, <3>3
    <3>5. replies' = <<>>
      BY <1>1, <3>2
    <3> QED BY <3>4, <3>3, <3>5, <3>7, <3>8, Zenon DEF BeforeTest
  <2>2. CASE pc = 1
    <3>1. NextOp = write_command("disable port 2")
      BY <2>2, SetUpOps
    <3>2. taken = <<>> /\ Obeyed
      BY <1>2, <1>5, <2>2, <3>1, Kinds DEF BeforeTest
    <3>3. input' = NextOp /\ taken' = <<>> /\ output' = output
      BY <1>2, <3>1, <3>2, Kinds
    <3>4. Sent(write_command("disable port 2"))'
      BY <1>1, <3>1, <3>2, <3>3 DEF Sent, Obeyed, Quiet
    <3>7. pc' = 2
      BY <1>1, <2>2
    <3>8. pc' \in 0..7 /\ pc' \notin {0, 1, 3, 4, 5, 6, 7}
      BY <3>7
    <3> QED BY <3>3, <3>4, <3>7, <3>8, Zenon DEF BeforeTest
  <2>3. CASE pc = 2
    <3>1. NextOp = write_command("read config")
      BY <2>3, SetUpOps
    <3>2. taken = <<>> /\ Obeyed
      BY <1>2, <1>5, <2>3, <3>1, Kinds DEF BeforeTest, Sent
    <3>3. input' = NextOp /\ taken' = <<>> /\ output' = output
      BY <1>2, <3>1, <3>2, Kinds
    <3>4. Sent(write_command("read config"))'
      BY <1>1, <3>1, <3>2, <3>3 DEF Sent, Obeyed, Quiet
    <3>7. pc' = 3
      BY <1>1, <2>3
    <3>8. pc' \in 0..7 /\ pc' \notin {0, 1, 2, 4, 5, 6, 7}
      BY <3>7
    <3> QED BY <3>3, <3>4, <3>7, <3>8, Zenon DEF BeforeTest
  <2>4. CASE pc = 3
    <3>1. NextOp.kind = "read"
      BY <2>4, SetUpOps, Kinds
    <3>2. output # NoByte /\ taken' = Append(taken, output) /\ output' = NoByte /\ input' = input
      BY <1>2, <3>1
    <3>3. taken = <<>> /\ Answered(Config)
      BY <1>5, <2>4, <3>2 DEF BeforeTest, Sent, Quiet
    <3>4. output = Config /\ replies = <<>> /\ input = Nothing /\ ~port1
      BY <3>2, <3>3 DEF Answered
    <3>5. taken' = <<Config>>
      BY <1>1, <3>2, <3>3, <3>4
    <3>6. Obeyed'
      BY <1>1, <3>2, <3>4 DEF Obeyed, Quiet
    <3>7. pc' = 4
      BY <1>1, <2>4
    <3> QED BY <3>5, <3>6, <3>7 DEF BeforeTest
  <2>5. CASE pc = 4
    <3>1. NextOp = write_command("write config")
      BY <2>5, SetUpOps
    <3>2. taken = <<Config>> /\ Obeyed
      BY <1>2, <1>5, <2>5, <3>1, Kinds DEF BeforeTest, Sent
    <3>3. input' = NextOp /\ taken' = <<Config>> /\ output' = output
      BY <1>2, <3>1, <3>2, Kinds
    <3>4. Sent(write_command("write config"))'
      BY <1>1, <3>1, <3>2, <3>3 DEF Sent, Obeyed, Quiet
    <3>7. pc' = 5
      BY <1>1, <2>5
    <3>8. pc' \in 0..7 /\ pc' \notin {0, 1, 2, 3, 4, 6, 7}
      BY <3>7
    <3> QED BY <3>3, <3>4, <3>7, <3>8, Zenon DEF BeforeTest
  <2>6. CASE pc = 5
    <3>1. NextOp = write_data("config", <<>>)
      BY <2>6, SetUpOps
    <3>2. taken = <<Config>> /\ Obeyed
      BY <1>2, <1>5, <2>6, <3>1, Kinds DEF BeforeTest, Sent
    <3>3. input' = NextOp /\ taken' = <<Config>> /\ output' = output
      BY <1>2, <3>1, <3>2, Kinds
    <3>4. Sent(write_data("config", <<>>))'
      BY <1>1, <3>1, <3>2, <3>3 DEF Sent, Obeyed, Quiet
    <3>7. pc' = 6
      BY <1>1, <2>6
    <3> QED BY <3>3, <3>4, <3>7, SMTT(30) DEF BeforeTest
  <2>7. CASE pc = 6
    <3>1. NextOp = write_command("test")
      BY <2>7, SetUpOps
    <3>2. taken = <<Config>> /\ Obeyed
      BY <1>2, <1>5, <2>7, <3>1, Kinds DEF BeforeTest, Sent
    <3>3. input' = NextOp /\ taken' = <<Config>> /\ output' = output
      BY <1>2, <3>1, <3>2, Kinds
    <3>4. Sent(write_command("test"))'
      BY <1>1, <3>1, <3>2, <3>3 DEF Sent, Obeyed, Quiet
    <3>7. pc' = 7
      BY <1>1, <2>7
    <3> QED BY <3>3, <3>4, <3>7, SMTT(30) DEF BeforeTest
  <2>8. CASE pc = 7
    <3>1. NextOp.kind = "read"
      BY <2>8, SetUpOps, Kinds
    <3>2. output # NoByte /\ taken' = Append(taken, output) /\ output' = NoByte /\ input' = input
      BY <1>2, <3>1
    <3>3. taken = <<Config>> /\ Answered(TestOK)
      BY <1>5, <2>8, <3>2 DEF BeforeTest, Sent, Quiet
    <3>4. output = TestOK /\ replies = <<>> /\ input = Nothing /\ ~port1
      BY <3>2, <3>3 DEF Answered
    <3>5. taken' = Append(<<Config>>, TestOK)
      BY <3>2, <3>3, <3>4
    <3>6. <<Config>> \in Seq(Int) /\ TestOK \in Int
      BY DEF Config, TestOK
    <3>7. Taken'
      BY <3>5, <3>6, AppendProperties DEF Taken
    <3>8. pc' >= 8
      BY <1>1, <2>8
    <3> QED BY <3>7, <3>8
  <2>9. pc \in 0..7
    BY <1>5 DEF BeforeTest
  <2> QED BY <2>1, <2>2, <2>3, <2>4, <2>5, <2>6, <2>7, <2>8, <2>9
<1> QED BY <1>1, <1>4, <1>5

LEMMA AnswersStep == AnswersInv /\ [KeyboardNext]_vars => AnswersInv'
<1> SUFFICES ASSUME AnswersInv, [KeyboardNext]_vars PROVE Progress'
  BY RequestStep, BytesStep DEF AnswersInv
<1>1. ASSUME UNCHANGED <<pc, input, output, replies, port1, taken, early>> PROVE Progress'
  BY <1>1 DEF AnswersInv, Progress, BeforeTest, Obeyed, Sent, Answered, Quiet, Taken
<1>2. CASE PS2_keyboard_interrupt
  <2>1. flag /\ pc = 14
    BY <1>2, Operations DEF PS2_keyboard_interrupt, AnswersInv, RequestInv, Done
  <2>2. pc' = pc /\ taken' = Append(taken, output) /\ early' = early
    BY <1>2 DEF PS2_keyboard_interrupt, Take
  <2>3. ~early => Taken
    BY <2>1 DEF AnswersInv, Progress, BeforeTest
  <2>4. ~early' => Taken'
    BY <2>2, <2>3 DEF Taken, AnswersInv, BytesOK
  <2> QED BY <2>1, <2>2, <2>4 DEF Progress
<1> QED
  BY <1>1, <1>2, ObeyProgress, ReplyProgress, SendProgress, SetUpProgress
     DEF KeyboardNext, Press, TurnOnInterrupts, Deliver, IRQ_end_of_interrupt,
         vars, code, controller, history

(* What the set-up takes for the configuration and for the result of the   *)
(* test is the controller's reply, unless a byte was already waiting when  *)
(* it disabled port 1 (ps2.c:98).                                          *)
THEOREM AnswersAreReplies == KeyboardSpec => []AnswersMatch
<1>1. KeyboardInit => AnswersInv
  BY RequestInit, BytesInit, ProgressInit DEF AnswersInv
<1>2. AnswersInv => AnswersMatch
  <2>1. Taken => taken[1] = Config /\ taken[2] = TestOK
    BY DEF Taken
  <2>2. BeforeTest => taken = <<>> \/ taken = <<Config>>
    <3>1. ASSUME pc \in 0..7
          PROVE  pc = 0 \/ pc = 1 \/ pc = 2 \/ pc = 3 \/ pc = 4 \/ pc = 5 \/ pc = 6 \/ pc = 7
      BY <3>1
    <3> QED BY <3>1, Zenon DEF BeforeTest
  <2> QED BY <2>1, <2>2 DEF AnswersInv, Progress, AnswersMatch
<1> QED
  BY <1>1, <1>2, AnswersStep, PTL DEF KeyboardSpec
================================================================================
