--------------------------- MODULE TerminalProofs ---------------------------
(* Theorems about Terminal, for every screen, glyph and line size.         *)
EXTENDS Terminal, SequenceTheorems, TLAPS

(* The state while lines are printed, typed and erased.                    *)
Editing ==
  /\ pc \in {"print", "read", "command"}
  /\ todo \in Seq(Char \cup {Newline}) /\ buffer \in Seq(Char)
  /\ cursor_x \in Int /\ cursor_x <= LastColumn /\ cursor_y \in Nat
  /\ fb \in [Pixel -> SUBSET Char]
  /\ origin \in [x : Int, y : Int]

(* The line fits in the buffer with its terminator.                        *)
LineFits == Len(buffer) + 1 <= MaxInput

IInv == Editing /\ LineFits /\ CursorMatchesLine

(* The sizes the steps below compute with.                                 *)
LEMMA Sizes == LastColumn \in Nat /\ PitchY \in Nat /\ StartY \in Nat /\ MaxInput \in Nat \ {0}
  BY GeometryAssumption

(* The distance of column x and scanline y from where a line began.        *)
Distance(x, y, ox, oy) == (y - oy) * (LastColumn + 1) + (x - ox) * PitchY

(* Moving by one cell changes the cursor's distance by PitchY, whether it  *)
(* wraps or not.                                                           *)
LEMMA DistanceMoves ==
  ASSUME cursor_x \in Int, cursor_y \in Int, origin.x \in Int, origin.y \in Int
  PROVE  LET d == Distance(cursor_x, cursor_y, origin.x, origin.y) IN
         /\ Distance(cursor_x + 1, cursor_y, origin.x, origin.y) = d + PitchY
         /\ Distance(cursor_x - 1, cursor_y, origin.x, origin.y) = d - PitchY
         /\ cursor_x = LastColumn => Distance(0, cursor_y + PitchY, origin.x, origin.y) = d + PitchY
<1>0. PICK x \in Int, y \in Int, ox \in Int, oy \in Int :
        x = cursor_x /\ y = cursor_y /\ ox = origin.x /\ oy = origin.y
  OBVIOUS
<1> DEFINE L == LastColumn  P == PitchY
<1>1. L \in Int /\ P \in Int
  BY Sizes
<1> HIDE DEF L, P
<1>2. /\ ((x + 1) - ox) * P = (x - ox) * P + P
      /\ ((x - 1) - ox) * P = (x - ox) * P - P
  BY <1>1, SMT
<1>3. ((y + P) - oy) * (L + 1) = (y - oy) * (L + 1) + P * (L + 1)
  BY <1>1, SMT
<1>4. P * (L + 1) = L * P + P /\ (L - ox) * P = L * P + (0 - ox) * P
  BY <1>1, SMT
<1>5. (y - oy) * (L + 1) \in Int /\ (x - ox) * P \in Int /\ L * P \in Int /\ (0 - ox) * P \in Int
  BY <1>1, SMT
<1>7. (y - oy) * (L + 1) + ((x + 1) - ox) * P = ((y - oy) * (L + 1) + (x - ox) * P) + P
  BY <1>1, <1>2, <1>5
<1>8. (y - oy) * (L + 1) + ((x - 1) - ox) * P = ((y - oy) * (L + 1) + (x - ox) * P) - P
  BY <1>1, <1>2, <1>5
<1>9. ((y + P) - oy) * (L + 1) + (0 - ox) * P = ((y - oy) * (L + 1) + (L - ox) * P) + P
  BY <1>1, <1>3, <1>4, <1>5
<1> QED BY <1>0, <1>7, <1>8, <1>9, Zenon DEF Distance, L, P

(* A sequence without its last element.                                    *)
LEMMA ButLast ==
  \A s \in Seq(Char) :
    Len(s) \in Nat \ {0} =>
      SubSeq(s, 1, Len(s) - 1) \in Seq(Char) /\ Len(SubSeq(s, 1, Len(s) - 1)) = Len(s) - 1
<1> TAKE s \in Seq(Char)
<1> HAVE Len(s) \in Nat \ {0}
<1>1. PICK n \in Nat : n = Len(s) - 1
  OBVIOUS
<1>2. n <= Len(s)
  BY <1>1
<1>3. SubSeq(s, 1, n) \in Seq(Char) /\ Len(SubSeq(s, 1, n)) = n
  BY <1>2
<1> QED BY <1>1, <1>3, Zenon

(* A line longer or shorter by one.                                        *)
LEMMA LengthMoves ==
  ASSUME NEW n \in Int
  PROVE  /\ n * PitchY \in Int
         /\ (n + 1) * PitchY = n * PitchY + PitchY /\ (n - 1) * PitchY = n * PitchY - PitchY
  BY Sizes, SMT

(* CursorMatchesLine in terms of the distance.                             *)
LEMMA CursorDistance ==
  CursorMatchesLine <=>
    (pc = "read" => Distance(cursor_x, cursor_y, origin.x, origin.y) = Len(buffer) * PitchY)
  BY Zenon DEF CursorMatchesLine, Distance

(* The same in the next state.                                             *)
LEMMA CursorDistanceNext ==
  CursorMatchesLine' <=>
    (pc' = "read" => Distance(cursor_x', cursor_y', origin'.x, origin'.y) = Len(buffer') * PitchY)
  BY Zenon DEF CursorMatchesLine, Distance

---------------------------------------------------------------------------
(* shell_putchar keeps the cursor and the framebuffer well typed, and      *)
(* moves the cursor by one cell.                                           *)
LEMMA PutcharMoves ==
  ASSUME Editing, NEW c \in Char, shell_putchar(c)
  PROVE  /\ cursor_x' \in Int /\ cursor_x' <= LastColumn /\ cursor_y' \in Nat
         /\ fb' \in [Pixel -> SUBSET Char]
         /\ \/ cursor_x' = cursor_x + 1 /\ cursor_y' = cursor_y
            \/ cursor_x = LastColumn /\ cursor_x' = 0 /\ cursor_y' = cursor_y + PitchY
<1>1. c # Newline
  BY CharAssumption
<1>2. Advance /\ fb' = [p \in Pixel |-> IF p \in Cell(cursor_x, cursor_y) THEN fb[p] \cup Ink(c) ELSE fb[p]]
  BY <1>1 DEF shell_putchar
<1>3. fb' \in [Pixel -> SUBSET Char]
  <2>1. Ink(c) \subseteq Char
    BY DEF Ink
  <2>2. \A p \in Pixel : fb[p] \in SUBSET Char
    BY DEF Editing
  <2> QED BY <1>2, <2>1, <2>2
<1>4. QED
  BY <1>2, <1>3, Sizes DEF Advance, NewLine, Editing

(* A newline starts the next line.                                         *)
LEMMA NewlineMoves ==
  ASSUME Editing, shell_putchar(Newline)
  PROVE  cursor_x' = 0 /\ cursor_y' = cursor_y + PitchY /\ cursor_y' \in Nat /\ fb' = fb
  BY Sizes DEF shell_putchar, NewLine, Editing

(* The invariant holds initially.                                          *)
LEMMA InitIInv == TermInit => IInv
<1> SUFFICES ASSUME TermInit PROVE IInv
  OBVIOUS
<1>1. fb \in [Pixel -> SUBSET Char]
  <2>1. \A p \in Pixel : StatusInk(p) \subseteq Char
    BY Zenon DEF StatusInk
  <2> QED BY <2>1 DEF TermInit
<1>2. todo \in Seq(Char \cup {Newline}) /\ buffer \in Seq(Char)
  BY CharAssumption DEF TermInit
<1>3. Editing
  BY <1>1, <1>2, Sizes DEF TermInit, Editing
<1>4. LineFits /\ CursorMatchesLine
  BY Sizes DEF TermInit, LineFits, CursorMatchesLine
<1> QED BY <1>3, <1>4 DEF IInv

(* Every step of the terminal preserves the invariant.                     *)
LEMMA NextIInv == IInv /\ [TermNext]_termVars => IInv'
<1> SUFFICES ASSUME IInv, [TermNext]_termVars PROVE IInv'
  OBVIOUS
<1> USE DEF IInv
<1>1. CASE PrintChar
  <2>1. PICK c \in Char \cup {Newline} : c = Head(todo) /\ shell_putchar(c)
    BY <1>1 DEF PrintChar, Editing
  <2>2. todo' \in Seq(Char \cup {Newline})
    BY <1>1 DEF PrintChar, Editing
  <2>3. cursor_x' \in Int /\ cursor_x' <= LastColumn /\ cursor_y' \in Nat /\ fb' \in [Pixel -> SUBSET Char]
    <3>1. CASE c = Newline
      BY <2>1, <3>1, NewlineMoves, Sizes DEF Editing
    <3>2. CASE c \in Char
      BY <2>1, <3>2, PutcharMoves
    <3> QED BY <3>1, <3>2
  <2> QED BY <1>1, <2>2, <2>3 DEF PrintChar, Editing, LineFits, CursorMatchesLine
<1>2. CASE PrintDone
  BY <1>2, Sizes DEF PrintDone, Editing, LineFits, CursorMatchesLine
<1>3. ASSUME NEW c \in Char, TypeChar(c) PROVE IInv'
  <2>1. /\ buffer' \in Seq(Char) /\ Len(buffer') = Len(buffer) + 1 /\ Len(buffer) \in Nat
        /\ Len(buffer) < MaxInput - 1
    BY <1>3 DEF TypeChar, HasRoom, Editing
  <2>2. /\ cursor_x' \in Int /\ cursor_x' <= LastColumn /\ cursor_y' \in Nat
        /\ fb' \in [Pixel -> SUBSET Char]
        /\ \/ cursor_x' = cursor_x + 1 /\ cursor_y' = cursor_y
           \/ cursor_x = LastColumn /\ cursor_x' = 0 /\ cursor_y' = cursor_y + PitchY
    BY <1>3, PutcharMoves DEF TypeChar
  <2>3. Editing'
    BY <1>3, <2>1, <2>2 DEF TypeChar, Editing
  <2>4. LineFits'
    BY <2>1, Sizes DEF LineFits
  <2>5. CursorMatchesLine'
    <3>1. Distance(cursor_x, cursor_y, origin.x, origin.y) = Len(buffer) * PitchY
      BY <1>3, CursorDistance DEF TypeChar
    <3>2. /\ cursor_x \in Int /\ cursor_y \in Int /\ origin.x \in Int /\ origin.y \in Int
          /\ PitchY \in Int /\ Len(buffer) \in Int
      BY <2>1, Sizes DEF Editing
    <3>3. Distance(cursor_x', cursor_y', origin.x, origin.y) = Distance(cursor_x, cursor_y, origin.x, origin.y) + PitchY
      BY <2>2, <3>2, DistanceMoves, Zenon
    <3>4. Len(buffer') * PitchY = Len(buffer) * PitchY + PitchY
      BY <2>1, <3>2, LengthMoves
    <3> QED BY <1>3, <3>1, <3>3, <3>4, CursorDistanceNext DEF TypeChar
  <2> QED BY <2>3, <2>4, <2>5
<1>4. CASE TypeIgnored \/ BackspaceEmpty \/ UNCHANGED termVars
  BY <1>4 DEF TypeIgnored, BackspaceEmpty, termVars, Editing, LineFits, CursorMatchesLine
<1>5. CASE Backspace
  <2>1. /\ buffer' \in Seq(Char) /\ Len(buffer') = Len(buffer) - 1 /\ Len(buffer) \in Nat
    <3>1. buffer \in Seq(Char) /\ buffer # <<>> /\ buffer' = SubSeq(buffer, 1, Len(buffer) - 1)
      BY <1>5 DEF Backspace, Editing
    <3>2. Len(buffer) \in Nat \ {0}
      BY <3>1, EmptySeq
    <3> QED BY <3>1, <3>2, ButLast
  <2>2. fb' \in [Pixel -> SUBSET Char]
    <3> DEFINE Hit(p) == p \in Cell(cursor_x - 1, cursor_y)
    <3>1. fb' = [p \in Pixel |-> IF Hit(p) THEN {} ELSE fb[p]]
      BY <1>5 DEF Backspace
    <3> HIDE DEF Hit
    <3> QED BY <3>1 DEF Editing
  <2>3. Editing'
    BY <1>5, <2>1, <2>2, Sizes DEF Backspace, Editing
  <2>4. LineFits'
    BY <2>1, Sizes DEF LineFits
  <2>5. CursorMatchesLine'
    <3>1. Distance(cursor_x, cursor_y, origin.x, origin.y) = Len(buffer) * PitchY
      BY <1>5, CursorDistance DEF Backspace
    <3>2. /\ cursor_x \in Int /\ cursor_y \in Int /\ origin.x \in Int /\ origin.y \in Int
          /\ PitchY \in Int /\ Len(buffer) \in Int
      BY <2>1, Sizes DEF Editing
    <3>3. Distance(cursor_x - 1, cursor_y, origin.x, origin.y) = Distance(cursor_x, cursor_y, origin.x, origin.y) - PitchY
      BY <3>2, DistanceMoves, Zenon
    <3>4. Len(buffer') * PitchY = Len(buffer) * PitchY - PitchY
      BY <2>1, <3>2, LengthMoves
    <3> QED BY <1>5, <3>1, <3>3, <3>4, CursorDistanceNext DEF Backspace
  <2> QED BY <2>3, <2>4, <2>5
<1>6. CASE EnterLine
  <2>1. cursor_x' = 0 /\ cursor_y' = cursor_y + PitchY /\ cursor_y' \in Nat /\ fb' = fb
    BY <1>6, NewlineMoves DEF EnterLine
  <2> QED BY <1>6, <2>1, Sizes DEF EnterLine, Editing, LineFits, CursorMatchesLine
<1>7. ASSUME NEW text \in Output \cup {<<>>}, RunCommand(text) PROVE IInv'
  <2>1. text \o Prompt \in Seq(Char \cup {Newline})
    <3>1. text \in Seq(Char \cup {Newline})
      BY CharAssumption, EmptySeq
    <3>2. Prompt \in Seq(Char \cup {Newline})
      BY CharAssumption
    <3> QED BY <3>1, <3>2, ConcatProperties
  <2> QED BY <1>7, <2>1 DEF RunCommand, Editing, LineFits, CursorMatchesLine
<1>8. CASE cmd_clear
  <2>1. Prompt \in Seq(Char \cup {Newline})
    BY CharAssumption
  <2>2. fb' \in [Pixel -> SUBSET Char]
    <3> DEFINE Hit(p) == p < ClearRows * Pps
    <3>1. fb' = [p \in Pixel |-> IF Hit(p) THEN {} ELSE fb[p]]
      BY <1>8 DEF cmd_clear
    <3> HIDE DEF Hit
    <3> QED BY <3>1 DEF Editing
  <2> QED BY <1>8, <2>1, <2>2, Sizes DEF cmd_clear, Editing, LineFits, CursorMatchesLine
<1> QED
  BY <1>1, <1>2, <1>3, <1>4, <1>5, <1>6, <1>7, <1>8 DEF TermNext, shell_readline

(* The line being typed and its terminator fit in the input buffer, and    *)
(* the cursor never passes the last column.                                *)
THEOREM TerminalType == TermSpec => []TermTypeOK
<1>1. IInv => TermTypeOK
  BY DEF IInv, Editing, LineFits, TermTypeOK
<1> QED BY <1>1, InitIInv, NextIInv, PTL DEF TermSpec

(* Typing and erasing keep the cursor as far from the line's beginning as  *)
(* the line is long, wraps counted, for every screen and line size.        *)
THEOREM CursorTracksLine == TermSpec => []CursorMatchesLine
<1>1. IInv => CursorMatchesLine
  BY DEF IInv
<1> QED BY <1>1, InitIInv, NextIInv, PTL DEF TermSpec

---------------------------------------------------------------------------
(* What is on the screen.  Where the cursor is: printing starts in column  *)
(* 0 and goes right; in a line that has wrapped w times the cursor is w    *)
(* screen widths left of where the line's length alone would put it.       *)
ColumnInv ==
  /\ origin.x \in Nat /\ origin.y \in Nat
  /\ pc # "read" => cursor_x \in Nat
  /\ pc = "read" =>
       \E w \in Nat : /\ cursor_y = origin.y + w * PitchY
                      /\ cursor_x = origin.x + Len(buffer) - w * (LastColumn + 1)

(* Nothing is inked below the cursor's line ...                            *)
BlankBelow == \A p \in Pixel : p >= (cursor_y + PitchY) * Pps => fb[p] = {}

(* ... nor, where output goes, to the right of the cursor.                 *)
BlankRight ==
  pc # "read" => \A x \in cursor_x .. LastColumn : \A p \in Cell(x, cursor_y) \cap Pixel : fb[p] = {}

ScreenInv == WideEnough /\ Height <= ClearRows => BlankBelow /\ BlankRight

DrawInv == IInv /\ ColumnInv /\ ScreenInv /\ ScreenShowsLine /\ DrawsInside

(* Multiplication by a natural number is monotonic.                        *)
LEMMA TimesMonotonic ==
  ASSUME NEW a \in Int, NEW b \in Int, NEW n \in Nat, a <= b
  PROVE  a * n \in Int /\ b * n \in Int /\ a * n <= b * n
<1>1. PICK d \in Nat : b = a + d
  <2>1. b - a \in Nat /\ b = a + (b - a)
    OBVIOUS
  <2> QED BY <2>1
<1>2. (a + d) * n = a * n + d * n /\ d * n >= 0 /\ a * n \in Int /\ d * n \in Int
  BY SMT
<1> QED BY <1>1, <1>2

(* The parts of the address of a pixel of a glyph.                         *)
LEMMA CellPixel ==
  ASSUME NEW x \in Int, NEW y \in Int, NEW p \in Cell(x, y)
  PROVE  \E row \in 0 .. Glyph - 1, col \in 0 .. Glyph - 1 :
           /\ p = (y + row) * Pps + (x * PitchX + col) /\ p \in Int
           /\ (y + row) * Pps \in Int /\ x * PitchX \in Int
<1>1. Pps \in Int /\ PitchX \in Int /\ Glyph \in Int
  BY GeometryAssumption
<1>2. PICK row \in 0 .. Glyph - 1, col \in 0 .. Glyph - 1 : p = (y + row) * Pps + x * PitchX + col
  BY DEF Cell
<1>3. (y + row) * Pps \in Int /\ x * PitchX \in Int
  BY <1>1
<1>4. p = (y + row) * Pps + (x * PitchX + col) /\ p \in Int
  BY <1>1, <1>2, <1>3
<1> QED BY <1>3, <1>4

(* On a screen that is wide enough, a glyph in a column ends before the    *)
(* end of the scanline ...                                                 *)
LEMMA ColumnFits ==
  ASSUME WideEnough, NEW x \in Int, x <= LastColumn, NEW col \in 0 .. Glyph - 1
  PROVE  x * PitchX + col \in Int /\ x * PitchX + col < Pps /\ (x >= 0 => x * PitchX + col >= 0)
<1>1. Pps \in Nat /\ PitchX \in Nat /\ Glyph \in Nat /\ LastColumn \in Nat /\ Glyph <= PitchX
  BY GeometryAssumption
<1>2. x * PitchX \in Int /\ LastColumn * PitchX \in Int /\ x * PitchX <= LastColumn * PitchX
  BY <1>1, TimesMonotonic
<1>3. (LastColumn + 1) * PitchX = LastColumn * PitchX + PitchX
  BY <1>1, SMT
<1>4. x >= 0 => x * PitchX >= 0
  BY <1>1, SMT
<1> QED BY <1>1, <1>2, <1>3, <1>4 DEF WideEnough

(* ... so the line below begins behind it.                                 *)
LEMMA CellAbove ==
  ASSUME WideEnough, NEW x \in Int, x <= LastColumn, NEW y \in Int, NEW p \in Cell(x, y)
  PROVE  p \in Int /\ p < (y + PitchY) * Pps /\ (y + PitchY) * Pps \in Int /\ p < (y + Glyph) * Pps
<1>1. Pps \in Nat /\ PitchY \in Nat /\ Glyph \in Nat /\ Glyph <= PitchY
  BY GeometryAssumption
<1>2. PICK row \in 0 .. Glyph - 1, col \in 0 .. Glyph - 1 :
        /\ p = (y + row) * Pps + (x * PitchX + col) /\ p \in Int
        /\ (y + row) * Pps \in Int /\ x * PitchX \in Int
  BY CellPixel
<1>3. x * PitchX + col \in Int /\ x * PitchX + col < Pps
  BY ColumnFits
<1>4. (y + row + 1) * Pps = (y + row) * Pps + Pps
  BY <1>1, SMT
<1>5. y + row + 1 \in Int /\ y + PitchY \in Int /\ y + row + 1 <= y + PitchY
      /\ y + Glyph \in Int /\ y + row + 1 <= y + Glyph
  BY <1>1
<1>6. (y + row + 1) * Pps <= (y + PitchY) * Pps /\ (y + PitchY) * Pps \in Int
  BY <1>1, <1>5, TimesMonotonic
<1>7. (y + row + 1) * Pps <= (y + Glyph) * Pps /\ (y + Glyph) * Pps \in Int
  BY <1>1, <1>5, TimesMonotonic
<1> DEFINE a == (y + row) * Pps  b == (y + PitchY) * Pps  c == x * PitchX + col  d == (y + Glyph) * Pps
<1>8. a \in Int /\ b \in Int /\ c \in Int /\ d \in Int /\ p = a + c /\ c < Pps /\ a + Pps <= b /\ a + Pps <= d
  BY <1>2, <1>3, <1>4, <1>6, <1>7
<1> HIDE DEF a, b, c, d
<1>9. p < b /\ p < d
  BY <1>1, <1>8
<1> QED BY <1>2, <1>8, <1>9 DEF b, d

(* A glyph lies at or behind the beginning of its scanline, if its column  *)
(* is not negative.                                                        *)
LEMMA CellBehind ==
  ASSUME NEW x \in Nat, NEW y \in Int, NEW p \in Cell(x, y)
  PROVE  p \in Int /\ y * Pps \in Int /\ y * Pps <= p
<1>1. Pps \in Nat /\ PitchX \in Nat /\ Glyph \in Nat
  BY GeometryAssumption
<1>2. PICK row \in 0 .. Glyph - 1, col \in 0 .. Glyph - 1 :
        /\ p = (y + row) * Pps + (x * PitchX + col) /\ p \in Int
        /\ (y + row) * Pps \in Int /\ x * PitchX \in Int
  BY CellPixel
<1>3. y * Pps <= (y + row) * Pps /\ y * Pps \in Int
  BY <1>1, TimesMonotonic
<1>4. x * PitchX >= 0
  BY <1>1, SMT
<1> QED BY <1>1, <1>2, <1>3, <1>4

(* A number has one quotient and one remainder.                            *)
LEMMA OneRemainder ==
  ASSUME NEW a \in Int, NEW b \in Int, NEW n \in Nat, NEW c \in 0 .. n - 1, NEW d \in 0 .. n - 1,
         a * n + c = b * n + d
  PROVE  c = d
<1>1. a * n \in Int /\ b * n \in Int
  BY SMT
<1>2. ASSUME NEW e \in Int, NEW f \in Int, e < f PROVE e * n + n <= f * n /\ e * n \in Int /\ f * n \in Int
  <2>1. e + 1 <= f /\ e + 1 \in Int
    BY <1>2
  <2>2. (e + 1) * n <= f * n /\ f * n \in Int
    BY <2>1, TimesMonotonic
  <2>3. (e + 1) * n = e * n + n /\ e * n \in Int
    BY SMT
  <2> QED BY <2>2, <2>3
<1>3. ~(a < b)
  <2> SUFFICES ASSUME a < b PROVE FALSE
    OBVIOUS
  <2>1. a * n + n <= b * n
    BY <1>2
  <2> QED BY <1>1, <2>1
<1>4. ~(b < a)
  <2> SUFFICES ASSUME b < a PROVE FALSE
    OBVIOUS
  <2>1. b * n + n <= a * n
    BY <1>2
  <2> QED BY <1>1, <2>1
<1>5. a = b
  BY <1>3, <1>4
<1> QED BY <1>1, <1>5

(* Two columns of a line share no pixel.                                   *)
LEMMA CellsApart ==
  ASSUME WideEnough, NEW x \in 0 .. LastColumn, NEW z \in 0 .. LastColumn, x # z, NEW y \in Int
  PROVE  Cell(x, y) \cap Cell(z, y) = {}
<1> SUFFICES ASSUME NEW p \in Cell(x, y), p \in Cell(z, y) PROVE FALSE
  OBVIOUS
<1>1. Pps \in Nat /\ PitchX \in Nat /\ Glyph \in Nat /\ LastColumn \in Nat /\ Glyph <= PitchX
  BY GeometryAssumption
<1>2. x \in Int /\ z \in Int /\ x <= LastColumn /\ z <= LastColumn /\ x >= 0 /\ z >= 0
  BY <1>1
<1>3. PICK row \in 0 .. Glyph - 1, col \in 0 .. Glyph - 1 : p = (y + row) * Pps + (x * PitchX + col)
  BY <1>2, CellPixel
<1>4. PICK rowz \in 0 .. Glyph - 1, colz \in 0 .. Glyph - 1 : p = (y + rowz) * Pps + (z * PitchX + colz)
  BY <1>2, CellPixel
<1>5. /\ x * PitchX + col \in Int /\ x * PitchX + col < Pps /\ x * PitchX + col >= 0
      /\ z * PitchX + colz \in Int /\ z * PitchX + colz < Pps /\ z * PitchX + colz >= 0
  BY <1>2, ColumnFits
<1>6. x * PitchX + col = z * PitchX + colz
  <2>1. PICK c \in 0 .. Pps - 1, d \in 0 .. Pps - 1 : c = x * PitchX + col /\ d = z * PitchX + colz
    BY <1>1, <1>5
  <2>2. PICK r \in Int, t \in Int : r = y + row /\ t = y + rowz
    BY <1>1
  <2>3. r * Pps + c = t * Pps + d
    BY <1>3, <1>4, <2>1, <2>2
  <2>4. c = d
    BY <1>1, <2>3, OneRemainder
  <2> QED BY <2>1, <2>4
<1>7. col \in 0 .. PitchX - 1 /\ colz \in 0 .. PitchX - 1
  BY <1>1
<1>8. x * PitchX = z * PitchX
  <2>1. col = colz
    BY <1>1, <1>2, <1>6, <1>7, OneRemainder
  <2>2. PICK u \in Int, v \in Int : u = x * PitchX /\ v = z * PitchX
    BY <1>1, <1>2
  <2>3. u + col = v + col
    BY <1>6, <2>1, <2>2
  <2> QED BY <1>7, <2>2, <2>3
<1>9. PitchX \in Nat \ {0}
  BY GeometryAssumption
<1> QED BY <1>2, <1>8, <1>9, SMT

(* A line that wrapped w times is at least w scanlines down, and a column  *)
(* is at most w screen widths to the left: no glyph begins before the      *)
(* framebuffer.                                                            *)
LEMMA NotBefore ==
  ASSUME WideEnough, NEW ox \in Nat, NEW oy \in Nat, NEW w \in Nat, NEW n \in Nat
  PROVE  (oy + w * PitchY) * Pps + (ox + n - w * (LastColumn + 1)) * PitchX >= 0
<1> DEFINE W == (LastColumn + 1) * PitchX
<1>1. /\ Pps \in Nat /\ PitchX \in Nat /\ PitchY \in Nat /\ PitchY >= 1 /\ LastColumn \in Nat
      /\ W \in Nat /\ W <= Pps
  BY GeometryAssumption DEF WideEnough
<1>2. w * PitchY \in Nat /\ w <= w * PitchY
  <2>1. 1 * w <= PitchY * w
    BY <1>1, TimesMonotonic
  <2> QED BY <1>1, <2>1, SMT
<1>3. w <= oy + w * PitchY /\ oy + w * PitchY \in Int
  BY <1>2
<1>4. w * Pps <= (oy + w * PitchY) * Pps /\ w * Pps \in Int /\ (oy + w * PitchY) * Pps \in Int
  BY <1>1, <1>3, TimesMonotonic
<1>5. W * w <= Pps * w
  BY <1>1, TimesMonotonic
<1>6. (ox + n - w * (LastColumn + 1)) * PitchX = (ox + n) * PitchX - w * W
  <2>1. PICK L \in Nat, q \in Nat, m \in Nat : L = LastColumn + 1 /\ q = PitchX /\ m = ox + n
    BY <1>1
  <2>2. (m - w * L) * q = m * q - w * (L * q)
    BY SMT
  <2> QED BY <2>1, <2>2
<1>7. (ox + n) * PitchX >= 0 /\ (ox + n) * PitchX \in Int
  BY <1>1, SMT
<1>8. w * W = W * w /\ w * Pps = Pps * w /\ w * W \in Int
  BY <1>1, SMT
<1> HIDE DEF W
<1> QED BY <1>4, <1>5, <1>6, <1>7, <1>8

(* A glyph that does not begin before the framebuffer, in a line that is   *)
(* on the screen, is inside.                                               *)
LEMMA CellInside ==
  ASSUME WideEnough, NEW x \in Int, x <= LastColumn, NEW y \in Int, y + Glyph <= Height,
         y * Pps + x * PitchX >= 0
  PROVE  Cell(x, y) \subseteq Pixel
<1> SUFFICES ASSUME NEW p \in Cell(x, y) PROVE p \in Pixel
  OBVIOUS
<1>1. Pps \in Nat /\ PitchX \in Nat /\ Glyph \in Nat /\ Height \in Nat
  BY GeometryAssumption
<1>2. PICK row \in 0 .. Glyph - 1, col \in 0 .. Glyph - 1 :
        /\ p = (y + row) * Pps + (x * PitchX + col) /\ p \in Int
        /\ (y + row) * Pps \in Int /\ x * PitchX \in Int
  BY CellPixel
<1>3. y * Pps <= (y + row) * Pps /\ y * Pps \in Int
  BY <1>1, TimesMonotonic
<1>4. p >= 0
  BY <1>1, <1>2, <1>3
<1>5. p < (y + Glyph) * Pps
  BY CellAbove
<1>6. (y + Glyph) * Pps <= Height * Pps /\ (y + Glyph) * Pps \in Int /\ Height * Pps \in Int
  BY <1>1, TimesMonotonic
<1> QED BY <1>2, <1>4, <1>5, <1>6 DEF Pixel

(* Drawing a character leaves the lines below blank.                       *)
LEMMA DrawBelow ==
  ASSUME Editing, WideEnough, BlankBelow, NEW c \in Char, shell_putchar(c)
  PROVE  BlankBelow'
<1>1. /\ \A p \in Pixel : fb'[p] = IF p \in Cell(cursor_x, cursor_y) THEN fb[p] \cup Ink(c) ELSE fb[p]
      /\ cursor_y' \in {cursor_y, cursor_y + PitchY}
  BY CharAssumption DEF shell_putchar, Advance, NewLine
<1>2. PICK x \in Int, y \in Int : x = cursor_x /\ y = cursor_y /\ x <= LastColumn
  BY DEF Editing
<1> SUFFICES ASSUME NEW p \in Pixel, p >= (cursor_y' + PitchY) * Pps PROVE fb'[p] = {}
  BY DEF BlankBelow
<1>3. Pps \in Nat /\ PitchY \in Nat /\ y + PitchY \in Int /\ y + PitchY + PitchY \in Int /\ y + PitchY <= y + PitchY + PitchY
  BY GeometryAssumption
<1>4. (y + PitchY) * Pps <= (y + PitchY + PitchY) * Pps /\ (y + PitchY) * Pps \in Int /\ (y + PitchY + PitchY) * Pps \in Int
  BY <1>3, TimesMonotonic
<1>5. p \in Int
  BY DEF Pixel
<1>6. p >= (y + PitchY) * Pps
  <2>1. CASE cursor_y' = cursor_y
    BY <1>2, <2>1
  <2>2. CASE cursor_y' = cursor_y + PitchY
    BY <1>2, <1>4, <1>5, <2>2
  <2> QED BY <1>1, <2>1, <2>2
<1>7. p \notin Cell(x, y)
  BY <1>2, <1>4, <1>5, <1>6, CellAbove
<1>8. fb[p] = {}
  BY <1>2, <1>6 DEF BlankBelow
<1> QED BY <1>1, <1>2, <1>7, <1>8

(* The line below the cursor's is blank, and so are the lines below it.    *)
LEMMA NextLineBlank ==
  ASSUME Editing, WideEnough, BlankBelow, cursor_y' = cursor_y + PitchY
  PROVE  /\ fb' = fb => BlankBelow'
         /\ \A x \in Nat : \A p \in Cell(x, cursor_y') \cap Pixel : fb[p] = {}
<1>1. PICK y \in Int : y = cursor_y
  BY DEF Editing
<1>2. Pps \in Nat /\ PitchY \in Nat /\ y + PitchY \in Int /\ y + PitchY + PitchY \in Int /\ y + PitchY <= y + PitchY + PitchY
  BY GeometryAssumption
<1>3. (y + PitchY) * Pps <= (y + PitchY + PitchY) * Pps /\ (y + PitchY) * Pps \in Int /\ (y + PitchY + PitchY) * Pps \in Int
  BY <1>2, TimesMonotonic
<1>4. \A p \in Pixel : p \in Int
  BY DEF Pixel
<1>5. ASSUME fb' = fb PROVE BlankBelow'
  <2> SUFFICES ASSUME NEW p \in Pixel, p >= (cursor_y' + PitchY) * Pps PROVE fb'[p] = {}
    BY DEF BlankBelow
  <2>1. p >= (y + PitchY) * Pps
    BY <1>1, <1>3, <1>4
  <2> QED BY <1>1, <1>5, <2>1 DEF BlankBelow
<1>6. ASSUME NEW x \in Nat, NEW p \in Cell(x, cursor_y') \cap Pixel PROVE fb[p] = {}
  <2>1. p \in Cell(x, y + PitchY) /\ p \in Pixel
    BY <1>1
  <2>2. (y + PitchY) * Pps <= p
    BY <1>2, <2>1, CellBehind
  <2> QED BY <1>1, <1>3, <1>4, <2>1, <2>2 DEF BlankBelow
<1> QED BY <1>5, <1>6

(* Drawing a character leaves the rest of the line blank, the new line     *)
(* after a wrap included.                                                  *)
LEMMA DrawRight ==
  ASSUME Editing, WideEnough, BlankBelow, cursor_x \in Nat, NEW c \in Char, shell_putchar(c),
         \A x \in cursor_x .. LastColumn : \A p \in Cell(x, cursor_y) \cap Pixel : fb[p] = {}
  PROVE  \A x \in cursor_x' .. LastColumn : \A p \in Cell(x, cursor_y') \cap Pixel : fb'[p] = {}
<1>1. /\ \A p \in Pixel : fb'[p] = IF p \in Cell(cursor_x, cursor_y) THEN fb[p] \cup Ink(c) ELSE fb[p]
      /\ \/ cursor_x' = cursor_x + 1 /\ cursor_y' = cursor_y
         \/ cursor_x' = 0 /\ cursor_y' = cursor_y + PitchY
  BY CharAssumption DEF shell_putchar, Advance, NewLine
<1>2. PICK u \in 0 .. LastColumn, y \in Int : u = cursor_x /\ y = cursor_y
  BY Sizes DEF Editing
<1>3. LastColumn \in Nat
  BY Sizes
<1>4. CASE cursor_x' = cursor_x + 1 /\ cursor_y' = cursor_y
  <2> SUFFICES ASSUME NEW x \in u + 1 .. LastColumn, NEW p \in Cell(x, y) \cap Pixel PROVE fb'[p] = {}
    BY <1>2, <1>4
  <2>1. x \in 0 .. LastColumn /\ x # u /\ x \in u .. LastColumn
    BY <1>3
  <2>2. p \notin Cell(u, y)
    BY <2>1, CellsApart
  <2>3. fb[p] = {}
    BY <1>2, <2>1
  <2> QED BY <1>1, <1>2, <2>2, <2>3
<1>5. CASE cursor_x' = 0 /\ cursor_y' = cursor_y + PitchY
  <2> SUFFICES ASSUME NEW x \in 0 .. LastColumn, NEW p \in Cell(x, y + PitchY) \cap Pixel PROVE fb'[p] = {}
    BY <1>2, <1>5
  <2>1. x \in Nat /\ y + PitchY \in Int /\ Pps \in Int
    BY <1>3, GeometryAssumption
  <2>2. fb[p] = {}
    BY <1>2, <1>5, <2>1, NextLineBlank
  <2>3. p >= (y + PitchY) * Pps /\ p \in Int /\ (y + PitchY) * Pps \in Int
    BY <2>1, CellBehind
  <2>4. u \in Int /\ u <= LastColumn
    BY <1>3
  <2>5. p \notin Cell(u, y)
    BY <2>3, <2>4, CellAbove
  <2> QED BY <1>1, <1>2, <2>2, <2>5
<1> QED BY <1>1, <1>4, <1>5

---------------------------------------------------------------------------
(* A glyph drawn or blanked while a line is edited is inside.              *)
LEMMA EditInside ==
  ASSUME Editing, ColumnInv, pc = "read", WideEnough, cursor_y + Glyph <= Height,
         NEW d \in {0, 1}, d <= Len(buffer)
  PROVE  Cell(cursor_x - d, cursor_y) \subseteq Pixel
<1>1. PICK w \in Nat : cursor_y = origin.y + w * PitchY /\ cursor_x = origin.x + Len(buffer) - w * (LastColumn + 1)
  BY DEF ColumnInv
<1>2. PICK ox \in Nat, oy \in Nat, n \in Nat, m \in Nat :
        ox = origin.x /\ oy = origin.y /\ n = Len(buffer) - d /\ m = Len(buffer)
  <2>1. Len(buffer) \in Nat
    BY DEF Editing
  <2>2. Len(buffer) - d \in Nat
    BY <2>1
  <2>3. origin.x \in Nat /\ origin.y \in Nat
    BY DEF ColumnInv
  <2> QED BY <2>1, <2>2, <2>3
<1>3. PICK x \in Int, y \in Int : x = cursor_x - d /\ y = cursor_y /\ x <= LastColumn
  BY Sizes DEF Editing
<1>4. (oy + w * PitchY) * Pps + (ox + n - w * (LastColumn + 1)) * PitchX >= 0
  BY NotBefore
<1>5. x = ox + n - w * (LastColumn + 1)
  <2>1. PICK v \in Int : v = w * (LastColumn + 1)
    BY Sizes
  <2>2. x = (ox + m - v) - d /\ n = m - d
    BY <1>1, <1>2, <1>3, <2>1
  <2> QED BY <2>1, <2>2
<1>6. y * Pps + x * PitchX >= 0
  BY <1>1, <1>2, <1>3, <1>4, <1>5
<1>7. Cell(x, y) \subseteq Pixel
  BY <1>3, <1>6, CellInside
<1> QED BY <1>3, <1>7

(* Typing moves the cursor along the line.                                 *)
LEMMA TypeColumn ==
  ASSUME Editing, ColumnInv, NEW c \in Char, TypeChar(c)
  PROVE  ColumnInv'
<1>1. /\ Len(buffer') = Len(buffer) + 1 /\ Len(buffer) \in Nat /\ pc = "read" /\ pc' = "read" /\ origin' = origin
      /\ \/ cursor_x' = cursor_x + 1 /\ cursor_y' = cursor_y
         \/ cursor_x = LastColumn /\ cursor_x' = 0 /\ cursor_y' = cursor_y + PitchY
  BY PutcharMoves DEF TypeChar, Editing
<1>2. PICK w \in Nat : cursor_y = origin.y + w * PitchY /\ cursor_x = origin.x + Len(buffer) - w * (LastColumn + 1)
  BY <1>1 DEF ColumnInv
<1>3. PICK ox \in Nat, oy \in Nat, n \in Nat, L \in Nat, P \in Nat :
        ox = origin.x /\ oy = origin.y /\ n = Len(buffer) /\ L = LastColumn /\ P = PitchY
  BY <1>1, Sizes DEF ColumnInv
<1>4. w * (L + 1) \in Int /\ w * P \in Int /\ (w + 1) * (L + 1) = w * (L + 1) + (L + 1) /\ (w + 1) * P = w * P + P
  BY SMT
<1>5. CASE cursor_x' = cursor_x + 1 /\ cursor_y' = cursor_y
  <2>1. cursor_x = ox + n - w * (L + 1)
    BY <1>2, <1>3
  <2>2. (ox + n - w * (L + 1)) + 1 = ox + (n + 1) - w * (L + 1)
    BY <1>4
  <2>3. cursor_x' = origin'.x + Len(buffer') - w * (LastColumn + 1) /\ cursor_y' = origin'.y + w * PitchY
    BY <1>1, <1>2, <1>3, <1>5, <2>1, <2>2
  <2> QED BY <1>1, <2>3 DEF ColumnInv
<1>6. CASE cursor_x = LastColumn /\ cursor_x' = 0 /\ cursor_y' = cursor_y + PitchY
  <2>1. L = ox + n - w * (L + 1)
    BY <1>2, <1>3, <1>6
  <2>2. 0 = ox + (n + 1) - (w + 1) * (L + 1)
    BY <1>4, <2>1
  <2>3. cursor_y = oy + w * P
    BY <1>2, <1>3
  <2>4. (oy + w * P) + P = oy + (w + 1) * P
    BY <1>4
  <2>5. cursor_x' = origin'.x + Len(buffer') - (w + 1) * (LastColumn + 1) /\ cursor_y' = origin'.y + (w + 1) * PitchY
    BY <1>1, <1>3, <1>6, <2>2, <2>3, <2>4
  <2> QED BY <1>1, <2>5 DEF ColumnInv
<1> QED BY <1>1, <1>5, <1>6

(* A line that is still where it began has not wrapped.                    *)
LEMMA NotWrapped ==
  ASSUME Editing, ColumnInv, pc = "read", cursor_y = origin.y
  PROVE  /\ cursor_x = origin.x + Len(buffer) /\ Len(buffer) \in Nat
         /\ origin.x + Len(buffer) \in 0 .. LastColumn
<1>1. PICK w \in Nat : cursor_y = origin.y + w * PitchY /\ cursor_x = origin.x + Len(buffer) - w * (LastColumn + 1)
  BY DEF ColumnInv
<1>2. PICK ox \in Nat, oy \in Nat, n \in Nat : ox = origin.x /\ oy = origin.y /\ n = Len(buffer)
  BY DEF ColumnInv, Editing
<1>3. PitchY \in Nat \ {0} /\ LastColumn \in Nat
  BY GeometryAssumption
<1>4. w * PitchY = 0
  <2>1. w * PitchY \in Int /\ oy = oy + w * PitchY
    BY <1>1, <1>2, <1>3
  <2> QED BY <2>1
<1>5. w = 0
  BY <1>3, <1>4, SMT
<1>6. w * (LastColumn + 1) = 0
  BY <1>3, <1>5
<1>7. cursor_x = ox + n
  BY <1>1, <1>2, <1>6
<1>8. ox + n <= LastColumn
  BY <1>7 DEF Editing
<1> QED BY <1>2, <1>3, <1>7, <1>8

(* Typing a character shows it behind the line as it was.                  *)
LEMMA TypeShows ==
  ASSUME Editing, ColumnInv, ScreenShowsLine, NEW c \in Char, TypeChar(c)
  PROVE  ScreenShowsLine'
<1> SUFFICES ASSUME WideEnough, Height <= ClearRows, cursor_y' = origin'.y,
                    NEW k \in 0 .. LastColumn - origin'.x, NEW p \in Cell(origin'.x + k, origin'.y) \cap Pixel
             PROVE  fb'[p] = IF k < Len(buffer') THEN Ink(buffer'[k + 1]) ELSE {}
  BY DEF ScreenShowsLine
<1>1. /\ pc = "read" /\ pc' = "read" /\ origin' = origin
      /\ buffer \in Seq(Char) /\ buffer' = Append(buffer, c)
      /\ fb' = [q \in Pixel |-> IF q \in Cell(cursor_x, cursor_y) THEN fb[q] \cup Ink(c) ELSE fb[q]]
  BY CharAssumption DEF TypeChar, shell_putchar, Editing
<1>2. cursor_y = origin.y
  <2>1. \/ cursor_y' = cursor_y
        \/ cursor_y' = cursor_y + PitchY
    BY PutcharMoves DEF TypeChar
  <2>2. PICK w \in Nat : cursor_y = origin.y + w * PitchY
    BY <1>1 DEF ColumnInv
  <2>3. PICK oy \in Nat, t \in Nat : oy = origin.y /\ t = w * PitchY
    <3>1. origin.y \in Nat
      BY DEF ColumnInv
    <3>2. w * PitchY \in Nat
      BY GeometryAssumption, SMT
    <3> QED BY <3>1, <3>2
  <2>4. PitchY \in Nat \ {0}
    BY GeometryAssumption
  <2>5. ~(oy + t + PitchY = oy)
    BY <2>4
  <2> QED BY <1>1, <2>1, <2>2, <2>3, <2>5
<1>3. PICK ox \in Nat, n \in Nat, y \in Int : ox = origin.x /\ n = Len(buffer) /\ y = origin.y /\ cursor_x = ox + n /\ ox + n \in 0 .. LastColumn
  BY <1>1, <1>2, NotWrapped DEF ColumnInv
<1>4. ox + k \in 0 .. LastColumn /\ k \in Nat /\ p \in Cell(ox + k, y) /\ p \in Pixel
  BY <1>1, <1>3, Sizes, SMTT(30)
<1>5. fb[p] = IF k < n THEN Ink(buffer[k + 1]) ELSE {}
  BY <1>1, <1>2, <1>3 DEF ScreenShowsLine
<1>6. /\ Len(buffer') = n + 1 /\ buffer'[n + 1] = c
      /\ \A m \in 1 .. n : buffer'[m] = buffer[m]
  BY <1>1, <1>3
<1>7. fb'[p] = IF p \in Cell(ox + n, y) THEN fb[p] \cup Ink(c) ELSE fb[p]
  BY <1>1, <1>2, <1>3, <1>4
<1>8. CASE k = n
  <2>1. fb'[p] = {} \cup Ink(c)
    BY <1>4, <1>5, <1>7, <1>8
  <2>2. k < n + 1 /\ buffer'[k + 1] = c
    BY <1>6, <1>8
  <2> QED BY <1>6, <2>1, <2>2
<1>9. CASE k # n
  <2>1. p \notin Cell(ox + n, y)
    <3>1. ox + k # ox + n
      BY <1>4, <1>9
    <3> QED BY <1>3, <1>4, <3>1, CellsApart
  <2>2. fb'[p] = IF k < n THEN Ink(buffer[k + 1]) ELSE {}
    BY <1>5, <1>7, <2>1
  <2>3. (k < n <=> k < n + 1) /\ (k < n => k + 1 \in 1 .. n)
    BY <1>4, <1>9
  <2> QED BY <1>6, <2>2, <2>3
<1> QED BY <1>8, <1>9

(* A backspace blanks the last character and leaves the rest of the line.  *)
LEMMA BackspaceShows ==
  ASSUME Editing, ColumnInv, ScreenShowsLine, Backspace
  PROVE  ScreenShowsLine'
<1> SUFFICES ASSUME WideEnough, Height <= ClearRows, cursor_y' = origin'.y,
                    NEW k \in 0 .. LastColumn - origin'.x, NEW p \in Cell(origin'.x + k, origin'.y) \cap Pixel
             PROVE  fb'[p] = IF k < Len(buffer') THEN Ink(buffer'[k + 1]) ELSE {}
  BY DEF ScreenShowsLine
<1>1. /\ pc = "read" /\ origin' = origin /\ cursor_y = origin.y
      /\ buffer \in Seq(Char) /\ buffer # <<>> /\ buffer' = SubSeq(buffer, 1, Len(buffer) - 1)
      /\ fb' = [q \in Pixel |-> IF q \in Cell(cursor_x - 1, cursor_y) THEN {} ELSE fb[q]]
  BY DEF Backspace, Editing
<1>2. PICK ox \in Nat, m \in Nat, y \in Int : ox = origin.x /\ m = Len(buffer) /\ y = origin.y /\ cursor_x = ox + m /\ ox + m \in 0 .. LastColumn
  BY <1>1, NotWrapped DEF ColumnInv
<1>3. PICK n \in Nat : m = n + 1
  <2>1. m # 0
    BY <1>1, <1>2, EmptySeq
  <2>2. m - 1 \in Nat /\ m = (m - 1) + 1
    BY <2>1
  <2> QED BY <2>2
<1>4. ox + k \in 0 .. LastColumn /\ ox + n \in 0 .. LastColumn /\ k \in Nat /\ p \in Cell(ox + k, y) /\ p \in Pixel
  <2>1. k \in 0 .. LastColumn - ox /\ p \in Cell(ox + k, y) /\ p \in Pixel
    BY <1>1, <1>2
  <2> QED BY <1>2, <1>3, <2>1, Sizes
<1>5. fb[p] = IF k < n + 1 THEN Ink(buffer[k + 1]) ELSE {}
  BY <1>1, <1>2, <1>3 DEF ScreenShowsLine
<1>6. /\ Len(buffer') = n /\ \A j \in 1 .. n : buffer'[j] = buffer[j]
  <2>1. buffer' = SubSeq(buffer, 1, n) /\ n <= Len(buffer)
    BY <1>1, <1>2, <1>3
  <2> QED BY <1>1, <2>1
<1>7. fb'[p] = IF p \in Cell(ox + n, y) THEN {} ELSE fb[p]
  <2>1. cursor_x - 1 = ox + n
    BY <1>2, <1>3
  <2> QED BY <1>1, <1>2, <1>4, <2>1
<1>8. CASE k = n
  <2>1. fb'[p] = {}
    BY <1>4, <1>7, <1>8
  <2> QED BY <1>6, <1>8, <2>1
<1>9. CASE k # n
  <2>1. p \notin Cell(ox + n, y)
    <3>1. ox + k # ox + n
      BY <1>4, <1>9
    <3> QED BY <1>4, <3>1, CellsApart
  <2>2. fb'[p] = IF k < n + 1 THEN Ink(buffer[k + 1]) ELSE {}
    BY <1>5, <1>7, <2>1
  <2>3. (k < n <=> k < n + 1) /\ (k < n => k + 1 \in 1 .. n)
    BY <1>4, <1>9
  <2> QED BY <1>6, <2>2, <2>3
<1> QED BY <1>8, <1>9

(* The screen is blank where the shell starts: the status lines end above. *)
LEMMA InitBlank ==
  ASSUME TermInit, WideEnough
  PROVE  \A p \in Pixel : p >= StartY * Pps => fb[p] = {}
<1> SUFFICES ASSUME NEW p \in Pixel, p >= StartY * Pps PROVE StatusInk(p) = {}
  BY DEF TermInit
<1> SUFFICES ASSUME NEW l \in DOMAIN Status, NEW k \in DOMAIN Status[l], p \in Cell(k - 1, (l - 1) * PitchY)
             PROVE  FALSE
  BY DEF StatusInk
<1>1. Pps \in Nat /\ PitchY \in Nat /\ LastColumn \in Nat /\ StartY \in Nat
  BY GeometryAssumption
<1>2. l \in Nat /\ l <= Len(Status) /\ Len(Status) \in Nat /\ Status[l] \in Seq(Char)
  BY CharAssumption
<1>3. k \in Nat /\ k <= LastColumn + 1
  BY <1>1, <1>2, StatusAssumption
<1>4. (l - 1) * PitchY \in Int /\ (l - 1) * PitchY + PitchY = l * PitchY /\ l * PitchY \in Int
  BY <1>1, <1>2, SMT
<1>5. l * PitchY <= Len(Status) * PitchY /\ Len(Status) * PitchY \in Int
  BY <1>1, <1>2, TimesMonotonic
<1>6. l * PitchY <= StartY
  BY <1>1, <1>4, <1>5, StatusAssumption
<1>7. (l * PitchY) * Pps <= StartY * Pps /\ (l * PitchY) * Pps \in Int /\ StartY * Pps \in Int
  BY <1>1, <1>4, <1>6, TimesMonotonic
<1>8. p < ((l - 1) * PitchY + PitchY) * Pps /\ p \in Int
  <2>1. PICK x \in Int, y \in Int : x = k - 1 /\ y = (l - 1) * PitchY /\ x <= LastColumn
    BY <1>1, <1>3, <1>4
  <2> QED BY <2>1, CellAbove
<1> QED BY <1>4, <1>7, <1>8

(* The invariant holds initially.                                          *)
LEMMA InitDrawInv == TermInit => DrawInv
<1> SUFFICES ASSUME TermInit PROVE DrawInv
  OBVIOUS
<1>1. IInv
  BY InitIInv
<1>2. ColumnInv /\ ScreenShowsLine /\ DrawsInside
  BY Sizes DEF TermInit, ColumnInv, ScreenShowsLine, DrawsInside
<1>3. ASSUME WideEnough PROVE BlankBelow /\ BlankRight
  <2>1. Pps \in Nat /\ PitchY \in Nat /\ StartY \in Nat
    BY GeometryAssumption
  <2>2. StartY * Pps <= (StartY + PitchY) * Pps /\ StartY * Pps \in Int /\ (StartY + PitchY) * Pps \in Int
    BY <2>1, TimesMonotonic
  <2>3. \A p \in Pixel : p \in Int
    BY DEF Pixel
  <2>4. \A p \in Pixel : p >= StartY * Pps => fb[p] = {}
    BY <1>3, InitBlank
  <2>5. cursor_x = 0 /\ cursor_y = StartY
    BY DEF TermInit
  <2>6. BlankBelow
    BY <2>2, <2>3, <2>4, <2>5 DEF BlankBelow
  <2>7. ASSUME NEW x \in 0 .. LastColumn, NEW p \in Cell(x, StartY) \cap Pixel PROVE fb[p] = {}
    <3>1. x \in Nat /\ StartY \in Int
      BY Sizes
    <3>2. StartY * Pps <= p
      BY <3>1, CellBehind
    <3> QED BY <2>2, <2>3, <2>4, <3>2
  <2> QED BY <2>5, <2>6, <2>7 DEF BlankRight
<1> QED BY <1>1, <1>2, <1>3 DEF DrawInv, ScreenInv

(* Every step of the terminal preserves the invariant.                     *)
LEMMA NextDrawInv == DrawInv /\ [TermNext]_termVars => DrawInv'
<1> SUFFICES ASSUME DrawInv, [TermNext]_termVars PROVE DrawInv'
  OBVIOUS
<1>0. IInv' /\ Editing /\ ColumnInv /\ ScreenInv /\ ScreenShowsLine /\ DrawsInside
  BY NextIInv DEF DrawInv, IInv
<1> DEFINE Good == ColumnInv' /\ ScreenInv' /\ ScreenShowsLine' /\ DrawsInside'
<1> SUFFICES Good
  BY <1>0 DEF DrawInv
<1>1. CASE PrintChar
  <2>1. PICK c \in Char \cup {Newline} : shell_putchar(c)
    BY <1>0, <1>1 DEF PrintChar, Editing
  <2>2. pc = "print" /\ pc' = "print" /\ origin' = origin /\ cursor_x \in Nat
    BY <1>0, <1>1 DEF PrintChar, ColumnInv
  <2>3. ScreenShowsLine'
    BY <2>2 DEF ScreenShowsLine
  <2>4. CASE c = Newline
    <3>1. cursor_x' = 0 /\ cursor_y' = cursor_y + PitchY /\ fb' = fb /\ wrote' = {}
      BY <2>1, <2>4 DEF shell_putchar, NewLine
    <3>2. ColumnInv' /\ DrawsInside'
      BY <1>0, <2>2, <3>1 DEF ColumnInv, DrawsInside
    <3>3. ASSUME WideEnough, BlankBelow PROVE BlankBelow' /\ BlankRight'
      <4>1. BlankBelow' /\ \A x \in Nat : \A p \in Cell(x, cursor_y') \cap Pixel : fb[p] = {}
        BY <1>0, <3>1, <3>3, NextLineBlank
      <4>2. \A x \in 0 .. LastColumn : x \in Nat
        BY Sizes
      <4> QED BY <3>1, <4>1, <4>2 DEF BlankRight
    <3> QED BY <1>0, <2>3, <3>2, <3>3 DEF ScreenInv
  <2>5. CASE c \in Char
    <3>1. /\ cursor_x' \in Nat /\ cursor_y \in Nat /\ cursor_x <= LastColumn
          /\ cursor_y' \in {cursor_y, cursor_y + PitchY}
          /\ wrote' \subseteq Cell(cursor_x, cursor_y)
      BY <1>0, <2>1, <2>2, <2>5, CharAssumption DEF shell_putchar, Advance, NewLine, Editing
    <3>2. ColumnInv'
      BY <1>0, <2>2, <3>1 DEF ColumnInv
    <3>3. DrawsInside'
      <4> SUFFICES ASSUME WideEnough, cursor_y' + Glyph <= Height PROVE wrote' \subseteq Pixel
        BY DEF DrawsInside
      <4>1. PICK x \in Nat, y \in Nat : x = cursor_x /\ y = cursor_y
        BY <2>2, <3>1
      <4>2. Glyph \in Nat /\ PitchY \in Nat /\ Height \in Nat /\ Pps \in Nat /\ PitchX \in Nat
        BY GeometryAssumption
      <4>3. y + Glyph <= Height
        <5>1. CASE cursor_y' = cursor_y
          BY <4>1, <5>1
        <5>2. CASE cursor_y' = cursor_y + PitchY
          <6>1. y + PitchY + Glyph <= Height
            BY <4>1, <5>2
          <6> QED BY <4>2, <6>1
        <5> QED BY <3>1, <5>1, <5>2
      <4>4. y * Pps + x * PitchX >= 0
        BY <4>2, SMT
      <4>5. Cell(x, y) \subseteq Pixel
        BY <3>1, <4>1, <4>3, <4>4, CellInside
      <4> QED BY <3>1, <4>1, <4>5
    <3>4. ASSUME WideEnough, BlankBelow, BlankRight PROVE BlankBelow' /\ BlankRight'
      <4>1. BlankBelow'
        BY <1>0, <2>1, <2>5, <3>4, DrawBelow
      <4>2. \A x \in cursor_x .. LastColumn : \A p \in Cell(x, cursor_y) \cap Pixel : fb[p] = {}
        BY <2>2, <3>4 DEF BlankRight
      <4>3. \A x \in cursor_x' .. LastColumn : \A p \in Cell(x, cursor_y') \cap Pixel : fb'[p] = {}
        BY <1>0, <2>1, <2>2, <2>5, <3>4, <4>2, DrawRight
      <4> QED BY <4>1, <4>3 DEF BlankRight
    <3> QED BY <1>0, <2>3, <3>2, <3>3, <3>4 DEF ScreenInv
  <2> QED BY <2>4, <2>5
<1>2. CASE PrintDone
  <2>1. /\ pc = "print" /\ pc' = "read" /\ buffer' = <<>> /\ wrote' = {} /\ origin' = [x |-> cursor_x, y |-> cursor_y]
        /\ UNCHANGED <<cursor_x, cursor_y, fb>>
    BY <1>2 DEF PrintDone
  <2>2. origin'.x = cursor_x /\ origin'.y = cursor_y /\ cursor_x \in Nat /\ cursor_y \in Nat /\ cursor_x <= LastColumn
    BY <1>0, <2>1 DEF ColumnInv, Editing
  <2>3. ColumnInv'
    <3>1. cursor_y' = origin'.y + 0 * PitchY /\ cursor_x' = origin'.x + Len(buffer') - 0 * (LastColumn + 1)
      BY <2>1, <2>2, Sizes
    <3> QED BY <2>1, <2>2, <3>1 DEF ColumnInv
  <2>4. ScreenInv' /\ DrawsInside'
    BY <1>0, <2>1 DEF ScreenInv, BlankBelow, BlankRight, DrawsInside
  <2>5. ScreenShowsLine'
    <3> SUFFICES ASSUME WideEnough, Height <= ClearRows,
                        NEW k \in 0 .. LastColumn - origin'.x, NEW p \in Cell(origin'.x + k, origin'.y) \cap Pixel
                 PROVE  fb'[p] = IF k < Len(buffer') THEN Ink(buffer'[k + 1]) ELSE {}
      BY DEF ScreenShowsLine
    <3>1. k \in 0 .. LastColumn - cursor_x /\ p \in Cell(cursor_x + k, cursor_y) \cap Pixel
      BY <2>2
    <3>2. cursor_x + k \in cursor_x .. LastColumn /\ ~(k < Len(buffer'))
      BY <2>1, <2>2, <3>1, Sizes
    <3>3. fb[p] = {}
      BY <1>0, <2>1, <3>1, <3>2 DEF ScreenInv, BlankRight
    <3> QED BY <2>1, <3>2, <3>3
  <2> QED BY <2>3, <2>4, <2>5
<1>3. ASSUME NEW c \in Char, TypeChar(c) PROVE Good
  <2>1. ColumnInv' /\ ScreenShowsLine'
    BY <1>0, <1>3, TypeColumn, TypeShows
  <2>2. pc = "read" /\ pc' = "read" /\ shell_putchar(c)
    BY <1>3 DEF TypeChar
  <2>3. ScreenInv'
    BY <1>0, <2>2, DrawBelow DEF ScreenInv, BlankRight
  <2>4. DrawsInside'
    <3> SUFFICES ASSUME WideEnough, cursor_y' + Glyph <= Height PROVE wrote' \subseteq Pixel
      BY DEF DrawsInside
    <3>1. /\ cursor_y' \in {cursor_y, cursor_y + PitchY} /\ cursor_y \in Nat /\ cursor_x \in Int
          /\ wrote' \subseteq Cell(cursor_x, cursor_y) /\ Len(buffer) \in Nat
      BY <1>0, <2>2, CharAssumption DEF shell_putchar, Advance, NewLine, Editing
    <3>2. cursor_y + Glyph <= Height
      BY <3>1, GeometryAssumption
    <3>3. Cell(cursor_x - 0, cursor_y) \subseteq Pixel
      BY <1>0, <2>2, <3>1, <3>2, EditInside
    <3>4. cursor_x - 0 = cursor_x
      BY <3>1
    <3> QED BY <3>1, <3>3, <3>4
  <2> QED BY <2>1, <2>3, <2>4
<1>4. CASE TypeIgnored \/ BackspaceEmpty \/ UNCHANGED termVars
  <2>1. UNCHANGED <<pc, buffer, cursor_x, cursor_y, fb, origin>> /\ (wrote' = wrote \/ wrote' = {})
    BY <1>4 DEF TypeIgnored, BackspaceEmpty, termVars
  <2>2. ColumnInv'
    BY <1>0, <2>1, Zenon DEF ColumnInv
  <2>3. BlankBelow' = BlankBelow /\ BlankRight' = BlankRight
    BY <2>1 DEF BlankBelow, BlankRight
  <2>4. ScreenShowsLine' = ScreenShowsLine
    BY <2>1 DEF ScreenShowsLine
  <2>5. DrawsInside'
    BY <1>0, <2>1 DEF DrawsInside
  <2> QED BY <1>0, <2>2, <2>3, <2>4, <2>5 DEF ScreenInv
<1>5. CASE Backspace
  <2>1. ScreenShowsLine'
    BY <1>0, <1>5, BackspaceShows
  <2>2. /\ pc = "read" /\ pc' = "read" /\ UNCHANGED <<cursor_y, origin>> /\ cursor_x' = cursor_x - 1
        /\ buffer \in Seq(Char) /\ buffer # <<>> /\ buffer' = SubSeq(buffer, 1, Len(buffer) - 1)
        /\ fb' = [p \in Pixel |-> IF p \in Cell(cursor_x - 1, cursor_y) THEN {} ELSE fb[p]]
        /\ wrote' = Cell(cursor_x - 1, cursor_y)
    BY <1>0, <1>5 DEF Backspace, Editing
  <2>3. Len(buffer) \in Nat \ {0} /\ Len(buffer') = Len(buffer) - 1
    BY <2>2, EmptySeq, ButLast
  <2>4. ColumnInv'
    <3>1. PICK w \in Nat : cursor_y = origin.y + w * PitchY /\ cursor_x = origin.x + Len(buffer) - w * (LastColumn + 1)
      BY <1>0, <2>2 DEF ColumnInv
    <3>2. PICK ox \in Nat, n \in Nat, v \in Int : ox = origin.x /\ n = Len(buffer) /\ v = w * (LastColumn + 1)
      <4>1. origin.x \in Nat
        BY <1>0 DEF ColumnInv
      <4>2. w * (LastColumn + 1) \in Int
        BY Sizes, SMT
      <4> QED BY <2>3, <4>1, <4>2
    <3>3. (ox + n - v) - 1 = ox + (n - 1) - v
      OBVIOUS
    <3>4. cursor_y' = origin'.y + w * PitchY /\ cursor_x' = origin'.x + Len(buffer') - w * (LastColumn + 1)
      BY <2>2, <2>3, <3>1, <3>2, <3>3
    <3>5. origin'.x \in Nat /\ origin'.y \in Nat
      BY <1>0, <2>2 DEF ColumnInv
    <3> QED BY <2>2, <3>4, <3>5 DEF ColumnInv
  <2>5. ScreenInv'
    BY <1>0, <2>2 DEF ScreenInv, BlankBelow, BlankRight
  <2>6. DrawsInside'
    <3> SUFFICES ASSUME WideEnough, cursor_y + Glyph <= Height PROVE Cell(cursor_x - 1, cursor_y) \subseteq Pixel
      BY <2>2 DEF DrawsInside
    <3> QED BY <1>0, <2>2, <2>3, EditInside
  <2> QED BY <2>1, <2>4, <2>5, <2>6
<1>6. CASE EnterLine
  <2>1. /\ pc' = "command" /\ origin' = origin /\ cursor_x' = 0 /\ cursor_y' = cursor_y + PitchY /\ fb' = fb /\ wrote' = {}
    BY <1>6 DEF EnterLine, shell_putchar, NewLine
  <2>2. ColumnInv' /\ DrawsInside' /\ ScreenShowsLine'
    BY <1>0, <2>1 DEF ColumnInv, DrawsInside, ScreenShowsLine
  <2>3. ASSUME WideEnough, BlankBelow PROVE BlankBelow' /\ BlankRight'
    <3>1. BlankBelow' /\ \A x \in Nat : \A p \in Cell(x, cursor_y') \cap Pixel : fb[p] = {}
      BY <1>0, <2>1, <2>3, NextLineBlank
    <3>2. \A x \in 0 .. LastColumn : x \in Nat
      BY Sizes
    <3> QED BY <2>1, <3>1, <3>2 DEF BlankRight
  <2> QED BY <1>0, <2>2, <2>3 DEF ScreenInv
<1>7. ASSUME NEW text \in Output \cup {<<>>}, RunCommand(text) PROVE Good
  <2>1. pc = "command" /\ pc' = "print" /\ wrote' = {} /\ UNCHANGED <<cursor_x, cursor_y, fb, origin>>
    BY <1>7 DEF RunCommand
  <2> QED BY <1>0, <2>1 DEF ColumnInv, ScreenInv, BlankBelow, BlankRight, ScreenShowsLine, DrawsInside
<1>8. CASE cmd_clear
  <2>1. /\ pc' = "print" /\ cursor_x' = 0 /\ cursor_y' = 0 /\ origin' = origin
        /\ fb' = [p \in Pixel |-> IF p < ClearRows * Pps THEN {} ELSE fb[p]]
        /\ wrote' = 0 .. ClearRows * Pps - 1
    BY <1>8 DEF cmd_clear
  <2>2. Height \in Nat /\ ClearRows \in Nat /\ Pps \in Nat
    BY GeometryAssumption
  <2>3. ColumnInv' /\ ScreenShowsLine'
    BY <1>0, <2>1 DEF ColumnInv, ScreenShowsLine
  <2>4. DrawsInside'
    <3> SUFFICES ASSUME ClearRows <= Height PROVE 0 .. ClearRows * Pps - 1 \subseteq Pixel
      BY <2>1 DEF DrawsInside
    <3>1. ClearRows * Pps <= Height * Pps /\ ClearRows * Pps \in Int /\ Height * Pps \in Int
      BY <2>2, TimesMonotonic
    <3> QED BY <3>1 DEF Pixel
  <2>5. ASSUME Height <= ClearRows PROVE \A p \in Pixel : fb'[p] = {}
    <3>1. Height * Pps <= ClearRows * Pps /\ ClearRows * Pps \in Int /\ Height * Pps \in Int
      BY <2>2, <2>5, TimesMonotonic
    <3>2. \A p \in Pixel : p < ClearRows * Pps
      BY <3>1 DEF Pixel
    <3> QED BY <2>1, <3>2
  <2>6. ScreenInv'
    BY <2>5 DEF ScreenInv, BlankBelow, BlankRight
  <2> QED BY <2>3, <2>4, <2>6
<1> QED
  BY <1>1, <1>2, <1>3, <1>4, <1>5, <1>6, <1>7, <1>8 DEF TermNext, shell_readline

(* What is on the screen is what will be executed, as long as the line has *)
(* not wrapped: for every screen that is wide enough and not higher than   *)
(* what clear blanks, every prompt and all that commands print.            *)
THEOREM LineIsShown == TermSpec => []ScreenShowsLine
<1>1. DrawInv => ScreenShowsLine
  BY DEF DrawInv
<1> QED BY <1>1, InitDrawInv, NextDrawInv, PTL DEF TermSpec

(* Nothing is drawn or blanked outside the framebuffer while the cursor's  *)
(* line is on the screen, not even at a negative column after a wrap.      *)
THEOREM DrawingStaysInside == TermSpec => []DrawsInside
<1>1. DrawInv => DrawsInside
  BY DEF DrawInv
<1> QED BY <1>1, InitDrawInv, NextDrawInv, PTL DEF TermSpec

=============================================================================
