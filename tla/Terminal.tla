----------------------------- MODULE Terminal -----------------------------
(***************************************************************************)
(* The shell's terminal: shell_putchar, shell_print, shell_readline,       *)
(* cmd_clear and the prompt loop of shell_run (kernel/shell.c), drawing    *)
(* with draw_char (kernel/kernel.c) into the framebuffer.                  *)
(*                                                                         *)
(* The cursor is a column and a scanline.  draw_char only sets pixels, so  *)
(* what is drawn on top of something adds to it; a pixel is the set of the *)
(* characters inked there.  Pixels are addressed in one dimension, as the  *)
(* code does: left of column 0 lies the end of the scanline above.         *)
(***************************************************************************)
EXTENDS Sequences, Integers

CONSTANTS
  Char,        (* printable characters                                     *)
  Space,       (* the one without ink                                      *)
  LastColumn,  (* the cursor wraps when it passes this column [80]         *)
  Glyph,       (* width and height of a glyph [8]                          *)
  PitchX,      (* distance of columns [9]                                  *)
  PitchY,      (* distance of lines [10]                                   *)
  Pps,         (* pixels per scanline                                      *)
  Height,      (* scanlines                                                *)
  ClearRows,   (* scanlines that cmd_clear blanks [768]                    *)
  Status,      (* kernel_main's status lines, top down                     *)
  StartY,      (* first line of the shell [40]                             *)
  MaxInput,    (* SHELL_MAX_INPUT [256]                                    *)
  Prompt,      (* "SimplrOS> "                                             *)
  Output,      (* what commands print: sequences of Char and Newline       *)
  Newline,
  MaxY         (* bound: only clear runs on lines below this scanline      *)

ASSUME GeometryAssumption ==
  /\ {LastColumn, Height, ClearRows, StartY, MaxY} \subseteq Nat
  /\ {Glyph, PitchX, PitchY, Pps, MaxInput} \subseteq Nat \ {0}
  /\ Glyph <= PitchX /\ Glyph <= PitchY
ASSUME CharAssumption ==
  /\ Space \in Char /\ Newline \notin Char
  /\ Prompt \in Seq(Char) /\ Output \subseteq Seq(Char \cup {Newline}) /\ Status \in Seq(Seq(Char))
ASSUME StatusAssumption ==
  Len(Status) * PitchY <= StartY /\ \A l \in DOMAIN Status : Len(Status[l]) <= LastColumn + 1

VARIABLES
  pc,        (* "print" what is in todo, "read" a line, "command"          *)
  todo,      (* characters still to print                                  *)
  buffer,    (* the input line; len is its length                          *)
  cursor_x, cursor_y,
  fb,        (* the framebuffer                                            *)
  wrote,     (* history: the addresses the last step wrote to              *)
  origin     (* history: the cursor when the line began                    *)

termVars == <<pc, todo, buffer, cursor_x, cursor_y, fb, wrote, origin>>

Pixel == 0 .. Height * Pps - 1

(* The pixels of a glyph at column x and scanline y; x may be negative.    *)
Cell(x, y) == {(y + row) * Pps + x * PitchX + col : row \in 0 .. Glyph - 1, col \in 0 .. Glyph - 1}

Ink(c) == IF c = Space THEN {} ELSE {c}

(* draw_string, for the lines drawn before the shell starts.               *)
StatusInk(p) ==
  {c \in Char : \E l \in DOMAIN Status : \E k \in DOMAIN Status[l] :
     c \in Ink(Status[l][k]) /\ p \in Cell(k - 1, (l - 1) * PitchY)}

TermInit ==
  /\ pc = "print" /\ todo = Prompt /\ buffer = <<>>
  /\ cursor_x = 0 /\ cursor_y = StartY
  /\ fb = [p \in Pixel |-> StatusInk(p)] /\ wrote = {} /\ origin = [x |-> 0, y |-> StartY]

---------------------------------------------------------------------------
NewLine == cursor_x' = 0 /\ cursor_y' = cursor_y + PitchY

(* Mutant: the wrap forgets the column.                                    *)
AdvanceNoReturn ==
  /\ cursor_x' = cursor_x + 1
  /\ cursor_y' = IF cursor_x + 1 > LastColumn THEN cursor_y + PitchY ELSE cursor_y

Advance ==
  IF cursor_x + 1 > LastColumn THEN NewLine ELSE cursor_x' = cursor_x + 1 /\ UNCHANGED cursor_y

shell_putchar(c) ==
  IF c = Newline
    THEN NewLine /\ wrote' = {} /\ UNCHANGED fb
    ELSE LET cell == Cell(cursor_x, cursor_y) IN
         /\ fb' = [p \in Pixel |-> IF p \in cell THEN fb[p] \cup Ink(c) ELSE fb[p]]
         /\ wrote' = IF Ink(c) = {} THEN {} ELSE cell
         /\ Advance

(* One round of shell_print.                                               *)
PrintChar ==
  /\ pc = "print" /\ todo # <<>>
  /\ shell_putchar(Head(todo)) /\ todo' = Tail(todo)
  /\ UNCHANGED <<pc, buffer, origin>>

PrintDone ==
  /\ pc = "print" /\ todo = <<>>
  /\ pc' = "read" /\ buffer' = <<>> /\ wrote' = {}
  /\ origin' = [x |-> cursor_x, y |-> cursor_y]
  /\ UNCHANGED <<todo, cursor_x, cursor_y, fb>>

---------------------------------------------------------------------------
(* shell_readline: one action per kind of character read_key returns.      *)

(* Mutant: no room is kept for the terminator.                             *)
HasRoomForAll == Len(buffer) < MaxInput

HasRoom == Len(buffer) < MaxInput - 1

TypeChar(c) ==
  /\ pc = "read" /\ HasRoom
  /\ buffer' = Append(buffer, c)
  /\ shell_putchar(c)
  /\ UNCHANGED <<pc, todo, origin>>

(* A full line ignores the key.                                            *)
TypeIgnored ==
  /\ pc = "read" /\ ~HasRoom
  /\ wrote' = {}
  /\ UNCHANGED <<pc, todo, buffer, cursor_x, cursor_y, fb, origin>>

(* Mutant: the cell of the cursor is blanked before the cursor moves.      *)
BackspaceEraseFirst ==
  /\ pc = "read" /\ buffer # <<>>
  /\ buffer' = SubSeq(buffer, 1, Len(buffer) - 1)
  /\ cursor_x' = cursor_x - 1
  /\ LET cell == Cell(cursor_x, cursor_y) IN
       /\ fb' = [p \in Pixel |-> IF p \in cell THEN {} ELSE fb[p]]
       /\ wrote' = cell
  /\ UNCHANGED <<pc, todo, cursor_y, origin>>

(* Mutant: the length is not tested, and the cursor passes the prompt.     *)
BackspaceUnguarded ==
  /\ pc = "read"
  /\ buffer' = IF buffer = <<>> THEN <<>> ELSE SubSeq(buffer, 1, Len(buffer) - 1)
  /\ cursor_x' = cursor_x - 1
  /\ LET cell == Cell(cursor_x - 1, cursor_y) IN
       /\ fb' = [p \in Pixel |-> IF p \in cell THEN {} ELSE fb[p]]
       /\ wrote' = cell
  /\ UNCHANGED <<pc, todo, cursor_y, origin>>

(* The cursor moves left, not back over a wrap, and the cell is blanked.   *)
Backspace ==
  /\ pc = "read" /\ buffer # <<>>
  /\ buffer' = SubSeq(buffer, 1, Len(buffer) - 1)
  /\ cursor_x' = cursor_x - 1
  /\ LET cell == Cell(cursor_x - 1, cursor_y) IN
       /\ fb' = [p \in Pixel |-> IF p \in cell THEN {} ELSE fb[p]]
       /\ wrote' = cell
  /\ UNCHANGED <<pc, todo, cursor_y, origin>>

BackspaceEmpty ==
  /\ pc = "read" /\ buffer = <<>>
  /\ wrote' = {}
  /\ UNCHANGED <<pc, todo, buffer, cursor_x, cursor_y, fb, origin>>

(* MaxY bounds the model; the code has no such guard.                      *)
EnterLine ==
  /\ pc = "read" /\ pc' = "command"
  /\ cursor_y <= MaxY \/ buffer # <<>>
  /\ shell_putchar(Newline)
  /\ UNCHANGED <<todo, buffer, origin>>

---------------------------------------------------------------------------
(* shell_run: the commands as far as the screen is concerned.              *)

(* An empty line, one of spaces only, or a command that prints.  MaxY is a *)
(* bound of the model here too.                                            *)
RunCommand(text) ==
  /\ pc = "command" /\ origin.y <= MaxY
  /\ buffer = <<>> => text = <<>>
  /\ pc' = "print" /\ todo' = text \o Prompt /\ wrote' = {}
  /\ UNCHANGED <<buffer, cursor_x, cursor_y, fb, origin>>

cmd_clear ==
  /\ pc = "command" /\ buffer # <<>>
  /\ fb' = [p \in Pixel |-> IF p < ClearRows * Pps THEN {} ELSE fb[p]]
  /\ wrote' = 0 .. ClearRows * Pps - 1
  /\ cursor_x' = 0 /\ cursor_y' = 0
  /\ pc' = "print" /\ todo' = Prompt
  /\ UNCHANGED <<buffer, origin>>

shell_readline == (\E c \in Char : TypeChar(c)) \/ TypeIgnored \/ Backspace \/ BackspaceEmpty \/ EnterLine

TermNext ==
  \/ PrintChar \/ PrintDone \/ shell_readline
  \/ \E text \in Output \cup {<<>>} : RunCommand(text)
  \/ cmd_clear

TermSpec == TermInit /\ [][TermNext]_termVars

---------------------------------------------------------------------------
(* Type invariant.  The line and its terminator fit in the input buffer,   *)
(* whatever is typed and erased, and the cursor never passes the last      *)
(* column.                                                                 *)
TermTypeOK ==
  /\ pc \in {"print", "read", "command"}
  /\ todo \in Seq(Char \cup {Newline})
  /\ buffer \in Seq(Char) /\ Len(buffer) + 1 <= MaxInput
  /\ cursor_x <= LastColumn
  /\ cursor_y \in Nat
  /\ fb \in [Pixel -> SUBSET Char]

(* While a line is edited the cursor is as many cells from where the line  *)
(* began as the line is long, counted through the wraps, although a        *)
(* backspace never goes back over a wrap and the column turns negative.    *)
CursorMatchesLine ==
  pc = "read" =>
    (cursor_y - origin.y) * (LastColumn + 1) + (cursor_x - origin.x) * PitchY = Len(buffer) * PitchY

(* A line's columns fit on a scanline.  Nothing in the code sees to it:    *)
(* the bootloader selects graphics mode 0, whatever its width.             *)
WideEnough == (LastColumn + 1) * PitchX <= Pps

(* What is on the screen is what will be executed: a line that has not     *)
(* wrapped is shown character by character, with no ink left of erased     *)
(* characters or of lines from before a clear behind it.  (After a wrap    *)
(* and a backspace to a negative column this no longer holds.)             *)
ScreenShowsLine ==
  WideEnough /\ Height <= ClearRows /\ pc = "read" /\ cursor_y = origin.y =>
    \A k \in 0 .. LastColumn - origin.x :
      \A p \in Cell(origin.x + k, origin.y) \cap Pixel :
        fb[p] = IF k < Len(buffer) THEN Ink(buffer[k + 1]) ELSE {}

(* Nothing is drawn or blanked outside the framebuffer as long as the      *)
(* cursor's line is on the screen, not even at a negative column in the    *)
(* topmost lines.  The code never scrolls: below the last line it draws    *)
(* behind the framebuffer.                                                 *)
DrawsInside ==
  WideEnough /\ cursor_y + Glyph <= Height /\ ClearRows <= Height => wrote \subseteq Pixel

===========================================================================
