----------------------------- MODULE Keyboard -----------------------------
(***************************************************************************)
(* read_key of kernel/kernel.c behind the keyboard controller.  The        *)
(* kernel polls: while a command runs nobody empties the controller's      *)
(* queue, and codes that arrive at a full queue are lost.                  *)
(*                                                                         *)
(* One flag, shift_pressed, stands for all the keys that send a shift      *)
(* code: the two shift keys and, since the 0xE0 prefix is skipped as if it *)
(* were a release, every extended key that sends a fake shift.             *)
(***************************************************************************)
EXTENDS Sequences, Integers

CONSTANTS
  ShiftKey,   (* keys that send 0x2A/0x36 when pressed, 0xAA/0xB6 released *)
  Key,        (* keys with an entry in both maps (letters, digits ...)     *)
  DeadKey,    (* keys whose entry is 0, and release and prefix codes       *)
  QueueSize   (* codes the controller keeps                                *)

ASSUME QueueAssumption == QueueSize \in Nat \ {0}
ASSUME KeysAssumption  == Key \cap DeadKey = {} /\ {"make", "break"} \cap (Key \cup DeadKey) = {}

VARIABLES
  shift_pressed,  (* static int shift_pressed                              *)
  queue,          (* codes not read yet, each with what was true when sent *)
  held,           (* the shift keys that are down                          *)
  chord,          (* history: two of them were down at once since none was *)
  desync,         (* history: a shift code was lost, and none sent since   *)
  last            (* what read_key returned last, and for which code       *)

kbVars == <<shift_pressed, queue, held, chord, desync, last>>

(* A code as it leaves the keyboard.                                       *)
Sent(c) == [code |-> c, shifted |-> held # {}, chord |-> chord, desync |-> desync]

NoChar == [key |-> "none", upper |-> FALSE]
NoKey  == [char |-> NoChar, for |-> [code |-> "none", shifted |-> FALSE, chord |-> FALSE, desync |-> FALSE]]

KbInit ==
  /\ shift_pressed = 0 /\ queue = <<>> /\ held = {}
  /\ chord = FALSE /\ desync = FALSE /\ last = NoKey

---------------------------------------------------------------------------
(* The keyboard and its controller (external).                             *)

SendShift(c) ==
  /\ desync' = (Len(queue) = QueueSize)
  /\ queue' = IF Len(queue) = QueueSize THEN queue ELSE Append(queue, Sent(c))
  /\ UNCHANGED <<shift_pressed, last>>

PressShift(k) ==
  /\ k \notin held /\ held' = held \cup {k}
  /\ chord' = (chord \/ held # {})
  /\ SendShift("make")

ReleaseShift(k) ==
  /\ k \in held /\ held' = held \ {k}
  /\ chord' = (chord /\ held' # {})
  /\ SendShift("break")

PressKey(k) ==
  /\ queue' = IF Len(queue) = QueueSize THEN queue ELSE Append(queue, Sent(k))
  /\ UNCHANGED <<shift_pressed, held, chord, desync, last>>

---------------------------------------------------------------------------
(* Mutant: the release of a shift key is ignored.                          *)
ShiftAfterStuck(c) == IF c = "make" THEN 1 ELSE shift_pressed

(* Mutant: a shift applies to one key only.                                *)
ShiftAfterOneShot(c) == IF c = "make" THEN 1 ELSE 0

(* What a code does to the flag.                                           *)
ShiftAfter(c) == IF c = "make" THEN 1 ELSE IF c = "break" THEN 0 ELSE shift_pressed

(* The character of a code: 0 for shift codes, releases, and empty entries *)
(* of the maps, otherwise the entry of one map or of the other.            *)
Translate(c) == IF c \in Key THEN [key |-> c, upper |-> shift_pressed # 0] ELSE NoChar

(* The two port reads are one step: nobody else reads the data port.       *)
read_key ==
  /\ queue # <<>>
  /\ LET c == Head(queue).code IN
       /\ shift_pressed' = ShiftAfter(c)
       /\ last' = [char |-> Translate(c), for |-> Head(queue)]
  /\ queue' = Tail(queue)
  /\ UNCHANGED <<held, chord, desync>>

KbNext ==
  \/ \E k \in ShiftKey : PressShift(k) \/ ReleaseShift(k)
  \/ \E k \in Key \cup DeadKey : PressKey(k)
  \/ read_key

KbSpec == KbInit /\ [][KbNext]_kbVars

---------------------------------------------------------------------------
(* A shifted character comes only from a key that was pressed under a held *)
(* shift, however late it is read, unless the last shift code before it    *)
(* was lost in the full queue: a lost release is made good by the next     *)
(* shift code that gets through.                                           *)
UpperOnlyUnderShift == last.char.upper /\ ~last.for.desync => last.for.shifted

(* A key pressed under a held shift gives its plain character only if the  *)
(* last shift code was lost, or after one of several keys that share the   *)
(* flag was released.                                                      *)
ShiftAppliesUnlessChord ==
  last.char # NoChar /\ last.for.shifted /\ ~last.char.upper =>
    last.for.desync \/ last.for.chord

===========================================================================
