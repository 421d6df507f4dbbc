---------------------------- MODULE ShellParse ----------------------------
(***************************************************************************)
(* The loop of shell_run (kernel/shell.c): a line is read over the remains *)
(* of earlier ones, shell_parse cuts it into words in place, overwriting   *)
(* the space behind a word with a terminator, and str_eq selects the       *)
(* command.                                                                *)
(***************************************************************************)
EXTENDS Sequences, Integers, FiniteSets

CONSTANTS
  Letter,       (* characters other than the space                         *)
  Space, Nul,
  MaxArgs,      (* SHELL_MAX_ARGS [16]                                     *)
  MaxLine,      (* length of the longest line [SHELL_MAX_INPUT - 1]        *)
  CommandName   (* command |-> its name                                    *)

ASSUME SymbolAssumption ==
  /\ Space # Nul /\ {Space, Nul} \cap Letter = {}
  /\ \A c \in DOMAIN CommandName : CommandName[c] \in Seq(Letter) /\ CommandName[c] # <<>>
  /\ {"nothing", "unknown"} \cap DOMAIN CommandName = {}
ASSUME SizeAssumption == MaxArgs \in Nat \ {0} /\ MaxLine \in Nat

VARIABLES
  line,    (* the line as it was typed                                     *)
  input,   (* the input buffer, terminator included                        *)
  pc, p,
  argv,    (* where the words begin; argc is its length                    *)
  ran,     (* the branch of shell_run taken                                *)
  echoed   (* what cmd_echo printed before its newline                     *)

parseVars == <<line, input, pc, p, argv, ran, echoed>>

Line == UNION {[1 .. n -> Letter \cup {Space}] : n \in 0 .. MaxLine}

(* The string at an address, up to and with its terminator.                *)
Terminated(a) ==
  SubSeq(input, a, CHOOSE e \in a .. Len(input) :
                     input[e] = Nul /\ \A f \in a .. e - 1 : input[f] # Nul)

String(a) == SubSeq(Terminated(a), 1, Len(Terminated(a)) - 1)

Buffer == [1 .. MaxLine + 1 -> Letter \cup {Space, Nul}]

(* The input buffer is not initialised.                                    *)
ParseInit ==
  /\ line = <<>> /\ input \in Buffer
  /\ pc = "prompt" /\ p = 1 /\ argv = <<>> /\ ran = "nothing" /\ echoed = <<>>

(* shell_readline stores the line and its terminator.                      *)
ReadLine(l) ==
  /\ pc = "prompt" /\ pc' = "start"
  /\ line' = l
  /\ input' = [k \in DOMAIN input |->
                 IF k <= Len(l) THEN l[k] ELSE IF k = Len(l) + 1 THEN Nul ELSE input[k]]
  /\ p' = 1 /\ argv' = <<>> /\ ran' = "nothing" /\ echoed' = <<>>

(* An empty line is not parsed; one without words runs nothing.            *)
EmptyLine ==
  /\ \/ pc = "start" /\ input[1] = Nul
     \/ pc = "parsed" /\ argv = <<>>
  /\ pc' = "prompt"
  /\ UNCHANGED <<line, input, p, argv, ran, echoed>>

StartParse ==
  /\ pc = "start" /\ input[1] # Nul /\ pc' = "loop"
  /\ UNCHANGED <<line, input, p, argv, ran, echoed>>

(* Mutant: one word too many.                                              *)
MoreWordsOneOff == input[p] # Nul /\ Len(argv) <= MaxArgs

MoreWords == input[p] # Nul /\ Len(argv) < MaxArgs

NextWord ==
  /\ pc = "loop" /\ pc' = IF MoreWords THEN "skip" ELSE "parsed"
  /\ UNCHANGED <<line, input, p, argv, ran, echoed>>

(* Mutant: a space starts the round again without being passed.            *)
SkipSpaceContinue ==
  /\ pc = "skip" /\ input[p] = Space /\ pc' = "loop"
  /\ UNCHANGED <<line, input, p, argv, ran, echoed>>

SkipSpace ==
  /\ pc = "skip" /\ input[p] = Space /\ p' = p + 1
  /\ UNCHANGED <<line, input, pc, argv, ran, echoed>>

TrailingSpaces ==
  /\ pc = "skip" /\ input[p] = Nul /\ pc' = "parsed"
  /\ UNCHANGED <<line, input, p, argv, ran, echoed>>

StartToken ==
  /\ pc = "skip" /\ input[p] \in Letter
  /\ argv' = Append(argv, p) /\ pc' = "token"
  /\ UNCHANGED <<line, input, p, ran, echoed>>

SkipToken ==
  /\ pc = "token" /\ input[p] \in Letter /\ p' = p + 1
  /\ UNCHANGED <<line, input, pc, argv, ran, echoed>>

(* Mutant: the word is not terminated.                                     *)
EndTokenOpen ==
  /\ pc = "token" /\ input[p] \notin Letter /\ pc' = "loop"
  /\ UNCHANGED <<line, input, p, argv, ran, echoed>>

EndToken ==
  /\ pc = "token" /\ input[p] \notin Letter /\ pc' = "loop"
  /\ IF input[p] = Space
       THEN input' = [input EXCEPT ![p] = Nul] /\ p' = p + 1
       ELSE UNCHANGED <<input, p>>
  /\ UNCHANGED <<line, argv, ran, echoed>>

---------------------------------------------------------------------------
(* Where the loop of str_eq stops, for two terminated strings.             *)
FirstStop(a, b) ==
  CHOOSE k \in 1 .. Len(a) :
    /\ a[k] = Nul \/ a[k] # b[k]
    /\ \A m \in 1 .. k - 1 : a[m] # Nul /\ a[m] = b[m]

(* Mutant: equal as far as the first string goes.                          *)
str_eqPrefix(a, b) == a[FirstStop(a, b)] = Nul

str_eq(a, b) == a[FirstStop(a, b)] = b[FirstStop(a, b)]

(* cmd_echo: the words after the first with single spaces between them.    *)
EchoText ==
  LET join[k \in 1 .. Len(argv)] ==
        IF k = 1 THEN <<>>
        ELSE join[k - 1] \o (IF k > 2 THEN <<Space>> ELSE <<>>) \o String(argv[k])
  IN join[Len(argv)]

Matching == {c \in DOMAIN CommandName : str_eq(Terminated(argv[1]), Append(CommandName[c], Nul))}

Dispatch ==
  /\ pc = "parsed" /\ argv # <<>> /\ pc' = "prompt"
  /\ ran' \in IF Matching = {} THEN {"unknown"} ELSE Matching
  /\ echoed' = IF ran' = "echo" THEN EchoText ELSE <<>>
  /\ UNCHANGED <<line, input, p, argv>>

shell_parse ==
  StartParse \/ NextWord \/ SkipSpace \/ TrailingSpaces \/ StartToken \/ SkipToken \/ EndToken

Round == EmptyLine \/ shell_parse \/ Dispatch

ParseNext == Round \/ \E l \in Line : ReadLine(l)

ParseSpec == ParseInit /\ [][ParseNext]_parseVars

(* The CPU keeps running.                                                  *)
ParseFairSpec == ParseSpec /\ WF_parseVars(Round)

---------------------------------------------------------------------------
(* Type invariant: the pointer never passes the terminator of the line, so *)
(* remains of earlier lines are not seen, and argv never overflows.        *)
ParseTypeOK ==
  /\ pc \in {"start", "loop", "skip", "token", "parsed", "prompt"}
  /\ line \in Line /\ input \in Buffer
  /\ p \in 1 .. Len(line) + 1
  /\ Len(argv) <= MaxArgs /\ \A k \in DOMAIN argv : argv[k] \in DOMAIN line

(* The words of a line: where they begin, and the k-th of them.            *)
Starts(l) == {s \in DOMAIN l : l[s] # Space /\ (s = 1 \/ l[s - 1] = Space)}

Word(l, k) ==
  LET s == CHOOSE s \in Starts(l) : Cardinality({t \in Starts(l) : t <= s}) = k
      e == CHOOSE e \in s .. Len(l) :
             (e = Len(l) \/ l[e + 1] = Space) /\ \A f \in s .. e : l[f] # Space
  IN SubSeq(l, s, e)

(* argv holds the words of the line as it was typed, in order, as many of  *)
(* them as fit, although the line is cut up in place while it is scanned.  *)
ArgvCorrect ==
  pc \in {"parsed", "prompt"} =>
    LET words == Cardinality(Starts(line)) IN
    /\ Len(argv) = IF words < MaxArgs THEN words ELSE MaxArgs
    /\ \A k \in DOMAIN argv : String(argv[k]) = Word(line, k)

(* The command that runs is the one whose name is exactly the first word,  *)
(* and none runs for any other word or for a line without words.  echo     *)
(* prints the other words of the line, as many as argv holds, one space    *)
(* between them however many were typed.                                   *)
DispatchCorrect ==
  pc = "prompt" =>
    /\ IF Starts(line) = {} THEN ran = "nothing"
       ELSE IF ran = "unknown" THEN \A c \in DOMAIN CommandName : CommandName[c] # Word(line, 1)
       ELSE ran \in DOMAIN CommandName /\ CommandName[ran] = Word(line, 1)
    /\ ran = "echo" =>
         /\ Cardinality({k \in DOMAIN echoed : echoed[k] = Space}) = Cardinality(Starts(echoed)) - (IF echoed = <<>> THEN 0 ELSE 1)
         /\ Cardinality(Starts(echoed)) = Len(argv) - 1
         /\ \A k \in 2 .. Len(argv) : Word(echoed, k - 1) = Word(line, k)

(* Every line gets the shell back to its prompt.                           *)
PromptReturns == pc = "start" ~> pc = "prompt"

===========================================================================
