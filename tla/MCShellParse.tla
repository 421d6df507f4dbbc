--------------------------- MODULE MCShellParse ---------------------------
(* All lines of up to 7 characters over a letter and the space, an argv of *)
(* three words, so that echo prints two and the space between them, and    *)
(* two commands, one the beginning of the other.                           *)
EXTENDS ShellParse

CONSTANT a

MCLetter      == {a}
MCCommandName == [echo |-> <<a>>, clear |-> <<a, a>>]
===========================================================================
