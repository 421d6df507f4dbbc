---------------------------- MODULE MCKeyboard ----------------------------
(* Two shift keys, a key with a character and one without, a queue of 3.   *)
EXTENDS Keyboard

MCShiftKey == {"left", "right"}
MCKey      == {"q"}
MCDeadKey  == {"f1"}
===========================================================================
