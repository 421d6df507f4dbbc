----------------------------- MODULE MCMemory -----------------------------
(* A heap of 32 bytes and six-bit words.  49 to 56 wrap the sum with       *)
(* heap_offset, if that is not 0, and 57 to 63 the rounding.               *)
EXTENDS Memory

MCRequest == {0, 1, 8, 9, 24, 33, 49, 56, 57, 63}
===========================================================================
