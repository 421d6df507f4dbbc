--------------------------- MODULE MCBootloader ---------------------------
(* Two kernels of two program headers, one with a note segment and one     *)
(* with code and data, and a file that is no ELF file; the copy of the     *)
(* file may be anywhere in a memory of 11 cells but at the firmware's.     *)
EXTENDS Bootloader

Segment(t, o, v, fs, ms) == [type |-> t, offset |-> o, vaddr |-> v, filesz |-> fs, memsz |-> ms]

OneSegment == [length |-> 4, valid |-> TRUE, entry |-> 1,
               phdr |-> <<Segment(4, 3, 0, 1, 1), Segment(1, 3, 1, 1, 2)>>]
TwoSegments == [length |-> 5, valid |-> TRUE, entry |-> 2,
                phdr |-> <<Segment(1, 3, 1, 1, 1), Segment(1, 4, 2, 1, 3)>>]
OverFirmware == [OneSegment EXCEPT !.phdr[2].vaddr = 10, !.phdr[2].memsz = 1]
NotElf == [OneSegment EXCEPT !.valid = FALSE]

MCKernel == {OneSegment, TwoSegments, OverFirmware, NotElf}
===========================================================================
