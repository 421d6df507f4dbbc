--------------------------- MODULE MCKernelMain ---------------------------
(* Machines of three buses of four slots with up to two devices, all 32    *)
(* ports, and the image as linked in the repository's kernel.elf.          *)
EXTENDS KernelMain

Function(c, b) == [vendor |-> 32902, class |-> c, bar5 |-> b]
MCFunction == {Function(Sata, 4104), Function(Sata, 0), Function(257, 32)}

MCConfig ==
  {[d \in Bus \X Slot |-> IF d = p THEN x ELSE IF d = q THEN y ELSE Absent] :
     p \in Bus \X Slot, q \in Bus \X Slot, x \in MCFunction \cup {Absent}, y \in MCFunction}

MCPort == 0 .. 31
===========================================================================
