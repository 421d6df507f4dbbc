---------------------------- MODULE KernelMain ----------------------------
(***************************************************************************)
(* kernel_main (kernel/kernel.c): the order of start-up, with the search   *)
(* for the controller (Pci) that ahci_init begins with, and which memory   *)
(* the AHCI driver stores to.  The kernel has no memory manager: the image *)
(* lies where linker.ld puts it, and ahci.c computes the addresses of a    *)
(* port's command list, FIS area and command table from constants.         *)
(*                                                                         *)
(* Addresses are the real ones.                                            *)
(***************************************************************************)
EXTENDS Pci

CONSTANTS
  Port,      (* ports a disk may be found at: 0 .. 31                      *)
  TextSize,  (* size of the kernel's code                                  *)
  HeapBase,  (* address of the array heap                                  *)
  HeapSize   (* HEAP_SIZE                                                  *)

ASSUME PortAssumption == Port \subseteq 0 .. 31
ASSUME ImageAssumption == TextSize \in Nat \ {0} /\ HeapBase \in Nat /\ HeapSize \in Nat

K == 1024
ImageBase == 1024 * K      (* 0x100000 *)

Region(name, from, size) == [name |-> name, from |-> from, size |-> size]

Overlap(r, s) == r.from < s.from + s.size /\ s.from < r.from + r.size

(* The kernel's own memory.                                                *)
Text == Region("text", ImageBase, TextSize)
Heap == Region("heap", HeapBase, HeapSize)

(* 0x100000 + port * 0x400: 32 command headers of 32 bytes; the first is   *)
(* written by ahci_read, its byte count by the HBA.                        *)
CommandList(p) == Region("command list", 1024 * K + p * K, K)

(* Mutant: the FIS areas begin where only 16 command lists fit before.     *)
FisAreaLow(p) == Region("FIS area", 1040 * K + p * 256, 256)

(* 0x108000 + port * 0x100: written by the HBA once FRE is set.            *)
FisArea(p) == Region("FIS area", 1056 * K + p * 256, 256)

(* 0x110000 + port * 0x100: cleared and filled in by ahci_read.            *)
CommandTable(p) == Region("command table", 1088 * K + p * 256, 144)

VARIABLES
  pc,
  port,      (* active_port                                                *)
  heapReady, (* memory_init has run                                        *)
  message,   (* the status lines drawn so far                              *)
  stored     (* regions the driver or the HBA has stored to                *)

kernelVars == <<pciVars, pc, port, heapReady, message, stored>>

NoPort == -1

KernelInit ==
  /\ PciInit
  /\ pc = "entry" /\ port = NoPort /\ heapReady = FALSE /\ message = {} /\ stored = {}

memory_init ==
  /\ pc = "entry" /\ pc' = "screen" /\ heapReady' = TRUE
  /\ UNCHANGED <<pciVars, port, message, stored>>

(* The framebuffer is blanked and the first line drawn.                    *)
ClearScreen ==
  /\ pc = "screen" /\ pc' = "ahci" /\ message' = {"SimplrOS"}
  /\ UNCHANGED <<pciVars, port, heapReady, stored>>

FindController ==
  /\ pc = "ahci" /\ pci_find_ahci
  /\ UNCHANGED <<pc, port, heapReady, message, stored>>

(* The port is rebased and started: the HBA may deliver FISes from now on. *)
AhciOk(p) ==
  /\ pc = "ahci" /\ scan = "done" /\ base # 0 /\ pc' = "mount" /\ port' = p
  /\ message' = message \cup {"AHCI: OK"} /\ stored' = {FisArea(p)}
  /\ UNCHANGED <<pciVars, heapReady>>

(* No controller, or no disk at any of its ports.                          *)
AhciFail ==
  /\ pc = "ahci" /\ scan = "done" /\ pc' = "halted" /\ message' = message \cup {"AHCI: FAIL"}
  /\ UNCHANGED <<pciVars, port, heapReady, stored>>

(* The stores of ahci_read, which does nothing without a port.             *)
ReadStores == IF port = NoPort THEN stored ELSE stored \cup {CommandList(port), CommandTable(port)}

MountOk ==
  /\ pc = "mount" /\ pc' = "shell" /\ message' = message \cup {"FSSO: OK"}
  /\ stored' = ReadStores
  /\ UNCHANGED <<pciVars, port, heapReady>>

MountFail ==
  /\ pc = "mount" /\ pc' = "halted" /\ message' = message \cup {"FSSO: FAIL"}
  /\ stored' = ReadStores
  /\ UNCHANGED <<pciVars, port, heapReady>>

kernel_main ==
  memory_init \/ ClearScreen \/ FindController \/ (\E p \in Port : AhciOk(p)) \/ AhciFail \/ MountOk \/ MountFail

(* The CPU keeps running.                                                  *)
KernelSpec == KernelInit /\ [][kernel_main]_kernelVars /\ WF_kernelVars(kernel_main)

---------------------------------------------------------------------------
(* The structures stored to are apart from one another and from those of   *)
(* every other port, and aligned as the HBA requires: 1 K for command      *)
(* lists, 256 bytes for FIS areas, 128 for command tables.                 *)
StructuresApart ==
  \A r \in stored :
    /\ r.from % (IF r.name = "command list" THEN K ELSE IF r.name = "FIS area" THEN 256 ELSE 128) = 0
    /\ \A q \in 0 .. 31, s \in {"command list", "FIS area", "command table"} :
         LET other == CASE s = "command list" -> CommandList(q)
                        [] s = "FIS area" -> FisArea(q)
                        [] s = "command table" -> CommandTable(q)
         IN r # other => ~Overlap(r, other)

(* Start-up ends in the shell or with a message that says what failed, on  *)
(* every machine: the loop variables of the scan are wide enough to pass   *)
(* their bounds.                                                           *)
StartUpEnds ==
  <>(pc = "shell" \/ (pc = "halted" /\ message \cap {"AHCI: FAIL", "FSSO: FAIL"} # {}))

(* linker.ld places the kernel's code at 0x100000 and memory.c sets a heap *)
(* of 16 MB aside for kmalloc: neither the driver nor the HBA stores into  *)
(* them.                                                                   *)
ImageIntact == \A r \in stored : ~Overlap(r, Text) /\ ~Overlap(r, Heap)

===========================================================================
