---------------------------- MODULE Bootloader ----------------------------
(***************************************************************************)
(* efi_main of bootloader/bootloader.c: read kernel.elf through the        *)
(* firmware's boot services, copy its segments to their addresses, leave   *)
(* boot services, jump to the kernel.                                      *)
(*                                                                         *)
(* The segments are copied byte by byte to addresses nobody reserved,      *)
(* while the headers are still read from the file's buffer: what the       *)
(* program does once it reads an overwritten header, or once it has        *)
(* overwritten memory in use, is undefined ("wild").  The firmware does    *)
(* not know of the segments: the buffer for the memory map, and whatever   *)
(* the firmware allocates for itself between two calls, may lie over them. *)
(* Each allocation may change the memory map and thereby its key.          *)
(*                                                                         *)
(* Cell 0 of the file is the ELF header, cell k the k-th program header.   *)
(***************************************************************************)
EXTENDS Sequences, Integers, FiniteSets

CONSTANTS
  Kernel,      (* possible kernel files                                    *)
  MemSize,     (* cells of memory                                          *)
  Firmware,    (* cells the firmware and the bootloader live in            *)
  MapCells,    (* cells that the buffer for the memory map takes           *)
  MaxNoise     (* bound: times the firmware changes the map on its own     *)

Addr == 0 .. MemSize - 1

PT_LOAD == 1

ASSUME MemoryAssumption ==
  MemSize \in Nat /\ MaxNoise \in Nat /\ MapCells \in Nat /\ Firmware \subseteq Addr
ASSUME KernelAssumption == \A f \in Kernel :
  /\ f.length \in 1 .. MemSize /\ f.valid \in BOOLEAN /\ f.entry \in Addr
  /\ Len(f.phdr) \in 0 .. f.length - 1 /\ DOMAIN f.phdr = 1 .. Len(f.phdr)
  /\ \A k \in DOMAIN f.phdr : LET h == f.phdr[k] IN
       /\ {h.offset, h.vaddr, h.filesz, h.memsz} \subseteq Nat
       /\ h.offset + h.filesz <= f.length /\ h.filesz <= h.memsz
       /\ h.vaddr + h.memsz <= MemSize

VARIABLES
  pc,             (* the call or loop to be executed next                  *)
  file,           (* kernel.elf                                            *)
  KernelBuffer,   (* where its copy begins                                 *)
  mem,            (* a cell holds a cell of the file, Zero or Other        *)
  i, j,           (* loop indices: program header, byte                    *)
  info,           (* BootInfo: "mode" or "garbage"                         *)
  KernelStart,    (* the entry point                                       *)
  key,            (* the firmware's current map key                        *)
  descriptors,    (* and the number of descriptors of its map              *)
  MemoryMapSize,  (* in descriptors                                        *)
  MapKey,
  MemoryMap,      (* where the buffer for the map begins                   *)
  services,       (* boot services are available                           *)
  used,           (* cells that are, or once were, allocated               *)
  failed,         (* history: the calls that failed                        *)
  noise           (* history: changes of the map by the firmware alone     *)

loadVars == <<file, KernelBuffer, mem, i, j, info, KernelStart>>
mapVars  == <<key, descriptors, MemoryMapSize, MapKey, MemoryMap, services, used, noise>>
bootVars == <<pc, loadVars, mapVars, failed>>

NoAddr == -1
Zero   == -1
Other  == -2

BootInit ==
  /\ pc = "image" /\ file \in Kernel /\ KernelBuffer = NoAddr
  /\ mem = [a \in Addr |-> Other] /\ i = 0 /\ j = 0
  /\ info = "garbage" /\ KernelStart = NoAddr
  /\ key = 0 /\ descriptors = 1 /\ MemoryMapSize = 0 /\ MapKey = 0
  /\ MemoryMap = NoAddr /\ services = TRUE /\ used = Firmware /\ failed = {} /\ noise = 0

---------------------------------------------------------------------------
(* The calls up to the ELF check, in order.                                *)
Then == [image |-> "filesystem", filesystem |-> "volume", volume |-> "open",
         open |-> "info_pool", info_pool |-> "info", info |-> "buffer",
         buffer |-> "read", read |-> "elf"]

(* What an allocation or its release does to the map: nothing, if the pool *)
(* has room, or it splits a free range in up to three, or joins three.     *)
ChangeMap ==
  \/ UNCHANGED <<key, descriptors>>
  \/ key' = key + 1 /\ descriptors' \in {d \in descriptors - 2 .. descriptors + 2 : d > 0}

(* Where AllocatePool may find n cells.                                    *)
FreeRange(b, n) == b .. b + n - 1 \subseteq Addr \ used

(* The copy of the file.                                                   *)
FileCells == KernelBuffer .. KernelBuffer + file.length - 1

(* The buffer of GetInfo is released before anything is copied, so only    *)
(* its effect on the map is kept.                                          *)
CallSucceeds(c) ==
  /\ pc = c /\ c \in DOMAIN Then /\ pc' = Then[c]
  /\ c = "info" => "info_pool" \notin failed
  /\ IF c \in {"info_pool", "info", "buffer"} THEN ChangeMap ELSE UNCHANGED <<key, descriptors>>
  /\ IF c = "buffer"
       THEN /\ KernelBuffer' \in {b \in Addr : FreeRange(b, file.length)}
            /\ used' = used \cup KernelBuffer' .. KernelBuffer' + file.length - 1
       ELSE UNCHANGED <<KernelBuffer, used>>
  /\ mem' = IF c = "read"
              THEN [a \in Addr |-> IF a \in FileCells THEN a - KernelBuffer ELSE mem[a]]
              ELSE mem
  /\ UNCHANGED <<file, i, j, info, KernelStart, MemoryMapSize, MapKey, MemoryMap, services, noise, failed>>

(* Every failure ends the program but that of the first AllocatePool,      *)
(* whose result is not looked at.                                          *)
CallFails(c) ==
  /\ pc = c /\ c \in DOMAIN Then
  /\ pc' = IF c = "info_pool" THEN Then[c] ELSE "returned"
  /\ failed' = failed \cup {c}
  /\ UNCHANGED <<loadVars, mapVars>>

(* GetInfo with the null pointer of a failed AllocatePool: UEFI has no     *)
(* error for it.  The file's size goes through address 0, if that works.   *)
InfoThroughNull ==
  /\ pc = "info" /\ "info_pool" \in failed /\ pc' \in {"buffer", "wild"}
  /\ UNCHANGED <<loadVars, mapVars, failed>>

CheckElf ==
  /\ pc = "elf" /\ pc' = IF file.valid THEN "segment" ELSE "returned"
  /\ UNCHANGED <<loadVars, mapVars, failed>>

---------------------------------------------------------------------------
(* The copy of the file still holds its cell k.                            *)
Intact(k) == mem[KernelBuffer + k] = k

(* The header of segment i, which is read again for every byte.            *)
Phdr == file.phdr[i + 1]

Wild == pc' = "wild" /\ UNCHANGED <<loadVars, mapVars, failed>>

HeaderLost ==
  /\ \/ pc \in {"segment", "entry"} /\ ~Intact(0)
     \/ pc = "segment" /\ i < Len(file.phdr) /\ ~Intact(i + 1)
     \/ pc \in {"copy", "zero"} /\ ~Intact(i + 1)
  /\ Wild

(* Mutant: the type of a segment is not looked at.                         *)
NextSegmentAnyType ==
  /\ pc = "segment" /\ Intact(0)
  /\ IF i = Len(file.phdr)
       THEN pc' = "gop" /\ UNCHANGED <<i, j>>
       ELSE Intact(i + 1) /\ j' = 0 /\ pc' = "copy" /\ UNCHANGED i
  /\ UNCHANGED <<file, KernelBuffer, mem, info, KernelStart, mapVars, failed>>

NextSegment ==
  /\ pc = "segment" /\ Intact(0)
  /\ IF i = Len(file.phdr)
       THEN pc' = "gop" /\ UNCHANGED <<i, j>>
       ELSE /\ Intact(i + 1) /\ j' = 0
            /\ IF Phdr.type = PT_LOAD THEN pc' = "copy" /\ UNCHANGED i ELSE i' = i + 1 /\ UNCHANGED pc
  /\ UNCHANGED <<file, KernelBuffer, mem, info, KernelStart, mapVars, failed>>

(* What a store to memory that is in use, the copy of the file apart, does *)
(* is undefined: it may also go unnoticed.                                 *)
StoreAstray(dest) == dest \in used \ FileCells /\ Wild

(* Mutant: the index is not advanced.                                      *)
StoreByteStuck(value) ==
  LET dest == Phdr.vaddr + j IN
  \/ StoreAstray(dest)
  \/ /\ mem' = [mem EXCEPT ![dest] = value]
     /\ UNCHANGED <<pc, file, KernelBuffer, i, j, info, KernelStart, mapVars, failed>>

(* One byte of a segment.                                                  *)
StoreByte(value) ==
  LET dest == Phdr.vaddr + j IN
  \/ StoreAstray(dest)
  \/ /\ mem' = [mem EXCEPT ![dest] = value] /\ j' = j + 1
     /\ UNCHANGED <<pc, file, KernelBuffer, i, info, KernelStart, mapVars, failed>>

CopyByte ==
  /\ pc = "copy" /\ Intact(i + 1) /\ j < Phdr.filesz
  /\ StoreByte(mem[KernelBuffer + Phdr.offset + j])

CopyDone ==
  /\ pc = "copy" /\ Intact(i + 1) /\ j >= Phdr.filesz /\ pc' = "zero"
  /\ UNCHANGED <<loadVars, mapVars, failed>>

(* Mutant: the rest of a segment is not cleared.                           *)
ZeroEndFile == Phdr.filesz

ZeroEnd == Phdr.memsz

ZeroByte ==
  /\ pc = "zero" /\ Intact(i + 1) /\ j < ZeroEnd
  /\ StoreByte(Zero)

ZeroDone ==
  /\ pc = "zero" /\ Intact(i + 1) /\ j >= ZeroEnd
  /\ pc' = "segment" /\ i' = i + 1
  /\ UNCHANGED <<file, KernelBuffer, mem, j, info, KernelStart, mapVars, failed>>

---------------------------------------------------------------------------
GopFound ==
  /\ pc = "gop" /\ pc' = "entry" /\ info' = "mode"
  /\ UNCHANGED <<file, KernelBuffer, mem, i, j, KernelStart, mapVars, failed>>

(* The pointer stays uninitialised and is followed all the same.           *)
GopMissing ==
  /\ pc = "gop" /\ pc' \in {"entry", "wild"} /\ failed' = failed \cup {"gop"}
  /\ UNCHANGED <<loadVars, mapVars>>

TakeEntry ==
  /\ pc = "entry" /\ Intact(0) /\ pc' = "map_size" /\ KernelStart' = file.entry
  /\ UNCHANGED <<file, KernelBuffer, mem, i, j, info, mapVars, failed>>

(* Mutant: no slack for what the allocation of the map adds.               *)
SlackNone == 0

Slack == 2

GetMapSize ==
  /\ pc = "map_size" /\ pc' = "map_pool" /\ MemoryMapSize' = descriptors + Slack
  /\ UNCHANGED <<loadVars, key, descriptors, MapKey, MemoryMap, services, used, noise, failed>>

(* The buffer for the map may lie over the segments.                       *)
AllocateMap ==
  /\ pc = "map_pool" /\ pc' = "map" /\ ChangeMap
  /\ MemoryMap' \in {b \in Addr : FreeRange(b, MapCells)}
  /\ used' = used \cup MemoryMap' .. MemoryMap' + MapCells - 1
  /\ UNCHANGED <<loadVars, MemoryMapSize, MapKey, services, noise, failed>>

(* Not checked, but UEFI has GetMemoryMap refuse a null pointer if the     *)
(* size it is given is large enough (EFI_INVALID_PARAMETER), and refuse    *)
(* the size otherwise.                                                     *)
AllocateMapFails ==
  /\ pc = "map_pool" /\ pc' = "map" /\ failed' = failed \cup {"map_pool"}
  /\ UNCHANGED <<loadVars, mapVars>>

MapOk == "map_pool" \notin failed /\ descriptors <= MemoryMapSize

(* The map is written to its buffer.                                       *)
GetMap ==
  /\ pc = "map"
  /\ IF MapOk
       THEN /\ pc' = "exit" /\ MapKey' = key
            /\ mem' = [a \in Addr |-> IF a \in MemoryMap .. MemoryMap + MapCells - 1 THEN Other ELSE mem[a]]
       ELSE pc' = "returned" /\ UNCHANGED <<MapKey, mem>>
  /\ UNCHANGED <<file, KernelBuffer, i, j, info, KernelStart, key, descriptors, MemoryMapSize,
                 MemoryMap, services, used, noise, failed>>

(* Mutant: the jump does not wait for ExitBootServices to succeed.         *)
ExitAnyway ==
  /\ pc = "exit" /\ pc' = "kernel" /\ services' = (MapKey # key)
  /\ UNCHANGED <<loadVars, key, descriptors, MemoryMapSize, MapKey, MemoryMap, used, noise, failed>>

(* The firmware refuses a stale key.  There is no second attempt.          *)
ExitBootServices ==
  /\ pc = "exit"
  /\ IF MapKey = key THEN pc' = "kernel" /\ services' = FALSE ELSE pc' = "returned" /\ UNCHANGED services
  /\ UNCHANGED <<loadVars, key, descriptors, MemoryMapSize, MapKey, MemoryMap, used, noise, failed>>

(* The firmware, in an event handler of its own: it changes the map, and   *)
(* may take a free cell for itself, a cell of a segment for example.       *)
FirmwareEvent ==
  /\ services /\ noise < MaxNoise /\ noise' = noise + 1
  /\ pc \notin {"returned", "wild"}
  /\ ChangeMap
  /\ \/ UNCHANGED <<used, mem>>
     \/ \E a \in Addr \ used : used' = used \cup {a} /\ mem' = [mem EXCEPT ![a] = Other]
  /\ UNCHANGED <<pc, file, KernelBuffer, i, j, info, KernelStart, MemoryMapSize, MapKey,
                 MemoryMap, services, failed>>

efi_main ==
  \/ \E c \in DOMAIN Then : CallSucceeds(c) \/ CallFails(c)
  \/ InfoThroughNull \/ CheckElf \/ HeaderLost \/ NextSegment \/ CopyByte \/ CopyDone \/ ZeroByte \/ ZeroDone
  \/ GopFound \/ GopMissing \/ TakeEntry \/ GetMapSize \/ AllocateMap \/ AllocateMapFails
  \/ GetMap \/ ExitBootServices

BootNext == efi_main \/ FirmwareEvent

BootSpec == BootInit /\ [][BootNext]_bootVars

(* Firmware calls return and the CPU keeps running.                        *)
BootFairSpec == BootSpec /\ WF_bootVars(efi_main)

---------------------------------------------------------------------------
Loaded == {k \in DOMAIN file.phdr : file.phdr[k].type = PT_LOAD}

Target(k) == file.phdr[k].vaddr .. file.phdr[k].vaddr + file.phdr[k].memsz - 1

(* The segments overlap neither the copy of the file nor one another.      *)
TargetsApart ==
  \A k \in Loaded :
    /\ Target(k) \cap FileCells = {}
    /\ \A m \in Loaded \ {k} : Target(k) \cap Target(m) = {}

(* No segment goes to memory that is in use, the copy of the file's        *)
(* included.                                                               *)
TargetsFree == \A k \in Loaded : Target(k) \cap used = {}

(* Cell n of segment k holds what its header says, or was given to someone *)
(* else by the firmware, which knows nothing of the segments.              *)
CellLoaded(k, n) ==
  LET h == file.phdr[k] IN
  \/ h.vaddr + n \in used
  \/ mem[h.vaddr + n] = IF n < h.filesz THEN h.offset + n ELSE Zero

(* A kernel that is started has its entry point, and every cell of its     *)
(* segments is as its header says, the part not in the file cleared, but   *)
(* for the cells that the firmware allocated: loading and leaving boot     *)
(* services spoil no other cell, if the segments overlap neither the copy  *)
(* of the file nor one another.                                            *)
LoadedIntact ==
  pc = "kernel" /\ TargetsApart =>
    /\ KernelStart = file.entry
    /\ \A k \in Loaded, n \in 0 .. MemSize - 1 : n < file.phdr[k].memsz => CellLoaded(k, n)

(* The bootloader's behaviour is undefined for no other reason than these: *)
(* the graphics protocol is missing, the first AllocatePool failed, or a   *)
(* segment goes to memory in use.  A failed allocation of the map is none. *)
WildOnlyWithCause == pc = "wild" => failed \cap {"gop", "info_pool"} # {} \/ ~TargetsFree

(* The kernel runs only when boot services have ended with the key of the  *)
(* current map, and after no failed call but the two that are not looked   *)
(* at: the graphics protocol's and the first AllocatePool.  The allocation *)
(* of the map is not looked at either, but its failure stops the program.  *)
KernelOnlyAfterExit ==
  pc = "kernel" => ~services /\ MapKey = key /\ failed \subseteq {"gop", "info_pool"}

(* The bootloader gives up only for a reason: a call failed, the file is   *)
(* no ELF file, or the firmware changed the map by itself.  In particular  *)
(* its own allocation of the map never makes the map too large for it, and *)
(* never makes the key stale.                                              *)
GivesUpWithReason == pc = "returned" => failed # {} \/ ~file.valid \/ noise > 0

(* The bootloader comes to an end.                                         *)
BootEnds == <>(pc \in {"kernel", "returned", "wild"})

===========================================================================
