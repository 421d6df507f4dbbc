-------------------------- MODULE BootloaderProofs --------------------------
(* Theorems about Bootloader, for every kernel file, size and layout of    *)
(* memory, and any number of changes of the map by the firmware.           *)
EXTENDS Bootloader, TLAPS

(* What is known of the firmware's memory map.  The size asked for leaves  *)
(* room for the two descriptors that allocating the map may add, and its   *)
(* key stays current, unless the firmware interferes.                      *)
MapInv ==
  /\ key \in Nat /\ descriptors \in Nat /\ MemoryMapSize \in Nat /\ noise \in Nat
  /\ pc = "map_pool" /\ noise = 0 => MemoryMapSize = descriptors + Slack
  /\ pc = "map" /\ noise = 0 => descriptors <= MemoryMapSize
  /\ pc = "exit" /\ noise = 0 => MapKey = key
  /\ pc = "kernel" => ~services /\ MapKey = key

(* A failed call ends the program.  The failures that are not looked at    *)
(* are the graphics protocol's, the first allocation's, and that of the    *)
(* map's, which the next call turns into a failure of its own.             *)
FailInv ==
  \A c \in failed :
    \/ c \in {"gop", "info_pool"} \/ pc = "returned"
    \/ c = "map_pool" /\ pc = "map"

IInv == MapInv /\ FailInv /\ GivesUpWithReason

(* The places the calls before the ELF check lead to.                      *)
LEMMA ThenPlaces ==
  ASSUME NEW c \in DOMAIN Then
  PROVE  /\ c \notin {"returned", "map_pool", "map", "exit", "kernel", "gop"}
         /\ Then[c] \notin {"returned", "map_pool", "map", "exit", "kernel"}
  BY DEF Then

(* An allocation adds at most two descriptors to the map.                  *)
LEMMA AllocateGrows ==
  ASSUME MapInv, ChangeMap
  PROVE  /\ key' \in Nat /\ descriptors' \in Nat
         /\ descriptors' <= descriptors + 2
  BY DEF MapInv, ChangeMap

(* The invariant holds initially.                                          *)
LEMMA InitIInv == BootInit => IInv
  BY DEF BootInit, IInv, MapInv, FailInv, GivesUpWithReason

(* Steps that neither fail nor touch the map, between places that the      *)
(* invariant says nothing of.                                              *)
LEMMA QuietStep ==
  ASSUME IInv, UNCHANGED <<mapVars, failed>>, UNCHANGED file,
         pc' \notin {"returned", "map_pool", "map", "exit", "kernel"},
         pc \notin {"returned", "map"}
  PROVE  IInv'
  BY DEF IInv, MapInv, FailInv, GivesUpWithReason, mapVars

(* Every step of the bootloader and the firmware preserves the invariant.  *)
LEMMA NextIInv == IInv /\ [BootNext]_bootVars => IInv'
<1> SUFFICES ASSUME IInv, [BootNext]_bootVars PROVE IInv'
  OBVIOUS
<1>1. ASSUME NEW c \in DOMAIN Then, CallSucceeds(c) PROVE IInv'
  <2>1. pc = c /\ pc' = Then[c]
    BY <1>1 DEF CallSucceeds
  <2>2. UNCHANGED <<file, MemoryMapSize, MapKey, services, noise, failed>>
    BY <1>1 DEF CallSucceeds
  <2>3. key' \in Nat /\ descriptors' \in Nat
    <3>1. CASE ChangeMap
      BY <3>1, AllocateGrows DEF IInv
    <3>2. CASE UNCHANGED <<key, descriptors>>
      BY <3>2 DEF IInv, MapInv
    <3> QED BY <1>1, <3>1, <3>2 DEF CallSucceeds
  <2> QED BY <2>1, <2>2, <2>3, ThenPlaces DEF IInv, MapInv, FailInv, GivesUpWithReason
<1>2. ASSUME NEW c \in DOMAIN Then, CallFails(c) PROVE IInv'
  <2>1. /\ pc = c /\ failed' = failed \cup {c} /\ UNCHANGED <<file, mapVars>>
        /\ pc' = IF c = "info_pool" THEN "info" ELSE "returned"
    BY <1>2 DEF CallFails, Then, loadVars
  <2> QED BY <2>1, ThenPlaces DEF IInv, MapInv, FailInv, GivesUpWithReason, mapVars
<1>3. CASE CheckElf
  BY <1>3 DEF CheckElf, IInv, MapInv, FailInv, GivesUpWithReason, mapVars, loadVars
<1>4. CASE HeaderLost
  BY <1>4, QuietStep DEF HeaderLost, Wild, loadVars
<1>5. CASE NextSegment
  BY <1>5, QuietStep DEF NextSegment
<1>6. CASE CopyByte \/ CopyDone
  BY <1>6, QuietStep DEF CopyByte, CopyDone, StoreByte, StoreAstray, Wild, loadVars
<1>7. CASE ZeroByte \/ ZeroDone
  BY <1>7, QuietStep DEF ZeroByte, ZeroDone, StoreByte, StoreAstray, Wild, loadVars
<1>8. CASE GopFound
  BY <1>8, QuietStep DEF GopFound
<1>9. CASE GopMissing
  BY <1>9 DEF GopMissing, IInv, MapInv, FailInv, GivesUpWithReason, mapVars, loadVars
<1>10. CASE TakeEntry
  BY <1>10, QuietStep DEF TakeEntry
<1>11. CASE GetMapSize
  BY <1>11 DEF GetMapSize, Slack, IInv, MapInv, FailInv, GivesUpWithReason, loadVars
<1>12. CASE AllocateMap
  BY <1>12, AllocateGrows DEF AllocateMap, Slack, IInv, MapInv, FailInv, GivesUpWithReason, loadVars
<1>13. CASE AllocateMapFails
  BY <1>13 DEF AllocateMapFails, Slack, IInv, MapInv, FailInv, GivesUpWithReason, loadVars, mapVars
<1>14. CASE GetMap
  BY <1>14 DEF GetMap, MapOk, IInv, MapInv, FailInv, GivesUpWithReason, loadVars
<1>15. CASE ExitBootServices
  BY <1>15 DEF ExitBootServices, IInv, MapInv, FailInv, GivesUpWithReason, loadVars
<1>16. CASE FirmwareEvent
  <2>1. /\ noise' = noise + 1 /\ services /\ UNCHANGED <<pc, file, MemoryMapSize, MapKey, services, failed>>
        /\ key' \in Nat /\ descriptors' \in Nat
    BY <1>16, AllocateGrows DEF FirmwareEvent, loadVars, IInv
  <2> QED BY <2>1 DEF IInv, MapInv, FailInv, GivesUpWithReason
<1>17. CASE InfoThroughNull
  BY <1>17, QuietStep DEF InfoThroughNull, loadVars
<1>18. CASE UNCHANGED bootVars
  BY <1>18 DEF bootVars, loadVars, mapVars, IInv, MapInv, FailInv, GivesUpWithReason
<1> QED
  BY <1>1, <1>2, <1>3, <1>4, <1>5, <1>6, <1>7, <1>8, <1>9, <1>10, <1>11, <1>12, <1>13, <1>14,
     <1>15, <1>16, <1>17, <1>18 DEF BootNext, efi_main

(* The kernel is started only after boot services ended with a current map *)
(* key and no failure but the graphics protocol's and the first            *)
(* allocation's.                                                           *)
THEOREM KernelStartsSafely == BootSpec => []KernelOnlyAfterExit
<1>1. IInv => KernelOnlyAfterExit
  BY DEF IInv, MapInv, FailInv, KernelOnlyAfterExit
<1> QED BY <1>1, InitIInv, NextIInv, PTL DEF BootSpec

(* The bootloader never defeats itself: when it gives up, a call failed,   *)
(* the file is no ELF file, or the firmware changed the map by itself.     *)
THEOREM NeverDefeatsItself == BootSpec => []GivesUpWithReason
<1>1. IInv => GivesUpWithReason
  BY DEF IInv
<1> QED BY <1>1, InitIInv, NextIInv, PTL DEF BootSpec

---------------------------------------------------------------------------
(* Loading.  The places after the file was read and before the end.        *)
Holding == {"elf", "segment", "copy", "zero", "gop", "entry", "map_size", "map_pool", "map", "exit", "kernel"}

(* The places where the copy of the file is still read.                    *)
Reading == {"elf", "segment", "copy", "zero", "gop", "entry"}

(* The places after the last segment.                                      *)
AllCopied == {"gop", "entry", "map_size", "map_pool", "map", "exit", "kernel"}

(* The segments do not overlap the copy of the file.                       *)
FileApart == \A k \in Loaded : Target(k) \cap FileCells = {}

(* The first n cells of segment k are as its header says, or taken.        *)
SegmentIn(k, n) == \A m \in 0 .. n - 1 : CellLoaded(k, m)

(* Memory and loop indices, whatever the segments overwrite.  The firmware *)
(* knows of the copy of the file and of the map's buffer, and so gives     *)
(* neither to anyone else.                                                 *)
PlaceInv ==
  /\ file \in Kernel /\ mem \in [Addr -> Int] /\ j \in Nat /\ used \subseteq Addr
  /\ i \in 0 .. Len(file.phdr)
  /\ pc \in DOMAIN Then \cup {"elf"} => i = 0
  /\ pc \in Holding \cup {"read"} => KernelBuffer \in Addr /\ FileCells \subseteq used
  /\ pc = "map" /\ "map_pool" \notin failed => MemoryMap .. MemoryMap + MapCells - 1 \subseteq used
  /\ pc \in {"copy", "zero"} => i < Len(file.phdr) /\ Phdr.type = PT_LOAD
  /\ pc = "copy" => j <= Phdr.filesz
  /\ pc = "zero" => j >= Phdr.filesz /\ j <= Phdr.memsz
  /\ pc \in AllCopied => i = Len(file.phdr)
  /\ pc \in {"map_size", "map_pool", "map", "exit", "kernel"} => KernelStart = file.entry

(* The copy of the file stays as it was read, unless a segment goes over   *)
(* it.                                                                     *)
FileInv == pc \in Reading /\ FileApart => \A k \in 0 .. file.length - 1 : Intact(k)

(* The segments stay as they were copied, but for the cells given away.    *)
SegInv ==
  pc \in Holding /\ TargetsApart =>
    /\ \A k \in Loaded : k <= i => SegmentIn(k, file.phdr[k].memsz)
    /\ pc \in {"copy", "zero"} => SegmentIn(i + 1, j)

LoadInv == PlaceInv /\ FileInv /\ SegInv /\ WildOnlyWithCause

(* What is assumed of a kernel file, and so of the file being loaded.      *)
LEMMA FileFacts ==
  ASSUME file \in Kernel
  PROVE  /\ MemSize \in Nat /\ file.length \in 1 .. MemSize
         /\ Len(file.phdr) \in Nat /\ Len(file.phdr) < file.length
         /\ DOMAIN file.phdr = 1 .. Len(file.phdr)
         /\ \A k \in 1 .. Len(file.phdr) :
              /\ file.phdr[k].offset \in Nat /\ file.phdr[k].vaddr \in Nat
              /\ file.phdr[k].filesz \in Nat /\ file.phdr[k].memsz \in Nat
              /\ file.phdr[k].offset + file.phdr[k].filesz <= file.length
              /\ file.phdr[k].filesz <= file.phdr[k].memsz
              /\ file.phdr[k].vaddr + file.phdr[k].memsz <= MemSize
<1>1. MemSize \in Nat /\ file.length \in 1 .. MemSize
  BY KernelAssumption, MemoryAssumption
<1>2. Len(file.phdr) \in 0 .. file.length - 1 /\ DOMAIN file.phdr = 1 .. Len(file.phdr)
  BY KernelAssumption
<1>3. ASSUME NEW k \in 1 .. Len(file.phdr)
      PROVE  /\ {file.phdr[k].offset, file.phdr[k].vaddr, file.phdr[k].filesz, file.phdr[k].memsz} \subseteq Nat
             /\ file.phdr[k].offset + file.phdr[k].filesz <= file.length
             /\ file.phdr[k].filesz <= file.phdr[k].memsz
             /\ file.phdr[k].vaddr + file.phdr[k].memsz <= MemSize
  BY <1>2, KernelAssumption, Zenon
<1> QED BY <1>1, <1>2, <1>3

(* Where the copy of the file lies.                                        *)
LEMMA BufferFacts ==
  ASSUME PlaceInv, pc \in Holding \cup {"read"}, NEW k \in 0 .. file.length - 1
  PROVE  KernelBuffer + k \in Addr /\ KernelBuffer + k \in FileCells
<1>1. file.length \in Nat /\ KernelBuffer \in Int
  BY FileFacts, MemoryAssumption DEF PlaceInv, Addr
<1>2. KernelBuffer + k \in FileCells
  BY <1>1 DEF FileCells
<1>3. FileCells \subseteq Addr
  BY DEF PlaceInv
<1> QED BY <1>2, <1>3

(* Where the cells of a segment go.                                        *)
LEMMA TargetFacts ==
  ASSUME file \in Kernel, NEW k \in Loaded, NEW m \in 0 .. file.phdr[k].memsz - 1
  PROVE  file.phdr[k].vaddr + m \in Target(k) /\ file.phdr[k].vaddr + m \in Addr
<1>1. /\ k \in 1 .. Len(file.phdr) /\ file.phdr[k].vaddr \in Nat /\ file.phdr[k].memsz \in Nat
      /\ file.phdr[k].vaddr + file.phdr[k].memsz <= MemSize /\ MemSize \in Nat
  BY FileFacts DEF Loaded
<1>2. PICK v \in Nat, z \in Nat : v = file.phdr[k].vaddr /\ z = file.phdr[k].memsz
  BY <1>1
<1>3. m \in 0 .. z - 1 /\ v + z <= MemSize
  BY <1>1, <1>2
<1>4. v + m \in v .. v + z - 1 /\ v + m \in 0 .. MemSize - 1
  BY <1>1, <1>3
<1> QED BY <1>2, <1>4 DEF Target, Addr

(* What does not change while the file and its copy stay where they are.   *)
LEMMA SameFile ==
  ASSUME UNCHANGED <<file, KernelBuffer>>
  PROVE  /\ Loaded' = Loaded /\ FileCells' = FileCells
         /\ TargetsApart' = TargetsApart /\ FileApart' = FileApart
  BY DEF TargetsApart, FileApart, Loaded, Target, FileCells

(* Steps that store nothing to memory.                                     *)
LEMMA NoStore ==
  ASSUME UNCHANGED <<file, KernelBuffer, mem, used>>
  PROVE  /\ TargetsFree' = TargetsFree
         /\ \A k : Intact(k)' = Intact(k)
         /\ \A k, n : SegmentIn(k, n)' = SegmentIn(k, n)
  BY DEF TargetsFree, Loaded, Target, Intact, SegmentIn, CellLoaded

(* Steps that store only to memory which is, or becomes, in use.           *)
LEMMA StoreToUsed ==
  ASSUME file \in Kernel, UNCHANGED <<file, KernelBuffer>>, used \subseteq used',
         \A a \in Addr : a \in used' \/ mem'[a] = mem[a]
  PROVE  /\ TargetsFree' => TargetsFree
         /\ \A k \in Loaded : SegmentIn(k, file.phdr[k].memsz) => SegmentIn(k, file.phdr[k].memsz)'
<1>1. TargetsFree' => TargetsFree
  BY DEF TargetsFree, Loaded, Target
<1>2. ASSUME NEW k \in Loaded, SegmentIn(k, file.phdr[k].memsz), NEW m \in 0 .. file.phdr[k].memsz - 1
      PROVE  CellLoaded(k, m)'
  <2>1. PICK a \in Addr : a = file.phdr[k].vaddr + m
    BY <1>2, TargetFacts
  <2>2. a \in used \/ mem[a] = IF m < file.phdr[k].filesz THEN file.phdr[k].offset + m ELSE Zero
    BY <1>2, <2>1 DEF SegmentIn, CellLoaded
  <2>3. a \in used' \/ mem'[a] = IF m < file.phdr[k].filesz THEN file.phdr[k].offset + m ELSE Zero
    BY <2>2
  <2> QED BY <2>1, <2>3 DEF CellLoaded
<1>3. ASSUME NEW k \in Loaded, SegmentIn(k, file.phdr[k].memsz)
      PROVE  SegmentIn(k, file.phdr[k].memsz)'
  BY <1>2, <1>3 DEF SegmentIn
<1> QED BY <1>1, <1>3

(* What a step of a loop works on.                                         *)
LEMMA LoopFacts ==
  ASSUME LoadInv, pc \in {"copy", "zero"}
  PROVE  /\ i + 1 \in 1 .. Len(file.phdr) /\ Phdr = file.phdr[i + 1] /\ i \in Nat /\ j \in Nat
         /\ file \in Kernel /\ mem \in [Addr -> Int] /\ i + 1 \in Loaded
         /\ MemSize \in Nat /\ Phdr.offset \in Nat /\ Phdr.vaddr \in Nat
         /\ Phdr.filesz \in Nat /\ Phdr.memsz \in Nat
         /\ Phdr.vaddr + Phdr.memsz <= MemSize /\ Phdr.filesz <= Phdr.memsz
<1>1. /\ i + 1 \in 1 .. Len(file.phdr) /\ Phdr = file.phdr[i + 1] /\ i \in Nat /\ j \in Nat
      /\ file \in Kernel /\ mem \in [Addr -> Int] /\ Phdr.type = PT_LOAD
  BY FileFacts DEF LoadInv, PlaceInv, Phdr
<1>2. /\ MemSize \in Nat /\ Phdr.offset \in Nat /\ Phdr.vaddr \in Nat /\ Phdr.filesz \in Nat /\ Phdr.memsz \in Nat
      /\ Phdr.vaddr + Phdr.memsz <= MemSize /\ Phdr.filesz <= Phdr.memsz
  BY <1>1, FileFacts
<1>3. i + 1 \in Loaded
  BY <1>1, FileFacts DEF Loaded
<1> QED BY <1>1, <1>2, <1>3

(* Storing a byte of a segment: the cell is neither in the copy of the     *)
(* file nor in another segment, if the segments are apart, and an astray   *)
(* store hits memory in use.                                               *)
LEMMA StoreByteInv ==
  ASSUME LoadInv, pc \in {"copy", "zero"}, j < Phdr.memsz, pc = "copy" => j < Phdr.filesz,
         NEW value, value \in Int, StoreByte(value),
         FileApart => value = IF j < Phdr.filesz THEN Phdr.offset + j ELSE Zero
  PROVE  LoadInv'
<1>1. /\ i + 1 \in 1 .. Len(file.phdr) /\ Phdr = file.phdr[i + 1] /\ i \in Nat /\ j \in Nat
      /\ file \in Kernel /\ mem \in [Addr -> Int] /\ i + 1 \in Loaded
  BY LoopFacts
<1>2. /\ MemSize \in Nat /\ Phdr.offset \in Nat /\ Phdr.vaddr \in Nat /\ Phdr.filesz \in Nat /\ Phdr.memsz \in Nat
      /\ Phdr.vaddr + Phdr.memsz <= MemSize /\ Phdr.filesz <= Phdr.memsz
  BY LoopFacts
<1>3. j \in 0 .. file.phdr[i + 1].memsz - 1
  <2>1. PICK z \in Nat : z = Phdr.memsz
    BY <1>2
  <2>2. j \in 0 .. z - 1
    BY <1>1, <2>1
  <2> QED BY <1>1, <2>1, <2>2
<1>4. PICK dest \in Addr : dest = Phdr.vaddr + j /\ dest \in Target(i + 1)
  BY <1>1, <1>3, TargetFacts
<1>5. CASE StoreAstray(dest)
  <2>1. dest \in used /\ pc' = "wild" /\ UNCHANGED <<loadVars, mapVars, failed>>
    BY <1>5 DEF StoreAstray, Wild
  <2>2. ~TargetsFree
    BY <1>1, <1>4, <2>1 DEF TargetsFree
  <2>3. ~TargetsFree'
    BY <2>1, <2>2, NoStore DEF loadVars, mapVars
  <2>4. PlaceInv'
    BY <2>1 DEF LoadInv, PlaceInv, Holding, AllCopied, Then, loadVars, mapVars
  <2> QED BY <2>1, <2>3, <2>4 DEF LoadInv, FileInv, SegInv, WildOnlyWithCause, Holding, Reading
<1>6. CASE /\ mem' = [mem EXCEPT ![dest] = value] /\ j' = j + 1
           /\ UNCHANGED <<pc, file, KernelBuffer, i, info, KernelStart, mapVars, failed>>
  <2>1. Phdr' = Phdr /\ UNCHANGED <<used, MemoryMap>>
    BY <1>6 DEF Phdr, mapVars
  <2>2. Loaded' = Loaded /\ FileCells' = FileCells /\ TargetsApart' = TargetsApart /\ FileApart' = FileApart
    BY <1>6, SameFile
  <2>3. PlaceInv'
    <3>1. mem' \in [Addr -> Int]
      BY <1>1, <1>6
    <3>2. j' \in Nat /\ (pc' = "copy" => j' <= Phdr'.filesz)
             /\ (pc' = "zero" => j' >= Phdr'.filesz /\ j' <= Phdr'.memsz)
      BY <1>1, <1>2, <1>6, <2>1, SMTT(30) DEF LoadInv, PlaceInv
    <3>3. pc' \in Holding \cup {"read"} => KernelBuffer' \in Addr /\ FileCells' \subseteq used'
      BY <1>6, <2>1, <2>2 DEF LoadInv, PlaceInv
    <3> QED BY <1>6, <2>1, <3>1, <3>2, <3>3 DEF LoadInv, PlaceInv
  <2>4. FileInv'
    <3> SUFFICES ASSUME FileApart, NEW k \in 0 .. file.length - 1 PROVE Intact(k)'
      BY <1>6, <2>2 DEF FileInv
    <3>1. KernelBuffer + k \in Addr /\ KernelBuffer + k # dest
      BY <1>1, <1>4, BufferFacts DEF FileApart, LoadInv, Holding
    <3>2. Intact(k)
      BY DEF LoadInv, FileInv, Reading
    <3> QED BY <1>1, <1>6, <3>1, <3>2 DEF Intact
  <2>5. SegInv'
    <3>1. SUFFICES ASSUME TargetsApart
                   PROVE  /\ \A k \in Loaded : k <= i => SegmentIn(k, file.phdr[k].memsz)'
                          /\ SegmentIn(i + 1, j)'
      BY <1>6, <2>2 DEF SegInv
    <3>2. /\ \A k \in Loaded : k <= i => SegmentIn(k, file.phdr[k].memsz)
          /\ SegmentIn(i + 1, j)
      BY <3>1 DEF LoadInv, SegInv, Holding
    <3>3. ASSUME NEW k \in Loaded, k <= i, NEW m \in 0 .. file.phdr[k].memsz - 1
          PROVE  CellLoaded(k, m)'
      <4>1. PICK a \in Addr : a = file.phdr[k].vaddr + m /\ a \in Target(k)
        BY <1>1, <3>3, TargetFacts
      <4>2. k # i + 1 /\ k \in Int
        BY <1>1, <3>3, FileFacts DEF Loaded
      <4>3. a # dest
        BY <1>1, <1>4, <3>1, <4>1, <4>2 DEF TargetsApart
      <4>4. CellLoaded(k, m)
        BY <3>2, <3>3 DEF SegmentIn
      <4> QED BY <1>1, <1>6, <2>1, <4>1, <4>3, <4>4 DEF CellLoaded
    <3>4. ASSUME NEW k \in Loaded, k <= i PROVE SegmentIn(k, file.phdr[k].memsz)'
      BY <1>6, <3>3, <3>4 DEF SegmentIn
    <3>5. SegmentIn(i + 1, j)'
      <4>1. SUFFICES ASSUME NEW m \in 0 .. j PROVE CellLoaded(i + 1, m)'
        BY <1>1, <1>6 DEF SegmentIn
      <4>2. CASE m = j
        <5>1. FileApart
          BY <3>1 DEF FileApart, TargetsApart
        <5>2. mem'[dest] = IF m < Phdr.filesz THEN Phdr.offset + m ELSE Zero
          BY <1>1, <1>6, <4>2, <5>1
        <5> QED BY <1>1, <1>4, <1>6, <4>2, <5>2 DEF CellLoaded
      <4>3. CASE m # j
        <5>1. m \in 0 .. j - 1 /\ Phdr.vaddr + m \in Addr /\ Phdr.vaddr + m # dest
          <6>1. PICK v \in Nat, z \in Nat : v = Phdr.vaddr /\ z = Phdr.memsz
            BY <1>2
          <6>2. v + z <= MemSize /\ j < z /\ MemSize \in Nat /\ j \in Nat /\ m \in 0 .. j
            BY <1>1, <1>2, <6>1
          <6>3. m \in 0 .. j - 1 /\ v + m \in 0 .. MemSize - 1 /\ v + m # v + j
            BY <4>3, <6>2
          <6> QED BY <1>4, <6>1, <6>3 DEF Addr
        <5>2. CellLoaded(i + 1, m)
          BY <3>2, <5>1 DEF SegmentIn
        <5> QED BY <1>1, <1>6, <2>1, <5>1, <5>2 DEF CellLoaded
      <4> QED BY <4>2, <4>3
    <3> QED BY <3>4, <3>5
  <2>6. WildOnlyWithCause'
    BY <1>6 DEF WildOnlyWithCause
  <2> QED BY <2>3, <2>4, <2>5, <2>6 DEF LoadInv
<1> QED BY <1>4, <1>5, <1>6 DEF StoreByte

(* The invariant holds initially.                                          *)
LEMMA InitLoadInv == BootInit => LoadInv
<1> SUFFICES ASSUME BootInit PROVE LoadInv
  OBVIOUS
<1>1. file \in Kernel /\ i = 0 /\ j = 0 /\ pc = "image" /\ used \subseteq Addr
  BY MemoryAssumption DEF BootInit
<1>2. mem \in [Addr -> Int]
  BY DEF BootInit, Other
<1>3. i \in 0 .. Len(file.phdr)
  BY <1>1, FileFacts
<1> QED BY <1>1, <1>2, <1>3 DEF LoadInv, PlaceInv, FileInv, SegInv, WildOnlyWithCause, Holding, Reading, AllCopied

(* Steps after loading that store only to memory in use leave what is      *)
(* loaded alone.                                                           *)
LEMMA AfterLoading ==
  ASSUME LoadInv, UNCHANGED <<file, KernelBuffer, i, j>>, used \subseteq used', used' \subseteq Addr,
         pc \in {"gop", "entry", "map_size", "map_pool", "map", "exit"},
         pc' \in AllCopied \cup {"returned"},
         mem' \in [Addr -> Int], \A a \in Addr : a \in used' \/ mem'[a] = mem[a],
         pc' \in Reading => mem' = mem,
         pc' = "map" /\ "map_pool" \notin failed' => MemoryMap' .. MemoryMap' + MapCells - 1 \subseteq used',
         pc' \in {"entry", "gop"} => pc = "gop",
         pc' \in {"map_size", "map_pool", "map", "exit", "kernel"} => KernelStart' = file.entry
  PROVE  LoadInv'
<1>1. Loaded' = Loaded /\ FileCells' = FileCells /\ TargetsApart' = TargetsApart /\ FileApart' = FileApart
  BY SameFile
<1>2. file \in Kernel /\ pc \in Holding /\ pc \in AllCopied /\ i = Len(file.phdr)
  BY DEF LoadInv, PlaceInv, Holding, AllCopied
<1>3. PlaceInv'
  <2>1. pc' \notin DOMAIN Then /\ pc' \notin {"elf", "copy", "zero", "read"}
    BY DEF AllCopied, Then
  <2>2. KernelBuffer' \in Addr /\ FileCells' \subseteq used'
    BY <1>1, <1>2 DEF LoadInv, PlaceInv
  <2> QED BY <1>1, <1>2, <2>1, <2>2 DEF LoadInv, PlaceInv
<1>4. FileInv'
  BY <1>1 DEF LoadInv, FileInv, Intact, Reading, AllCopied
<1>5. SegInv'
  <2>1. \A k \in Loaded : SegmentIn(k, file.phdr[k].memsz) => SegmentIn(k, file.phdr[k].memsz)'
    BY <1>2, StoreToUsed
  <2>2. pc' \notin {"copy", "zero"} /\ (pc' \in Holding => pc \in Holding)
    BY <1>2 DEF AllCopied
  <2> QED BY <1>1, <1>2, <2>1, <2>2 DEF LoadInv, SegInv
<1>6. WildOnlyWithCause'
  BY DEF WildOnlyWithCause, AllCopied
<1> QED BY <1>3, <1>4, <1>5, <1>6 DEF LoadInv

(* An event of the firmware takes only cells that are not in use, so that  *)
(* it spoils neither the copy of the file nor the buffer of the map.       *)
LEMMA EventLoad ==
  ASSUME LoadInv, UNCHANGED <<pc, file, KernelBuffer, i, j, KernelStart, MemoryMap, failed>>,
         used \subseteq used', used' \subseteq Addr, mem' \in [Addr -> Int],
         \A a \in Addr : a \in used' \ used \/ mem'[a] = mem[a]
  PROVE  LoadInv'
<1>1. Loaded' = Loaded /\ FileCells' = FileCells /\ TargetsApart' = TargetsApart /\ FileApart' = FileApart
  BY SameFile
<1>2. file \in Kernel /\ Phdr' = Phdr
  BY DEF LoadInv, PlaceInv, Phdr
<1>3. /\ TargetsFree' => TargetsFree
      /\ \A k \in Loaded : SegmentIn(k, file.phdr[k].memsz) => SegmentIn(k, file.phdr[k].memsz)'
  BY <1>2, StoreToUsed
<1>4. PlaceInv'
  <2>1. pc' \in Holding \cup {"read"} => KernelBuffer' \in Addr /\ FileCells' \subseteq used'
    BY <1>1 DEF LoadInv, PlaceInv
  <2>2. pc' = "map" /\ "map_pool" \notin failed' => MemoryMap' .. MemoryMap' + MapCells - 1 \subseteq used'
    BY DEF LoadInv, PlaceInv
  <2> QED BY <1>2, <2>1, <2>2 DEF LoadInv, PlaceInv
<1>5. FileInv'
  <2> SUFFICES ASSUME FileApart, pc \in Reading, NEW k \in 0 .. file.length - 1 PROVE Intact(k)'
    BY <1>1 DEF FileInv
  <2>1. KernelBuffer + k \in Addr /\ KernelBuffer + k \in FileCells /\ FileCells \subseteq used
    BY BufferFacts DEF LoadInv, PlaceInv, Reading, Holding
  <2>2. Intact(k)
    BY DEF LoadInv, FileInv
  <2> QED BY <2>1, <2>2 DEF Intact
<1>6. SegInv'
  <2> SUFFICES ASSUME TargetsApart, pc \in Holding
               PROVE  /\ \A k \in Loaded : k <= i => SegmentIn(k, file.phdr[k].memsz)'
                      /\ pc \in {"copy", "zero"} => SegmentIn(i + 1, j)'
    BY <1>1 DEF SegInv
  <2>1. \A k \in Loaded : k <= i => SegmentIn(k, file.phdr[k].memsz)'
    BY <1>3 DEF LoadInv, SegInv
  <2>2. ASSUME pc \in {"copy", "zero"}, NEW m \in 0 .. j - 1 PROVE CellLoaded(i + 1, m)'
    <3>1. /\ i + 1 \in Loaded /\ Phdr = file.phdr[i + 1] /\ j \in Nat /\ Phdr.memsz \in Nat /\ Phdr.filesz \in Nat
          /\ Phdr.filesz <= Phdr.memsz
      BY <2>2, LoopFacts
    <3>2. j <= Phdr.memsz
      BY <2>2, <3>1 DEF LoadInv, PlaceInv
    <3>3. m \in 0 .. file.phdr[i + 1].memsz - 1
      <4>1. PICK z \in Nat : z = Phdr.memsz
        BY <3>1
      <4>2. m \in 0 .. z - 1
        BY <2>2, <3>1, <3>2, <4>1
      <4> QED BY <3>1, <4>1, <4>2
    <3>4. PICK a \in Addr : a = file.phdr[i + 1].vaddr + m
      BY <1>2, <3>1, <3>3, TargetFacts
    <3>5. CellLoaded(i + 1, m)
      BY <2>2 DEF LoadInv, SegInv, SegmentIn
    <3> QED BY <3>4, <3>5 DEF CellLoaded
  <2>3. ASSUME pc \in {"copy", "zero"} PROVE SegmentIn(i + 1, j)'
    BY <2>2, <2>3 DEF SegmentIn
  <2> QED BY <2>1, <2>3
<1>7. WildOnlyWithCause'
  BY <1>3 DEF LoadInv, WildOnlyWithCause
<1> QED BY <1>4, <1>5, <1>6, <1>7 DEF LoadInv

(* A call before the ELF check that succeeds: the last of them reads the   *)
(* file to where the one before it made room.                              *)
LEMMA CallSucceedsLoad ==
  ASSUME LoadInv, NEW c \in DOMAIN Then, CallSucceeds(c)
  PROVE  LoadInv'
<1>1. /\ pc = c /\ pc' = Then[c] /\ UNCHANGED <<file, i, j>>
      /\ pc' \in {"filesystem", "volume", "open", "info_pool", "info", "buffer", "read", "elf"}
  BY DEF CallSucceeds, Then
<1>2. file \in Kernel /\ mem \in [Addr -> Int] /\ i = 0 /\ used \subseteq Addr
  BY <1>1 DEF LoadInv, PlaceInv
<1>3. CASE c = "read"
  <2>1. /\ pc' = "elf" /\ UNCHANGED <<KernelBuffer, used, failed>>
        /\ mem' = [a \in Addr |-> IF a \in FileCells THEN a - KernelBuffer ELSE mem[a]]
    BY <1>1, <1>3 DEF CallSucceeds, Then
  <2>2. KernelBuffer \in Addr /\ KernelBuffer \in Int /\ FileCells \subseteq used
    BY <1>1, <1>3 DEF LoadInv, PlaceInv, Addr
  <2>3. mem' \in [Addr -> Int]
    <3> SUFFICES ASSUME NEW a \in Addr
                 PROVE  (IF a \in FileCells THEN a - KernelBuffer ELSE mem[a]) \in Int
      BY <2>1
    <3> QED BY <1>2, <2>2 DEF Addr
  <2>4. FileCells' = FileCells
    BY <1>1, <2>1 DEF FileCells
  <2>5. PlaceInv'
    BY <1>1, <1>2, <2>1, <2>2, <2>3, <2>4 DEF LoadInv, PlaceInv, Holding, AllCopied, Then
  <2>6. \A k \in 0 .. file.length - 1 : Intact(k)'
    <3> SUFFICES ASSUME NEW k \in 0 .. file.length - 1 PROVE mem'[KernelBuffer + k] = k
      BY <2>1 DEF Intact
    <3>1. KernelBuffer + k \in Addr /\ KernelBuffer + k \in FileCells
      BY <1>1, <1>3, BufferFacts DEF LoadInv
    <3>2. (KernelBuffer + k) - KernelBuffer = k
      BY <2>2
    <3> QED BY <2>1, <3>1, <3>2
  <2>7. \A k \in Loaded' : ~(k <= i')
    BY <1>1, <1>2, FileFacts DEF Loaded
  <2> QED BY <1>1, <2>1, <2>5, <2>6, <2>7 DEF LoadInv, FileInv, SegInv, WildOnlyWithCause
<1>4. CASE c # "read"
  <2>1. /\ mem' = mem /\ pc' \notin Holding /\ pc' \notin Reading
        /\ pc' \notin {"wild", "copy", "zero"} /\ pc' \in DOMAIN Then
    BY <1>1, <1>4 DEF CallSucceeds, Then, Holding, Reading
  <2>2. /\ used' \subseteq Addr
        /\ pc' = "read" => KernelBuffer' \in Addr /\ FileCells' \subseteq used'
    <3>1. CASE c = "buffer"
      <4>1. /\ KernelBuffer' \in {b \in Addr : FreeRange(b, file.length)}
            /\ used' = used \cup KernelBuffer' .. KernelBuffer' + file.length - 1
        BY <3>1 DEF CallSucceeds
      <4>2. FileCells' = KernelBuffer' .. KernelBuffer' + file.length - 1
        BY <1>1 DEF FileCells
      <4> QED BY <1>2, <4>1, <4>2 DEF FreeRange
    <3>2. CASE c # "buffer"
      <4>1. used' = used
        BY <3>2 DEF CallSucceeds
      <4>2. Then[c] # "read"
        BY <3>2 DEF Then
      <4> QED BY <1>1, <1>2, <4>1, <4>2
    <3> QED BY <3>1, <3>2
  <2> QED BY <1>1, <1>2, <2>1, <2>2 DEF LoadInv, PlaceInv, FileInv, SegInv, WildOnlyWithCause, AllCopied, Then
<1> QED BY <1>3, <1>4

(* Every step of the bootloader and the firmware preserves the invariant.  *)
LEMMA NextLoadInv == LoadInv /\ [BootNext]_bootVars => LoadInv'
<1> SUFFICES ASSUME LoadInv, [BootNext]_bootVars PROVE LoadInv'
  OBVIOUS
<1> USE DEF Holding, Reading, AllCopied
<1>1. ASSUME NEW c \in DOMAIN Then, CallSucceeds(c) PROVE LoadInv'
  BY <1>1, CallSucceedsLoad
<1>2. ASSUME NEW c \in DOMAIN Then, CallFails(c) PROVE LoadInv'
  <2>1. pc' \in {"info", "returned"} /\ pc = c /\ UNCHANGED <<file, KernelBuffer, mem, i, j, used>>
    BY <1>2 DEF CallFails, Then, loadVars, mapVars
  <2> QED BY <2>1 DEF LoadInv, PlaceInv, FileInv, SegInv, WildOnlyWithCause, Then
<1>3. CASE InfoThroughNull
  <2>1. pc' \in {"buffer", "wild"} /\ pc = "info" /\ UNCHANGED <<file, KernelBuffer, mem, i, j, used, failed>> /\ "info_pool" \in failed
    BY <1>3 DEF InfoThroughNull, loadVars, mapVars
  <2> QED BY <2>1 DEF LoadInv, PlaceInv, FileInv, SegInv, WildOnlyWithCause, Then
<1>4. CASE CheckElf
  <2>1. pc = "elf" /\ pc' \in {"segment", "returned"} /\ UNCHANGED <<file, KernelBuffer, mem, i, j, used>>
    BY <1>4 DEF CheckElf, loadVars, mapVars
  <2>2. /\ Loaded' = Loaded /\ FileCells' = FileCells /\ TargetsApart' = TargetsApart /\ FileApart' = FileApart
        /\ \A k : Intact(k)' = Intact(k)
        /\ \A k, n : SegmentIn(k, n)' = SegmentIn(k, n)
    BY <2>1, SameFile, NoStore
  <2> QED BY <2>1, <2>2 DEF LoadInv, PlaceInv, FileInv, SegInv, WildOnlyWithCause, Then
<1>5. CASE HeaderLost
  <2>1. /\ pc' = "wild" /\ UNCHANGED <<file, KernelBuffer, mem, i, j, used>>
        /\ pc \in {"segment", "entry", "copy", "zero"}
    BY <1>5 DEF HeaderLost, Wild, loadVars, mapVars
  <2>2. PlaceInv'
    BY <2>1 DEF LoadInv, PlaceInv, Then
  <2>3. ~FileApart
    <3>1. file \in Kernel /\ i \in 0 .. Len(file.phdr) /\ (pc \in {"copy", "zero"} => i < Len(file.phdr))
      BY DEF LoadInv, PlaceInv
    <3>2. 0 \in 0 .. file.length - 1 /\ (i < Len(file.phdr) => i + 1 \in 0 .. file.length - 1)
      BY <3>1, FileFacts
    <3>3. FileApart => \A k \in 0 .. file.length - 1 : Intact(k)
      BY <2>1 DEF LoadInv, FileInv
    <3> QED BY <1>5, <3>1, <3>2, <3>3 DEF HeaderLost
  <2>4. FileCells \subseteq used
    BY <2>1 DEF LoadInv, PlaceInv
  <2>5. ~TargetsFree
    BY <2>3, <2>4 DEF TargetsFree, FileApart
  <2>6. ~TargetsFree'
    BY <2>1, <2>5, NoStore
  <2> QED BY <2>1, <2>2, <2>6 DEF LoadInv, FileInv, SegInv, WildOnlyWithCause
<1>6. CASE NextSegment
  <2>1. pc = "segment" /\ pc' \in {"segment", "copy", "gop"} /\ UNCHANGED <<file, KernelBuffer, mem, used>>
    BY <1>6 DEF NextSegment, mapVars
  <2>2. /\ Loaded' = Loaded /\ FileCells' = FileCells /\ TargetsApart' = TargetsApart /\ FileApart' = FileApart
        /\ \A k : Intact(k)' = Intact(k)
        /\ \A k, n : SegmentIn(k, n)' = SegmentIn(k, n)
    BY <2>1, SameFile, NoStore
  <2>3. file \in Kernel /\ i \in 0 .. Len(file.phdr) /\ Len(file.phdr) \in Nat /\ Loaded \subseteq 1 .. Len(file.phdr)
    BY FileFacts DEF LoadInv, PlaceInv, Loaded
  <2>4. FileInv' /\ WildOnlyWithCause'
    BY <2>1, <2>2 DEF LoadInv, FileInv, WildOnlyWithCause
  <2>5. CASE i = Len(file.phdr)
    <3>1. pc' = "gop" /\ UNCHANGED <<i, j>>
      BY <1>6, <2>5 DEF NextSegment
    <3> QED BY <2>1, <2>2, <2>4, <2>5, <3>1 DEF LoadInv, PlaceInv, SegInv, Then
  <2>6. CASE i # Len(file.phdr) /\ Phdr.type = PT_LOAD
    <3>1. pc' = "copy" /\ j' = 0 /\ UNCHANGED i
      BY <1>6, <2>6 DEF NextSegment
    <3>2. Phdr' = Phdr /\ i < Len(file.phdr) /\ Phdr.filesz \in Nat
      BY <2>1, <2>3, <2>6, <3>1, FileFacts DEF Phdr
    <3>3. SegmentIn(i + 1, 0)
      BY DEF SegmentIn
    <3>4. PlaceInv'
      BY <2>1, <2>2, <2>3, <2>6, <3>1, <3>2 DEF LoadInv, PlaceInv, Then
    <3>5. SegInv'
      BY <2>1, <2>2, <3>1, <3>3 DEF LoadInv, SegInv
    <3> QED BY <2>4, <3>4, <3>5 DEF LoadInv
  <2>7. CASE i # Len(file.phdr) /\ Phdr.type # PT_LOAD
    <3>1. pc' = "segment" /\ j' = 0 /\ i' = i + 1
      BY <1>6, <2>1, <2>7 DEF NextSegment
    <3>2. i' \in 0 .. Len(file.phdr)
      BY <2>3, <2>7, <3>1
    <3>3. ASSUME NEW k \in Loaded, k <= i' PROVE k <= i
      BY <2>3, <2>7, <3>1, <3>3 DEF Loaded, Phdr
    <3>4. PlaceInv'
      BY <2>1, <2>2, <3>1, <3>2 DEF LoadInv, PlaceInv, Then
    <3>5. SegInv'
      BY <2>1, <2>2, <3>1, <3>3 DEF LoadInv, SegInv
    <3> QED BY <2>4, <3>4, <3>5 DEF LoadInv
  <2> QED BY <2>5, <2>6, <2>7
<1>7. CASE CopyByte
  <2>1. pc = "copy" /\ j < Phdr.filesz /\ StoreByte(mem[KernelBuffer + Phdr.offset + j])
    BY <1>7 DEF CopyByte
  <2>2. /\ Phdr.filesz \in Nat /\ Phdr.memsz \in Nat /\ Phdr.offset \in Nat /\ j \in Nat
        /\ Phdr.offset + Phdr.filesz <= file.length /\ Phdr.filesz <= Phdr.memsz
        /\ file.length \in Nat /\ KernelBuffer \in Int
    <3>1. /\ file \in Kernel /\ i \in Nat /\ j \in Nat /\ i + 1 \in 1 .. Len(file.phdr) /\ KernelBuffer \in Addr
      BY <2>1, FileFacts DEF LoadInv, PlaceInv
    <3> QED BY <3>1, FileFacts, SMTT(30) DEF Phdr, Addr
  <2>3. PICK k \in 0 .. file.length - 1 : k = Phdr.offset + j
    BY <2>1, <2>2
  <2>4. KernelBuffer + Phdr.offset + j = KernelBuffer + k
    BY <2>2, <2>3
  <2>5. mem[KernelBuffer + k] \in Int
    BY <2>1, BufferFacts DEF LoadInv, PlaceInv
  <2>6. FileApart => mem[KernelBuffer + k] = k
    BY <2>1 DEF LoadInv, FileInv, Intact
  <2>7. StoreByte(mem[KernelBuffer + k])
    BY <2>1, <2>4
  <2>8. j < Phdr.memsz
    BY <2>1, <2>2
  <2> QED BY <2>1, <2>3, <2>5, <2>6, <2>7, <2>8, StoreByteInv
<1>8. CASE ZeroByte
  <2>1. pc = "zero" /\ j < Phdr.memsz /\ StoreByte(Zero)
    BY <1>8 DEF ZeroByte, ZeroEnd
  <2>2. Phdr.filesz \in Nat /\ j \in Nat /\ j >= Phdr.filesz
    BY <2>1, FileFacts DEF LoadInv, PlaceInv, Phdr
  <2>3. Zero \in Int /\ ~(j < Phdr.filesz)
    BY <2>2 DEF Zero
  <2> QED BY <2>1, <2>3, StoreByteInv
<1>9. CASE CopyDone
  <2>1. pc = "copy" /\ j >= Phdr.filesz /\ pc' = "zero" /\ UNCHANGED <<file, KernelBuffer, mem, i, j, used>>
    BY <1>9 DEF CopyDone, loadVars, mapVars
  <2>2. /\ Loaded' = Loaded /\ FileCells' = FileCells /\ TargetsApart' = TargetsApart /\ FileApart' = FileApart
        /\ \A k : Intact(k)' = Intact(k)
        /\ \A k, n : SegmentIn(k, n)' = SegmentIn(k, n)
        /\ Phdr' = Phdr
    BY <2>1, SameFile, NoStore DEF Phdr
  <2>3. Phdr.filesz \in Nat /\ Phdr.memsz \in Nat /\ Phdr.filesz <= Phdr.memsz /\ j \in Nat /\ j <= Phdr.filesz
    BY <2>1, LoopFacts DEF LoadInv, PlaceInv
  <2>4. PlaceInv'
    BY <2>1, <2>2, <2>3 DEF LoadInv, PlaceInv, Then
  <2>5. FileInv' /\ SegInv' /\ WildOnlyWithCause'
    BY <2>1, <2>2 DEF LoadInv, FileInv, SegInv, WildOnlyWithCause
  <2> QED BY <2>4, <2>5 DEF LoadInv
<1>10. CASE ZeroDone
  <2>1. /\ pc = "zero" /\ j >= Phdr.memsz /\ pc' = "segment" /\ i' = i + 1
        /\ UNCHANGED <<file, KernelBuffer, mem, j, used>>
    BY <1>10 DEF ZeroDone, ZeroEnd, mapVars
  <2>2. /\ Loaded' = Loaded /\ FileCells' = FileCells /\ TargetsApart' = TargetsApart /\ FileApart' = FileApart
        /\ \A k : Intact(k)' = Intact(k)
        /\ \A k, n : SegmentIn(k, n)' = SegmentIn(k, n)
    BY <2>1, SameFile, NoStore
  <2>3. /\ file \in Kernel /\ Loaded \subseteq 1 .. Len(file.phdr) /\ Len(file.phdr) \in Nat
        /\ i \in Nat /\ i < Len(file.phdr) /\ j = Phdr.memsz
    BY <2>1, FileFacts, SMTT(30) DEF LoadInv, PlaceInv, Loaded, Phdr
  <2>4. PlaceInv'
    BY <2>1, <2>2, <2>3 DEF LoadInv, PlaceInv, Then
  <2>5. SegInv'
    <3> SUFFICES ASSUME TargetsApart, NEW k \in Loaded, k <= i + 1
                 PROVE  SegmentIn(k, file.phdr[k].memsz)
      BY <2>1, <2>2 DEF LoadInv, SegInv
    <3>1. CASE k <= i
      BY <2>1, <3>1 DEF LoadInv, SegInv
    <3>2. CASE k = i + 1
      BY <2>1, <2>3, <3>2 DEF LoadInv, SegInv, Phdr
    <3> QED BY <2>3, <3>1, <3>2
  <2>6. FileInv' /\ WildOnlyWithCause'
    BY <2>1, <2>2 DEF LoadInv, FileInv, WildOnlyWithCause
  <2> QED BY <2>4, <2>5, <2>6 DEF LoadInv
<1>11. mem \in [Addr -> Int] /\ used \subseteq Addr /\ file \in Kernel
  BY DEF LoadInv, PlaceInv
<1>12. CASE GopFound
  BY <1>11, <1>12, AfterLoading DEF GopFound, mapVars
<1>13. CASE GopMissing
  <2>1. CASE pc' = "entry"
    BY <1>11, <1>13, <2>1, AfterLoading DEF GopMissing, loadVars, mapVars
  <2>2. CASE pc' = "wild"
    BY <1>13, <2>2 DEF GopMissing, loadVars, mapVars, LoadInv, PlaceInv, FileInv, SegInv, WildOnlyWithCause, Then
  <2> QED BY <1>13, <2>1, <2>2 DEF GopMissing
<1>14. CASE TakeEntry
  BY <1>11, <1>14, AfterLoading DEF TakeEntry, mapVars
<1>15. CASE GetMapSize \/ AllocateMapFails \/ ExitBootServices
  <2>1. /\ pc \in {"map_size", "map_pool", "exit"} /\ UNCHANGED loadVars /\ UNCHANGED used
        /\ pc' \in {"map_pool", "map", "kernel", "returned"} /\ (pc' = "map" => "map_pool" \in failed')
    BY <1>15 DEF GetMapSize, AllocateMapFails, ExitBootServices, mapVars
  <2>2. KernelStart = file.entry
    BY <2>1 DEF LoadInv, PlaceInv
  <2> QED BY <1>11, <2>1, <2>2, AfterLoading DEF loadVars
<1>16. CASE AllocateMap
  <2>1. /\ pc = "map_pool" /\ pc' = "map" /\ UNCHANGED loadVars
        /\ MemoryMap' \in {b \in Addr : FreeRange(b, MapCells)}
        /\ used' = used \cup MemoryMap' .. MemoryMap' + MapCells - 1
    BY <1>16 DEF AllocateMap
  <2>2. KernelStart = file.entry
    BY <2>1 DEF LoadInv, PlaceInv
  <2>3. used' \subseteq Addr
    BY <1>11, <2>1 DEF FreeRange
  <2> QED BY <1>11, <2>1, <2>2, <2>3, AfterLoading DEF loadVars
<1>17. CASE GetMap
  <2>1. pc = "map" /\ UNCHANGED <<file, KernelBuffer, i, j, KernelStart, used>> /\ pc' \in {"exit", "returned"}
    BY <1>17 DEF GetMap
  <2>2. KernelStart = file.entry
    BY <2>1 DEF LoadInv, PlaceInv
  <2>3. mem' \in [Addr -> Int] /\ \A a \in Addr : a \in used' \/ mem'[a] = mem[a]
    <3>1. CASE MapOk
      <4>1. mem' = [a \in Addr |-> IF a \in MemoryMap .. MemoryMap + MapCells - 1 THEN Other ELSE mem[a]]
        BY <1>17, <3>1 DEF GetMap
      <4>2. MemoryMap .. MemoryMap + MapCells - 1 \subseteq used
        BY <2>1, <3>1 DEF LoadInv, PlaceInv, MapOk
      <4>3. Other \in Int
        BY DEF Other
      <4> QED BY <1>11, <2>1, <4>1, <4>2, <4>3
    <3>2. CASE ~MapOk
      BY <1>11, <1>17, <3>2 DEF GetMap
    <3> QED BY <3>1, <3>2
  <2> QED BY <1>11, <2>1, <2>2, <2>3, AfterLoading
<1>18. CASE FirmwareEvent
  <2>1. UNCHANGED <<pc, file, KernelBuffer, i, j, KernelStart, MemoryMap, failed>>
    BY <1>18 DEF FirmwareEvent
  <2>2. /\ used \subseteq used' /\ used' \subseteq Addr /\ mem' \in [Addr -> Int]
        /\ \A a \in Addr : a \in used' \ used \/ mem'[a] = mem[a]
    <3>1. CASE UNCHANGED <<used, mem>>
      BY <1>11, <3>1
    <3>2. CASE \E a \in Addr \ used : used' = used \cup {a} /\ mem' = [mem EXCEPT ![a] = Other]
      <4>1. PICK a \in Addr \ used : used' = used \cup {a} /\ mem' = [mem EXCEPT ![a] = Other]
        BY <3>2
      <4> QED BY <1>11, <4>1 DEF Other
    <3> QED BY <1>18, <3>1, <3>2 DEF FirmwareEvent
  <2> QED BY <2>1, <2>2, EventLoad
<1>19. CASE UNCHANGED bootVars
  BY <1>11, <1>19, EventLoad DEF bootVars, loadVars, mapVars
<1> QED
  BY <1>1, <1>2, <1>3, <1>4, <1>5, <1>6, <1>7, <1>8, <1>9, <1>10, <1>12, <1>13, <1>14, <1>15,
     <1>16, <1>17, <1>18, <1>19 DEF BootNext, efi_main

(* A kernel that is started has its entry point, and its segments are in   *)
(* memory as their headers say but for cells the firmware gave away: for   *)
(* every file, every place of its copy and of the map, any number of       *)
(* events and every size of memory.                                        *)
THEOREM KernelLoaded == BootSpec => []LoadedIntact
<1>1. LoadInv => LoadedIntact
  <2> SUFFICES ASSUME LoadInv, pc = "kernel", TargetsApart PROVE LoadedIntact
    BY DEF LoadedIntact
  <2>1. file \in Kernel /\ KernelStart = file.entry /\ i = Len(file.phdr) /\ \A k \in Loaded : k <= i => SegmentIn(k, file.phdr[k].memsz)
    BY DEF LoadInv, PlaceInv, SegInv, Holding, AllCopied
  <2>2. ASSUME NEW k \in Loaded, NEW n \in 0 .. MemSize - 1, n < file.phdr[k].memsz
        PROVE  CellLoaded(k, n)
    <3>1. k <= i /\ file.phdr[k].memsz \in Nat
      BY <2>1, FileFacts, SMTT(30) DEF Loaded
    <3>2. n \in 0 .. file.phdr[k].memsz - 1
      BY <2>2, <3>1
    <3> QED BY <2>1, <3>1, <3>2 DEF SegmentIn
  <2> QED BY <2>1, <2>2 DEF LoadedIntact
<1> QED BY <1>1, InitLoadInv, NextLoadInv, PTL DEF BootSpec

(* The bootloader's behaviour is undefined only if a segment goes to       *)
(* memory in use, the graphics protocol is missing, or the first           *)
(* allocation failed.                                                      *)
THEOREM DefinedUnlessOverlap == BootSpec => []WildOnlyWithCause
<1>1. LoadInv => WildOnlyWithCause
  BY DEF LoadInv
<1> QED BY <1>1, InitLoadInv, NextLoadInv, PTL DEF BootSpec

=============================================================================
