-------------------------- MODULE KernelMainProofs --------------------------
(* Theorems about Pci and KernelMain, for every machine, number of buses   *)
(* and slots, and every port.                                              *)
EXTENDS KernelMain, TLAPS

---------------------------------------------------------------------------
(* The scan for the controller.                                            *)

(* The fields of the address word do not overlap: the host bridge selects  *)
(* the register that pci_read asked for.                                   *)
LEMMA AddressDecodes ==
  ASSUME NEW b \in 0 .. 255, NEW s \in 0 .. 31, NEW offset \in {0, 8, 36}
  PROVE  Decode(Address(b, s, 0, offset)) = [bus |-> b, slot |-> s, func |-> 0, offset |-> offset]
<1> DEFINE a == b * 65536 + s * 2048 + offset
<1>1. Address(b, s, 0, offset) = a
  BY DEF Address
<1>2. b \in Nat /\ b < 256 /\ s \in Nat /\ s < 32 /\ offset \in Nat /\ offset < 256
  OBVIOUS
<1>3. (a \div 65536) % 256 = b
  <2> DEFINE r == s * 2048 + offset
  <2>1. r \in Nat /\ r < 65536
    BY <1>2
  <2>2. a = b * 65536 + r
    BY <1>2
  <2> HIDE DEF a, r
  <2>3. a \div 65536 = b
    BY <1>2, <2>1, <2>2
  <2> QED BY <1>2, <2>3
<1>4. (a \div 2048) % 32 = s
  <2>1. a = (b * 32 + s) * 2048 + offset
    OBVIOUS
  <2> HIDE DEF a
  <2>2. a \div 2048 = b * 32 + s
    BY <2>1
  <2> QED BY <2>2
<1>5. (a \div 256) % 8 = 0 /\ a % 256 = offset
  <2>1. PICK n \in Nat : n = b * 32 + s
    OBVIOUS
  <2>2. a = (n * 8) * 256 + offset
    BY <2>1
  <2> HIDE DEF a
  <2>3. a \div 256 = n * 8 /\ a % 256 = offset
    BY <2>2
  <2>4. (n * 8) % 8 = 0
    OBVIOUS
  <2> QED BY <2>3, <2>4
<1> HIDE DEF a
<1> QED BY <1>1, <1>3, <1>4, <1>5 DEF Decode

(* What the loop of pci_find_ahci finds at a slot is what the machine has  *)
(* there; the test for a SATA controller recognises exactly these.         *)
LEMMA ReadsConfig ==
  ASSUME config \in Config, NEW b \in Bus, NEW s \in Slot
  PROVE  /\ config[<<b, s>>] \in Device
         /\ IsAhci(b, s) <=> <<b, s>> \in Controllers
         /\ pci_read(b, s, 0, 36) = config[<<b, s>>].bar5
<1> DEFINE device == config[<<b, s>>]
<1>1. device \in Device
  <2>1. config \in [Bus \X Slot -> Device]
    BY ConfigAssumption
  <2>2. <<b, s>> \in Bus \X Slot
    OBVIOUS
  <2> QED BY <2>1, <2>2, Zenon
<1>2. b \in 0 .. 255 /\ s \in 0 .. 31
  BY LoopAssumption, FieldAssumption DEF Bus, Slot
<1>3. ASSUME NEW offset \in {0, 8, 36} PROVE Selected(Address(b, s, 0, offset)) = device
  <2> DEFINE d == Decode(Address(b, s, 0, offset))
  <2>1. d = [bus |-> b, slot |-> s, func |-> 0, offset |-> offset]
    BY <1>2, AddressDecodes, Zenon
  <2> HIDE DEF d
  <2>2. d.bus = b /\ d.slot = s /\ d.func = 0
    BY <2>1
  <2> QED BY <2>2, Zenon DEF Selected, d
<1>4. /\ pci_read(b, s, 0, 0) = device.vendor
      /\ pci_read(b, s, 0, 8) = device.class
      /\ pci_read(b, s, 0, 36) = device.bar5
  BY <1>3 DEF pci_read
<1>5. IsAhci(b, s) <=> device.vendor # 65535 /\ device.class = Sata
  BY <1>4 DEF IsAhci
<1> QED BY <1>1, <1>4, <1>5 DEF Controllers

(* While the scan runs, no controller lies before its place; when it has   *)
(* ended, the result is right.                                             *)
ScanInv ==
  /\ scan \in {"running", "done"} /\ config \in Config
  /\ bus \in Nat /\ slot \in Nat /\ base \in Int
  /\ scan = "running" /\ NumSlot > 0 => slot < NumSlot
  /\ scan = "running" => \A d \in Controllers : ~Before(d, <<bus, slot>>)
  /\ FindsFirstController

(* The scan's invariant holds initially.                                   *)
LEMMA InitScanInv == PciInit => ScanInv
<1> SUFFICES ASSUME PciInit PROVE ScanInv
  OBVIOUS
<1>1. \A d \in Controllers : d[1] \in Nat /\ d[2] \in Nat
  BY DEF Controllers, Bus, Slot
<1>2. \A d \in Controllers : ~Before(d, <<0, 0>>)
  BY <1>1 DEF Before
<1> QED BY <1>2 DEF PciInit, ScanInv, FindsFirstController

(* The first of the controllers is the one that no other lies before.      *)
LEMMA FirstIsUnique ==
  ASSUME NEW c \in Controllers, \A d \in Controllers : ~Before(d, c)
  PROVE  c = CHOOSE d \in Controllers : \A e \in Controllers \ {d} : Before(d, e)
<1>1. ASSUME NEW e \in Controllers \ {c} PROVE Before(c, e)
  <2>1. PICK b \in Bus, s \in Slot : e = <<b, s>>
    BY DEF Controllers
  <2>2. PICK b0 \in Bus, s0 \in Slot : c = <<b0, s0>>
    BY DEF Controllers
  <2>3. b # b0 \/ s # s0
    BY <2>1, <2>2
  <2>4. ~(b < b0 \/ (b = b0 /\ s < s0))
    BY <2>1, <2>2 DEF Before
  <2>5. b0 < b \/ (b0 = b /\ s0 < s)
    BY <2>3, <2>4 DEF Bus, Slot
  <2> QED BY <2>1, <2>2, <2>5 DEF Before
<1>2. \E d \in Controllers : \A e \in Controllers \ {d} : Before(d, e)
  BY <1>1
<1>3. ASSUME NEW d \in Controllers, \A e \in Controllers \ {d} : Before(d, e) PROVE d = c
  BY <1>3
<1> QED BY <1>2, <1>3

(* A step of the scan preserves its invariant.                             *)
LEMMA NextScanInv == ScanInv /\ [pci_find_ahci]_pciVars => ScanInv'
<1> SUFFICES ASSUME ScanInv, [pci_find_ahci]_pciVars PROVE ScanInv'
  OBVIOUS
<1>0. NumBus \in Nat /\ NumSlot \in Nat /\ BusWord \in Nat /\ SlotWord \in Nat /\ NumBus < BusWord /\ NumSlot < SlotWord
  BY LoopAssumption, FieldAssumption
<1>1. CASE FoundController
  <2>1. bus \in Bus /\ scan = "running" /\ IsAhci(bus, slot) /\ config \in Config
    BY <1>0, <1>1 DEF FoundController, ScanInv, Bus
  <2>2. slot \in Slot
    <3>1. CASE NumSlot > 0
      BY <1>0, <2>1, <3>1 DEF ScanInv, Slot
    <3>2. CASE NumSlot = 0
      <4>1. Slot = {}
        BY <3>2 DEF Slot
      <4>2. \A a : Selected(a) = Absent
        BY <4>1 DEF Selected
      <4> QED BY <2>1, <4>2 DEF IsAhci, pci_read, Absent
    <3> QED BY <1>0, <3>1, <3>2
  <2>3. /\ <<bus, slot>> \in Controllers /\ config[<<bus, slot>>] \in Device
        /\ pci_read(bus, slot, 0, 36) = config[<<bus, slot>>].bar5
    BY <2>1, <2>2, ReadsConfig
  <2>4. config[<<bus, slot>>].bar5 \in Nat
    <3>1. PICK device \in Device : device = config[<<bus, slot>>]
      BY <2>3
    <3>2. device.bar5 \in Nat
      BY DEF Device
    <3> QED BY <3>1, <3>2, Zenon
  <2>5. PICK d : d = <<bus, slot>>
    OBVIOUS
  <2>6. d = CHOOSE c \in Controllers : \A e \in Controllers \ {c} : Before(c, e)
    BY <2>1, <2>3, <2>5, FirstIsUnique DEF ScanInv
  <2>7. scan' = "done" /\ base' = BarBase(config[d].bar5) /\ UNCHANGED <<config, bus, slot>>
    BY <1>1, <2>3, <2>5 DEF FoundController
  <2>8. PICK v \in Nat : v = config[d].bar5
    BY <2>4, <2>5
  <2>9. base' = v - (v % 16) /\ base' \in Int /\ base' % 16 = 0 /\ v - base' \in 0 .. 15
    <3>1. v - (v % 16) \in Int /\ (v - (v % 16)) % 16 = 0 /\ v - (v - (v % 16)) \in 0 .. 15
      OBVIOUS
    <3>2. base' = v - (v % 16)
      BY <2>7, <2>8 DEF BarBase
    <3> QED BY <3>1, <3>2
  <2>10. Controllers' = Controllers /\ Controllers # {}
    BY <2>3, <2>7 DEF Controllers
  <2>11. FindsFirstController'
    BY <2>6, <2>7, <2>8, <2>9, <2>10 DEF FindsFirstController
  <2> QED BY <2>7, <2>9, <2>11 DEF ScanInv
<1>2. CASE OtherSlot
  <2>1. /\ scan = "running" /\ bus < NumBus /\ ~IsAhci(bus, slot) /\ Advance
        /\ UNCHANGED <<scan, config, base>> /\ bus \in Bus
    BY <1>0, <1>2 DEF OtherSlot, ScanInv, Bus
  <2>2. <<bus, slot>> \notin Controllers
    BY <2>1, ReadsConfig DEF ScanInv, Controllers
  <2>3. Controllers' = Controllers
    BY <2>1 DEF Controllers
  <2>4. \/ bus' = bus /\ slot' = slot + 1 /\ slot + 1 < NumSlot
        \/ bus' = bus + 1 /\ slot' = 0 /\ ~(slot + 1 < NumSlot)
    <3>1. CASE slot + 1 < NumSlot
      BY <1>0, <2>1, <3>1 DEF Advance, ScanInv
    <3>2. CASE ~(slot + 1 < NumSlot)
      BY <1>0, <2>1, <3>2 DEF Advance, NextBus, ScanInv
    <3> QED BY <3>1, <3>2
  <2>5. ASSUME NEW d \in Controllers PROVE ~Before(d, <<bus', slot'>>)
    <3>1. PICK b \in Bus, s \in Slot : d = <<b, s>>
      BY DEF Controllers
    <3>2. b # bus \/ s # slot
      BY <2>2, <3>1
    <3>3. ~(b < bus \/ (b = bus /\ s < slot))
      BY <2>1, <3>1 DEF ScanInv, Before
    <3>4. ~(b < bus' \/ (b = bus' /\ s < slot'))
      BY <1>0, <2>4, <3>2, <3>3 DEF Bus, Slot, ScanInv
    <3> QED BY <3>1, <3>4 DEF Before
  <2>6. bus' \in Nat /\ slot' \in Nat /\ (NumSlot > 0 => slot' < NumSlot)
    BY <1>0, <2>4 DEF ScanInv
  <2>7. FindsFirstController'
    BY <2>1 DEF FindsFirstController
  <2> QED BY <2>1, <2>3, <2>5, <2>6, <2>7 DEF ScanInv
<1>3. CASE NoController
  <2>1. scan = "running" /\ bus >= NumBus /\ scan' = "done" /\ base' = 0 /\ UNCHANGED <<config, bus, slot>>
    BY <1>3 DEF NoController
  <2>2. ASSUME NEW d \in Controllers PROVE FALSE
    <3>1. PICK b \in Bus, s \in Slot : d = <<b, s>>
      BY DEF Controllers
    <3>2. b < bus
      BY <1>0, <2>1 DEF Bus, ScanInv
    <3> QED BY <2>1, <3>1, <3>2 DEF ScanInv, Before
  <2>3. Controllers' = {}
    BY <2>1, <2>2 DEF Controllers
  <2> QED BY <2>1, <2>3 DEF ScanInv, FindsFirstController
<1>4. CASE UNCHANGED pciVars
  <2>1. UNCHANGED <<scan, config, bus, slot, base>>
    BY <1>4 DEF pciVars
  <2>2. Controllers' = Controllers
    BY <2>1 DEF Controllers
  <2> QED BY <2>1, <2>2 DEF ScanInv, FindsFirstController
<1> QED BY <1>1, <1>2, <1>3, <1>4 DEF pci_find_ahci

(* Every step of start-up is a step of the scan or none.                   *)
LEMMA KernelScans == [kernel_main]_kernelVars => [pci_find_ahci]_pciVars
  BY DEF kernel_main, kernelVars, memory_init, ClearScreen, FindController, AhciOk, AhciFail, MountOk, MountFail

(* pci_find_ahci returns the memory base of the first SATA controller on   *)
(* every machine.                                                          *)
THEOREM FirstController == KernelSpec => []FindsFirstController
<1>1. ScanInv => FindsFirstController
  BY DEF ScanInv
<1>2. KernelInit => ScanInv
  BY InitScanInv DEF KernelInit
<1>3. ScanInv /\ [kernel_main]_kernelVars => ScanInv'
  BY NextScanInv, KernelScans
<1> QED BY <1>1, <1>2, <1>3, PTL DEF KernelSpec

---------------------------------------------------------------------------
(* The driver's structures.                                                *)

(* Only structures of the active port are stored to.                       *)
StoredInv ==
  /\ port \in Port \cup {NoPort}
  /\ stored \subseteq (IF port = NoPort THEN {} ELSE {CommandList(port), FisArea(port), CommandTable(port)})
  /\ pc \in {"entry", "screen", "ahci"} => port = NoPort

(* The structures of one port against those of any port.                   *)
LEMMA PortsApart ==
  ASSUME NEW p \in 0 .. 31, NEW q \in 0 .. 31
  PROVE  /\ ~Overlap(CommandList(p), FisArea(q)) /\ ~Overlap(FisArea(p), CommandList(q))
         /\ ~Overlap(CommandList(p), CommandTable(q)) /\ ~Overlap(CommandTable(p), CommandList(q))
         /\ ~Overlap(FisArea(p), CommandTable(q)) /\ ~Overlap(CommandTable(p), FisArea(q))
         /\ p # q => /\ ~Overlap(CommandList(p), CommandList(q))
                     /\ ~Overlap(FisArea(p), FisArea(q))
                     /\ ~Overlap(CommandTable(p), CommandTable(q))
  BY DEF Overlap, CommandList, FisArea, CommandTable, Region, K

(* The structures of every port are aligned as the HBA requires.           *)
LEMMA PortsAligned ==
  ASSUME NEW p \in 0 .. 31
  PROVE  CommandList(p).from % 1024 = 0 /\ FisArea(p).from % 256 = 0 /\ CommandTable(p).from % 128 = 0
  BY DEF CommandList, FisArea, CommandTable, Region, K

(* Structures of one port are apart from all others.                       *)
LEMMA StoredApart == StoredInv => StructuresApart
<1> SUFFICES ASSUME StoredInv, NEW r \in stored
             PROVE  /\ r.from % (IF r.name = "command list" THEN K ELSE IF r.name = "FIS area" THEN 256 ELSE 128) = 0
                    /\ \A q \in 0 .. 31 : /\ r # CommandList(q) => ~Overlap(r, CommandList(q))
                                          /\ r # FisArea(q) => ~Overlap(r, FisArea(q))
                                          /\ r # CommandTable(q) => ~Overlap(r, CommandTable(q))
  BY ZenonT(60) DEF StructuresApart
<1>1. port \in 0 .. 31 /\ r \in {CommandList(port), FisArea(port), CommandTable(port)}
  BY PortAssumption DEF StoredInv
<1>2. PICK p \in 0 .. 31 : p = port
  BY <1>1
<1>3. r.from % (IF r.name = "command list" THEN K ELSE IF r.name = "FIS area" THEN 256 ELSE 128) = 0
  <2>1. CASE r = CommandList(p)
    <3>1. r.name = "command list"
      BY <2>1, ZenonT(60) DEF CommandList, Region
    <3>2. r.from % 1024 = 0
      BY <2>1, PortsAligned
    <3> QED BY <3>1, <3>2, Zenon DEF K
  <2>2. CASE r = FisArea(p)
    <3>1. r.name = "FIS area"
      BY <2>2, ZenonT(60) DEF FisArea, Region
    <3>2. r.from % 256 = 0 /\ "FIS area" # "command list"
      BY <2>2, PortsAligned
    <3> QED BY <3>1, <3>2, Zenon
  <2>3. CASE r = CommandTable(p)
    <3>1. r.name = "command table"
      BY <2>3, ZenonT(60) DEF CommandTable, Region
    <3>2. r.from % 128 = 0 /\ "command table" # "command list" /\ "command table" # "FIS area"
      BY <2>3, PortsAligned
    <3> QED BY <3>1, <3>2, Zenon
  <2> QED BY <1>1, <1>2, <2>1, <2>2, <2>3
<1>4. ASSUME NEW q \in 0 .. 31
      PROVE  /\ r # CommandList(q) => ~Overlap(r, CommandList(q))
             /\ r # FisArea(q) => ~Overlap(r, FisArea(q))
             /\ r # CommandTable(q) => ~Overlap(r, CommandTable(q))
  BY <1>1, <1>2, PortsApart, Zenon
<1> QED BY <1>3, <1>4

(* Wherever the disk is found, the structures stored to are aligned and    *)
(* apart from one another and from those of every other port.              *)
THEOREM ApartAtEveryPort == KernelSpec => []StructuresApart
<1>1. KernelInit => StoredInv
  BY DEF KernelInit, StoredInv
<1>2. StoredInv /\ [kernel_main]_kernelVars => StoredInv'
  <2> SUFFICES ASSUME StoredInv, [kernel_main]_kernelVars PROVE StoredInv'
    OBVIOUS
  <2> USE DEF StoredInv
  <2>1. CASE memory_init \/ ClearScreen \/ FindController \/ AhciFail
    BY <2>1 DEF memory_init, ClearScreen, FindController, AhciFail
  <2>2. ASSUME NEW p \in Port, AhciOk(p) PROVE StoredInv'
    <3>1. pc' = "mount" /\ port' = p /\ stored' = {FisArea(p)}
      BY <2>2 DEF AhciOk
    <3>2. p # NoPort
      BY PortAssumption DEF NoPort
    <3> QED BY <3>1, <3>2, Zenon
  <2>3. CASE MountOk \/ MountFail
    BY <2>3 DEF MountOk, MountFail, ReadStores
  <2>4. CASE UNCHANGED kernelVars
    BY <2>4 DEF kernelVars
  <2> QED BY <2>1, <2>2, <2>3, <2>4 DEF kernel_main
<1> QED BY <1>1, <1>2, StoredApart, PTL DEF KernelSpec

=============================================================================
