-------------------------------- MODULE Pci --------------------------------
(***************************************************************************)
(* pci_find_ahci (kernel/pci.c): read the configuration space of function  *)
(* 0 of every slot of every bus through the address and data ports, and    *)
(* return BAR5 of the first SATA controller, or 0.                         *)
(*                                                                         *)
(* The address word packs bus, slot, function and offset; the host bridge  *)
(* unpacks it.  Its enable bit is left out.                                *)
(***************************************************************************)
EXTENDS Integers

CONSTANTS
  NumBus,    (* buses scanned [256]                                        *)
  NumSlot,   (* slots of a bus [32]                                        *)
  BusWord,   (* values of the loop variable of buses, a uint16_t [65536]   *)
  SlotWord,  (* values of that of slots, a uint8_t [256]                   *)
  Config     (* possible machines: what function 0 of each slot is         *)

Bus  == 0 .. NumBus - 1
Slot == 0 .. NumSlot - 1

ASSUME LoopAssumption == NumBus \in Nat /\ NumSlot \in Nat /\ NumBus < BusWord /\ NumSlot < SlotWord
ASSUME FieldAssumption == NumBus <= 256 /\ NumSlot <= 32 /\ BusWord \in Nat /\ SlotWord \in Nat

(* Function 0 of a slot: vendor, class/subclass word and BAR5.  Vendor and *)
(* class are all ones where there is no device.                            *)
Device == [vendor : Nat, class : Nat, bar5 : Nat]
Absent == [vendor |-> 65535, class |-> 65535, bar5 |-> 0]
Sata   == 262     (* class 0x01, subclass 0x06 *)
ASSUME ConfigAssumption == Config \subseteq [Bus \X Slot -> Device]

VARIABLES
  scan,       (* "running" or "done"                                       *)
  config,     (* the machine                                               *)
  bus, slot,  (* loop variables                                            *)
  base        (* the value returned                                        *)

pciVars == <<scan, config, bus, slot, base>>

---------------------------------------------------------------------------
(* Mutant: the slot is shifted by one bit too few.                         *)
AddressShift10(b, s, func, offset) == b * 65536 + s * 1024 + func * 256 + (offset - (offset % 4))

(* The address word of pci_read; its fields do not overlap.                *)
Address(b, s, func, offset) == b * 65536 + s * 2048 + func * 256 + (offset - (offset % 4))

(* The host bridge (external): the register an address word selects.       *)
Decode(address) ==
  [bus |-> (address \div 65536) % 256, slot |-> (address \div 2048) % 32,
   func |-> (address \div 256) % 8, offset |-> address % 256]

(* What the data port returns the registers of.                            *)
Selected(address) ==
  LET d == Decode(address) IN
  IF d.bus \in Bus /\ d.slot \in Slot /\ d.func = 0 THEN config[<<d.bus, d.slot>>] ELSE Absent

pci_read(b, s, func, offset) ==
  LET device == Selected(Address(b, s, func, offset)) IN
  CASE offset = 0  -> device.vendor
    [] offset = 8  -> device.class
    [] offset = 36 -> device.bar5

PciInit == scan = "running" /\ config \in Config /\ bus = 0 /\ slot = 0 /\ base = 0

(* Mutant: the loop variable of the buses is as narrow as the bus number.  *)
NextBusNarrow == (bus + 1) % NumBus

NextBus == (bus + 1) % BusWord

Advance ==
  IF slot + 1 < NumSlot THEN slot' = (slot + 1) % SlotWord /\ UNCHANGED bus
                        ELSE slot' = 0 /\ bus' = NextBus

BarBase(bar5) == bar5 - (bar5 % 16)

IsAhci(b, s) == pci_read(b, s, 0, 0) # 65535 /\ pci_read(b, s, 0, 8) = Sata

FoundController ==
  /\ scan = "running" /\ bus < NumBus /\ IsAhci(bus, slot)
  /\ scan' = "done" /\ base' = BarBase(pci_read(bus, slot, 0, 36))
  /\ UNCHANGED <<config, bus, slot>>

OtherSlot ==
  /\ scan = "running" /\ bus < NumBus /\ ~IsAhci(bus, slot)
  /\ Advance
  /\ UNCHANGED <<scan, config, base>>

NoController ==
  /\ scan = "running" /\ bus >= NumBus
  /\ scan' = "done" /\ base' = 0
  /\ UNCHANGED <<config, bus, slot>>

pci_find_ahci == FoundController \/ OtherSlot \/ NoController

---------------------------------------------------------------------------
(* The controllers of the machine, and which of two comes first.           *)
Controllers == {d \in Bus \X Slot : config[d].vendor # 65535 /\ config[d].class = Sata}

Before(d, e) == d[1] < e[1] \/ (d[1] = e[1] /\ d[2] < e[2])

(* The result is the memory base, without its flag bits, of the SATA       *)
(* controller with the lowest bus and slot, and 0 without one.  A          *)
(* controller whose BAR5 is not set counts as none.                        *)
FindsFirstController ==
  scan = "done" =>
    IF Controllers = {} THEN base = 0
    ELSE LET d == CHOOSE d \in Controllers : \A e \in Controllers \ {d} : Before(d, e)
         IN base % 16 = 0 /\ config[d].bar5 - base \in 0 .. 15

============================================================================
