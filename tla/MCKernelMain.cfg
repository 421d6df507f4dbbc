SPECIFICATION KernelSpec
CONSTANTS
  NumBus = 3
  NumSlot = 4
  BusWord = 8
  SlotWord = 8
  Config <- MCConfig
  Port <- MCPort
  TextSize = 6748
  HeapBase = 1058208
  HeapSize = 16777216
INVARIANTS
  FindsFirstController
  StructuresApart
PROPERTIES
  StartUpEnds
CHECK_DEADLOCK FALSE
