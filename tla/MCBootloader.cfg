SPECIFICATION BootFairSpec
CONSTANTS
  Kernel <- MCKernel
  MemSize = 11
  Firmware = {0, 10}
  MapCells = 1
  MaxNoise = 1
INVARIANTS
  LoadedIntact
  WildOnlyWithCause
  KernelOnlyAfterExit
  GivesUpWithReason
PROPERTIES
  BootEnds
CHECK_DEADLOCK FALSE
