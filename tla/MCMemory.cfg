SPECIFICATION MemSpec
CONSTANTS
  HeapSize = 32
  Word = 64
  Request <- MCRequest
  MaxAllocs = 4
INVARIANTS
  AllocationsDisjoint
  AllocationsInHeap
