SPECIFICATION FairSpec
CONSTANTS
  b1 = b1
  b2 = b2
  NumPorts = 2
  MaxLba = 1
  Buffer <- MCBuffer
  NoBuffer = NoBuffer
  Garbage = Garbage
  PollLimit = 2
INVARIANTS
  TypeOK
  CleanReadDelivers
  SelectsLastDisk
  RebaseQuiescent
PROPERTIES
  IsBlockDevice
  TransfersOnlyToRequested
  ReadReturns
  InitReturns
