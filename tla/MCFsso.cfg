SPECIFICATION FsFairSpec
CONSTANTS
  BlockSize = 10
  InodeSize = 3
  DirEntrySize = 5
  DirectBlocks = 2
  FirstDataBlock = 4
  TotalBlocks = 8
  TotalInodes = 3
  n1 = n1
  n2 = n2
  Name <- MCName
  NoName = NoName
  Datum = {d1, d2}
  NoDatum = NoDatum
  FileSize <- MCFileSize
  Garbage = Garbage
  GarbageInode <- MCGarbageInode
  GarbageWord <- MCGarbageWord
  MaxSize <- MCMaxSize
  Dot = Dot
  Path <- MCPath
INVARIANTS
  CopyBounded
  FindCorrect
  ReadCorrect
  ResolveCorrect
PROPERTIES
  CallReturns
CHECK_DEADLOCK FALSE
