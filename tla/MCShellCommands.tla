-------------------------- MODULE MCShellCommands --------------------------
(* ls and cat on every image of MCFsso with any pattern of failed reads.   *)
EXTENDS ShellCommands

CONSTANTS n1, n2

MCName     == {n1, n2}
MCFileSize == {0, 5, 10, 15}

(* A garbage file or directory without blocks, or with a block of a file   *)
(* and then one past the end of the disk.                                  *)
MCGarbageInode ==
  {[size |-> 0, type |-> t, direct |-> [j \in Index |-> IF j = 0 THEN b ELSE TotalBlocks]] :
     t \in {1, 2}, b \in {0, FirstDataBlock + 1}}
MCGarbageWord == {0, 4}
============================================================================
