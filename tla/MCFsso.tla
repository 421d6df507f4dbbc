------------------------------ MODULE MCFsso ------------------------------
(* The FSSO driver on every image that mkfsso makes of small files, with   *)
(* every pattern of failed block reads.                                    *)
EXTENDS Fsso

CONSTANTS n1, n2

MCName     == {n1, n2}
MCFileSize == {5, 15}

(* A garbage file or directory: without blocks, or with a block of another *)
(* file and then one past the end of the disk.                             *)
MCGarbageInode ==
  {[size |-> 0, type |-> t, direct |-> [j \in Index |-> IF j = 0 THEN b ELSE TotalBlocks]] :
     t \in {1, 2}, b \in {0, FirstDataBlock + 1}}
MCGarbageWord == {0, 4}
MCMaxSize     == {10, 12, 25}

(* The empty path, a name, a leading separator, two components.            *)
MCPath == {<<>>, <<n1>>, <<Dot, n2>>, <<n1, Dot, n2>>}
===========================================================================
