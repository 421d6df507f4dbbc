---------------------------- MODULE FssoLayout ----------------------------
(***************************************************************************)
(* The on-disk format of FSSO (kernel/fsso.h): block 0 is the superblock,  *)
(* block 1 the inode bitmap, block 2 the block bitmap, the inode table     *)
(* starts at block 3, and data blocks start at FirstDataBlock, the first   *)
(* of which holds the root directory.                                      *)
(*                                                                         *)
(* The constants are those of fsso.h and mkfsso.c; in brackets the values  *)
(* of the code.                                                            *)
(***************************************************************************)
EXTENDS Integers

CONSTANTS
  BlockSize,       (* FSSO_BLOCK_SIZE [1024]                               *)
  InodeSize,       (* sizeof(FSSO_Inode) [76]                              *)
  DirEntrySize,    (* sizeof(FSSO_DirEntry) [260]                          *)
  DirectBlocks,    (* FSSO_DIRECT_BLOCKS [12]                              *)
  FirstDataBlock,  (* FSSO_FIRST_DATA_BLOCK [11]                           *)
  TotalBlocks,     (* TOTAL_BLOCKS [4096]                                  *)
  TotalInodes      (* TOTAL_INODES [512]                                   *)

InodesPerBlock  == BlockSize \div InodeSize      (* [13] *)
EntriesPerBlock == BlockSize \div DirEntrySize   (* [3]  *)
InodeTableBlock == 3

ASSUME PositiveAssumption ==
  /\ BlockSize \in Nat \ {0} /\ InodeSize \in Nat \ {0} /\ DirEntrySize \in Nat \ {0}
  /\ DirectBlocks \in Nat \ {0} /\ TotalBlocks \in Nat /\ TotalInodes \in Nat
  /\ FirstDataBlock \in Nat

(* The inode table has at least its first block, and the root directory    *)
(* block exists.                                                           *)
ASSUME RegionsAssumption ==
  InodeTableBlock < FirstDataBlock /\ FirstDataBlock < TotalBlocks

(* The root directory holds fewer entries than one block holds inodes, and *)
(* there is an inode for each of them and for the root.                    *)
ASSUME DirectoryAssumption ==
  EntriesPerBlock < InodesPerBlock /\ EntriesPerBlock < TotalInodes

FSSO_TYPE_FILE == 1
FSSO_TYPE_DIR  == 2
RootInode      == 0

(* mkfsso indexes the inode table as one array: byte address of inode n.   *)
WriterOffset(n) == InodeTableBlock * BlockSize + n * InodeSize

(* The kernel reads whole inodes from single blocks: byte address of       *)
(* inode n for fsso_read_inode.                                            *)
ReaderOffset(n) ==
  (InodeTableBlock + (n \div InodesPerBlock)) * BlockSize + (n % InodesPerBlock) * InodeSize
===========================================================================
