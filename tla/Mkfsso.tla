------------------------------ MODULE Mkfsso ------------------------------
(***************************************************************************)
(* tools/mkfsso.c: format an FSSO image in memory, add files to its root   *)
(* directory with fsso_add_file, write the image out.                      *)
(*                                                                         *)
(* main adds a fixed list of files; here any list may be added, and as in  *)
(* main the first failing fsso_add_file ends the program without an image. *)
(* fsso_add_file undoes nothing when it fails half way.                    *)
(*                                                                         *)
(* A data block holds a chunk: <<d, j>> is the j-th block of datum d,      *)
(* padded with zero bytes.                                                 *)
(***************************************************************************)
EXTENDS FssoLayout, Sequences, FiniteSets

CONSTANTS
  Name,      (* file names                                                 *)
  NoName,    (* the name field of an empty directory slot                  *)
  Datum,     (* file contents                                              *)
  NoDatum,   (* zero bytes                                                 *)
  FileSize   (* sizes in bytes of the files to add                         *)

(* Mutant: a partial last block is forgotten.                              *)
BlocksNeededRoundedDown(size) == size \div BlockSize

BlocksNeeded(size) == (size + BlockSize - 1) \div BlockSize

ASSUME NameAssumption == NoName \notin Name

(* fsso_add_file collects the blocks of a file in an array of DirectBlocks *)
(* entries and does not check its bound: callers must not pass more.       *)
ASSUME FileSizeAssumption ==
  /\ FileSize \subseteq Nat
  /\ \A s \in FileSize : BlocksNeeded(s) \in 0 .. DirectBlocks

VARIABLES
  status,        (* "adding", "failed" (exit status 1) or "written"        *)
  free_blocks,   (* superblock counters                                    *)
  free_inodes,
  inode_bitmap,  (* inodes whose bit is set                                *)
  block_bitmap,  (* blocks whose bit is set                                *)
  inode_table,
  entries,       (* the root directory block                               *)
  data,          (* the chunk in each block                                *)
  added          (* history: the files added successfully, in order        *)

imageVars == <<free_blocks, free_inodes, inode_bitmap, block_bitmap, inode_table, entries, data>>
mkVars == <<status, imageVars, added>>

Block == 0 .. TotalBlocks - 1
Inode == 0 .. TotalInodes - 1
Slot  == 0 .. EntriesPerBlock - 1
Index == 0 .. DirectBlocks - 1

NoBlock    == 0
ZeroInode  == [size |-> 0, type |-> 0, direct |-> [j \in Index |-> NoBlock]]
EmptyEntry == [inode |-> 0, name |-> NoName]
ZeroChunk  == <<NoDatum, 0>>

RootEntry == [size |-> 0, type |-> FSSO_TYPE_DIR,
              direct |-> [j \in Index |-> IF j = 0 THEN FirstDataBlock ELSE NoBlock]]

(* main up to "Root directory inode written".  free_blocks is computed     *)
(* before the root directory takes its block.                              *)
Format ==
  /\ status = "adding"
  /\ free_blocks = TotalBlocks - FirstDataBlock
  /\ free_inodes = TotalInodes - 1
  /\ inode_bitmap = {RootInode}
  /\ block_bitmap = 0 .. FirstDataBlock
  /\ inode_table = [n \in Inode |-> IF n = RootInode THEN RootEntry ELSE ZeroInode]
  /\ entries = [s \in Slot |-> EmptyEntry]
  /\ data = [b \in Block |-> ZeroChunk]
  /\ added = <<>>

---------------------------------------------------------------------------
(* fsso_add_file *)

IsFreeInode(n) ==
  /\ n \in Inode \ {RootInode} /\ n \notin inode_bitmap
  /\ \A m \in Inode \ {RootInode} : m < n => m \in inode_bitmap

(* Mutant: the scan goes one block past the end of the disk.               *)
FreeBlocksPastEnd == {b \in FirstDataBlock .. TotalBlocks : b \notin block_bitmap}

(* The scan for free blocks starts at FirstDataBlock.                      *)
FreeBlocks == {b \in FirstDataBlock .. TotalBlocks - 1 : b \notin block_bitmap}

(* The scan takes the k lowest free blocks in order; there is no such      *)
(* function when fewer than k blocks are free.                             *)
FirstFit(k) ==
  {a \in [0 .. k - 1 -> FreeBlocks] :
     /\ \A x, y \in 0 .. k - 1 : x < y => a[x] < a[y]
     /\ \A b \in FreeBlocks : (\A x \in 0 .. k - 1 : a[x] # b) => \A x \in 0 .. k - 1 : a[x] < b}

IsEmptySlot(s) ==
  /\ s \in Slot /\ entries[s].inode = 0
  /\ \A t \in Slot : t < s => entries[t].inode # 0

(* Copy the data into the allocated blocks and fill in the inode.          *)
WriteFile(n, a, k, d, size) ==
  /\ inode_bitmap' = inode_bitmap \cup {n}
  /\ block_bitmap' = block_bitmap \cup {a[x] : x \in 0 .. k - 1}
  /\ data' = [b \in Block |->
                IF \E x \in 0 .. k - 1 : a[x] = b
                  THEN <<d, CHOOSE x \in 0 .. k - 1 : a[x] = b>> ELSE data[b]]
  /\ inode_table' = [inode_table EXCEPT ![n] =
       [size |-> size, type |-> FSSO_TYPE_FILE,
        direct |-> [j \in Index |-> IF j < k THEN a[j] ELSE inode_table[n].direct[j]]]]

NoFreeInodes ==
  /\ status = "adding" /\ \A n \in Inode \ {RootInode} : n \in inode_bitmap
  /\ status' = "failed"
  /\ UNCHANGED <<imageVars, added>>

(* Mutant: the caller goes on after the error.                             *)
NotEnoughBlocksIgnored(size) ==
  /\ status = "adding" /\ FirstFit(BlocksNeeded(size)) = {}
  /\ \E n \in Inode : IsFreeInode(n) /\ inode_bitmap' = inode_bitmap \cup {n}
  /\ block_bitmap' = block_bitmap \cup FreeBlocks
  /\ UNCHANGED <<status, free_blocks, free_inodes, inode_table, entries, data, added>>

(* The inode and every free block stay marked.                             *)
NotEnoughBlocks(size) ==
  /\ status = "adding" /\ FirstFit(BlocksNeeded(size)) = {}
  /\ \E n \in Inode : IsFreeInode(n) /\ inode_bitmap' = inode_bitmap \cup {n}
  /\ block_bitmap' = block_bitmap \cup FreeBlocks
  /\ status' = "failed"
  /\ UNCHANGED <<free_blocks, free_inodes, inode_table, entries, data, added>>

(* Mutant: the counters are changed before the directory is searched.      *)
DirectoryFullCounted(d, size) ==
  /\ status = "adding" /\ \A s \in Slot : entries[s].inode # 0
  /\ \E n \in Inode, a \in FirstFit(BlocksNeeded(size)) :
       IsFreeInode(n) /\ WriteFile(n, a, BlocksNeeded(size), d, size)
  /\ free_inodes' = free_inodes - 1 /\ free_blocks' = free_blocks - BlocksNeeded(size)
  /\ status' = "failed"
  /\ UNCHANGED <<entries, added>>

(* Everything but the directory entry has been written by then.            *)
DirectoryFull(d, size) ==
  /\ status = "adding" /\ \A s \in Slot : entries[s].inode # 0
  /\ \E n \in Inode, a \in FirstFit(BlocksNeeded(size)) :
       IsFreeInode(n) /\ WriteFile(n, a, BlocksNeeded(size), d, size)
  /\ status' = "failed"
  /\ UNCHANGED <<free_blocks, free_inodes, entries, added>>

AddFile(name, d, size) ==
  /\ status = "adding"
  /\ \E n \in Inode, a \in FirstFit(BlocksNeeded(size)), s \in Slot :
       /\ IsFreeInode(n) /\ IsEmptySlot(s)
       /\ WriteFile(n, a, BlocksNeeded(size), d, size)
       /\ entries' = [entries EXCEPT ![s] = [inode |-> n, name |-> name]]
  /\ free_inodes' = free_inodes - 1
  /\ free_blocks' = free_blocks - BlocksNeeded(size)
  /\ added' = Append(added, [name |-> name, data |-> d, size |-> size])
  /\ UNCHANGED status

(* fwrite of the whole image, which may fall short.                        *)
WriteImage ==
  /\ status = "adding"
  /\ status' \in {"written", "failed"}
  /\ UNCHANGED <<imageVars, added>>

fsso_add_file ==
  \/ NoFreeInodes
  \/ \E size \in FileSize :
       \/ NotEnoughBlocks(size)
       \/ \E d \in Datum : DirectoryFull(d, size) \/ \E name \in Name : AddFile(name, d, size)

MkNext == fsso_add_file \/ WriteImage

MkSpec == Format /\ [][MkNext]_mkVars

---------------------------------------------------------------------------
(* Type invariant. *)
MkTypeOK ==
  /\ status \in {"adding", "failed", "written"}
  /\ free_blocks \in Int /\ free_inodes \in Int
  /\ inode_bitmap \subseteq Inode /\ block_bitmap \subseteq Block
  /\ inode_table \in [Inode -> [size : Nat, type : 0 .. 2, direct : [Index -> Block]]]
  /\ entries \in [Slot -> [inode : Inode, name : Name \cup {NoName}]]
  /\ data \in [Block -> (Datum \cup {NoDatum}) \X Nat]
  /\ added \in Seq([name : Name, data : Datum, size : FileSize])

BlocksOf(n) == {inode_table[n].direct[j] : j \in Index} \ {NoBlock}

(* No data block belongs to two inodes, and none of them to the metadata   *)
(* or unmarked: not even after a call of fsso_add_file that failed.        *)
BlocksNotShared ==
  \A n \in Inode :
    /\ BlocksOf(n) \subseteq block_bitmap \cap (FirstDataBlock .. TotalBlocks - 1)
    /\ \A m \in Inode : m # n => BlocksOf(n) \cap BlocksOf(m) = {}

(* Inode n describes file f: its blocks hold the chunks of the file in     *)
(* order, as many as the file has bytes for, and no more.                  *)
HoldsFile(n, f) ==
  /\ inode_table[n].type = FSSO_TYPE_FILE /\ inode_table[n].size = f.size
  /\ \A j \in Index :
       IF j * BlockSize < f.size
         THEN data[inode_table[n].direct[j]] = <<f.data, j>>
         ELSE inode_table[n].direct[j] = NoBlock

(* Slot s is what a search of the root directory for a name finds.         *)
FindsFirst(s, name) ==
  /\ entries[s].inode # 0 /\ entries[s].name = name
  /\ \A t \in Slot : t < s => entries[t].inode = 0 \/ entries[t].name # name

(* Every file that was added can be read back: a search for its name finds *)
(* the first file added under that name, whole; a second file of the same  *)
(* name is hidden by it.                                                   *)
ImageReadsBack ==
  status # "failed" =>
    \A k \in DOMAIN added :
      (\A m \in 1 .. k - 1 : added[m].name # added[k].name) =>
        \E s \in Slot : FindsFirst(s, added[k].name) /\ HoldsFile(entries[s].inode, added[k])

(* mkfsso packs inodes back to back while the kernel expects no inode to   *)
(* cross a block; both agree on every inode a directory entry names, and   *)
(* none of those reaches into the data blocks.                             *)
InodesLocatable ==
  status # "failed" =>
    \A s \in Slot : LET n == entries[s].inode IN
      /\ ReaderOffset(n) = WriterOffset(n)
      /\ WriterOffset(n) + InodeSize <= FirstDataBlock * BlockSize

(* The inodes that the root directory names, and their blocks.             *)
Named == {entries[s].inode : s \in Slot} \ {RootInode}

NamedBlocks == UNION {BlocksOf(n) : n \in Named}

(* The bitmaps mark what the image uses and nothing else; after a call     *)
(* that failed half way, also the one inode it took, and the blocks it     *)
(* wrote or, if there were too few, all blocks.                            *)
BitmapsExact ==
  LET blocks == 0 .. FirstDataBlock - 1 \cup BlocksOf(RootInode) \cup NamedBlocks IN
  \/ inode_bitmap = {RootInode} \cup Named /\ block_bitmap = blocks
  \/ /\ status = "failed"
     /\ \E n \in Inode \ ({RootInode} \cup Named) :
          /\ inode_bitmap = {RootInode} \cup Named \cup {n}
          /\ \/ block_bitmap = blocks \cup BlocksOf(n)
             \/ block_bitmap = Block /\ BlocksOf(n) = {}

(* The superblock's counters are those of the files in the directory,      *)
(* whether or not a call failed.  free_blocks takes the root directory's   *)
(* own block for free.                                                     *)
CountersExact ==
  /\ free_inodes = TotalInodes - 1 - Cardinality(Named)
  /\ free_blocks = TotalBlocks - FirstDataBlock - Cardinality(NamedBlocks)

(* No block is in use twice, the bitmaps mark exactly what is in use, and  *)
(* the counters count it.  A failed call leaks one inode and at most the   *)
(* blocks it took; the block of the root directory is marked but counted   *)
(* as free.                                                                *)
AllocationExact == BlocksNotShared /\ BitmapsExact /\ CountersExact

===========================================================================
