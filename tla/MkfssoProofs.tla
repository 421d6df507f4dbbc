---------------------------- MODULE MkfssoProofs ----------------------------
(* Theorems about Mkfsso, for every geometry of the disk and every list of *)
(* files.                                                                  *)
EXTENDS Mkfsso, FiniteSetTheorems, SequenceTheorems, TLAPS

---------------------------------------------------------------------------
(* Arithmetic of the layout.                                               *)

(* Division by a positive number.                                          *)
LEMMA Division ==
  ASSUME NEW x \in Nat, NEW y \in Nat \ {0}
  PROVE  /\ x \div y \in Nat /\ x % y \in 0 .. y - 1
         /\ x = y * (x \div y) + (x % y)
  OBVIOUS

(* The j-th block of a file is needed exactly if it begins before the end  *)
(* of the file.                                                            *)
LEMMA NeededBlocks ==
  ASSUME NEW size \in Nat, NEW j \in Nat
  PROVE  BlocksNeeded(size) \in Nat /\ (j < BlocksNeeded(size) <=> j * BlockSize < size)
<1> DEFINE B == BlockSize  x == size + BlockSize - 1
<1>1. B \in Nat \ {0} /\ x \in Nat
  BY PositiveAssumption
<1>2. PICK q \in Nat, r \in 0 .. B - 1 : q = x \div B /\ x = B * q + r
  BY <1>1, Division
<1>3. B * q \in Int /\ j * B \in Int
  BY <1>1
<1> HIDE DEF B
<1>4. j < q => j * B < size
  <2> SUFFICES ASSUME j < q PROVE j * B < size
    OBVIOUS
  <2>1. (j + 1) * B <= q * B
    BY <1>1
  <2>2. (j + 1) * B = j * B + B /\ q * B = B * q
    BY <1>1
  <2> QED BY <1>1, <1>2, <1>3, <2>1, <2>2 DEF B
<1>5. ~(j < q) => ~(j * B < size)
  <2> SUFFICES ASSUME j >= q PROVE j * B >= size
    BY <1>1, <1>3
  <2>1. j * B >= B * q
    BY <1>1
  <2> QED BY <1>1, <1>2, <1>3, <2>1 DEF B
<1> QED BY <1>2, <1>4, <1>5 DEF B, BlocksNeeded

(* The sizes the image is made of.                                         *)
LEMMA Sizes ==
  /\ TotalBlocks \in Nat /\ TotalInodes \in Nat /\ FirstDataBlock \in Nat /\ DirectBlocks \in Nat \ {0}
  /\ EntriesPerBlock \in Nat /\ InodesPerBlock \in Nat \ {0} /\ EntriesPerBlock < InodesPerBlock
  /\ EntriesPerBlock < TotalInodes /\ FirstDataBlock > 3 /\ FirstDataBlock < TotalBlocks
<1>1. EntriesPerBlock \in Nat /\ InodesPerBlock \in Nat
  BY PositiveAssumption, Division DEF EntriesPerBlock, InodesPerBlock
<1> QED BY <1>1, PositiveAssumption, RegionsAssumption, DirectoryAssumption DEF InodeTableBlock

(* Builder and kernel agree on the first InodesPerBlock inodes, which lie  *)
(* in the first block of the inode table.                                  *)
LEMMA FirstInodesAgree ==
  ASSUME NEW n \in Nat, n < InodesPerBlock
  PROVE  /\ n \div InodesPerBlock = 0 /\ n % InodesPerBlock = n
         /\ ReaderOffset(n) = WriterOffset(n)
         /\ WriterOffset(n) + InodeSize <= FirstDataBlock * BlockSize
<1> DEFINE P == InodesPerBlock  S == InodeSize  B == BlockSize  F == FirstDataBlock
<1>1. P \in Nat \ {0} /\ S \in Nat \ {0} /\ B \in Nat \ {0} /\ F \in Nat /\ F >= 4
  BY Sizes, PositiveAssumption
<1>2. P * S <= B
  <2>1. B = S * (B \div S) + (B % S) /\ B % S >= 0
    BY <1>1, Division
  <2>2. S * P = P * S /\ S * P \in Int
    BY <1>1
  <2> QED BY <1>1, <2>1, <2>2 DEF InodesPerBlock
<1> HIDE DEF P, S, B, F
<1>3. n \div P = 0 /\ n % P = n
  BY <1>1 DEF P
<1>4. (n + 1) * S <= P * S
  BY <1>1 DEF P
<1>5. (n + 1) * S = n * S + S /\ n * S \in Int
  BY <1>1
<1>6. 4 * B <= F * B
  BY <1>1
<1>7. 3 * B + n * S + S <= F * B
  BY <1>1, <1>2, <1>4, <1>5, <1>6
<1>8. ReaderOffset(n) = (3 + 0) * B + n * S
  BY <1>3, Zenon DEF ReaderOffset, InodeTableBlock, P, B, S
<1>9. WriterOffset(n) = 3 * B + n * S
  BY Zenon DEF WriterOffset, InodeTableBlock, B, S
<1> QED BY <1>1, <1>3, <1>7, <1>8, <1>9 DEF P, S, B, F

---------------------------------------------------------------------------
(* The inductive invariant.                                                *)

(* An inode that was never allocated is all zeros, so fsso_add_file, which *)
(* sets only the direct blocks the file needs, leaves no block in it that  *)
(* belongs to somebody else.                                               *)
UnusedInv == \A n \in Inode \ inode_bitmap : inode_table[n] = ZeroInode

(* The root directory keeps its inode.                                     *)
RootInv == inode_table[RootInode] = RootEntry

(* Inode n describes file f and none of the blocks it needs is missing.    *)
WholeFile(n, f) ==
  HoldsFile(n, f) /\ \A j \in Index : j * BlockSize < f.size => inode_table[n].direct[j] # NoBlock

(* Until a call fails, the k-th file has inode k and directory slot k - 1, *)
(* and no other inode or slot is in use.                                   *)
LayoutInv ==
  status # "failed" =>
    /\ Len(added) <= EntriesPerBlock
    /\ inode_bitmap = 0 .. Len(added)
    /\ \A s \in Slot : entries[s] = IF s < Len(added) THEN [inode |-> s + 1, name |-> added[s + 1].name]
                                                     ELSE EmptyEntry
    /\ \A k \in DOMAIN added : WholeFile(k, added[k])

MkInv == MkTypeOK /\ UnusedInv /\ RootInv /\ AllocationExact /\ LayoutInv

(* What the bitmaps say until a call fails.                                *)
LEMMA ExactUntilFailure ==
  ASSUME BitmapsExact, status # "failed"
  PROVE  /\ inode_bitmap = {RootInode} \cup Named
         /\ block_bitmap = 0 .. FirstDataBlock - 1 \cup BlocksOf(RootInode) \cup NamedBlocks
  BY DEF BitmapsExact

---------------------------------------------------------------------------
(* WriteFile, which AddFile and DirectoryFull share.                       *)

(* The blocks that the scan picks for a file are distinct, free and past   *)
(* the metadata.                                                           *)
LEMMA FirstFitBlocks ==
  ASSUME MkTypeOK, NEW size \in FileSize, NEW a \in FirstFit(BlocksNeeded(size))
  PROVE  LET k == BlocksNeeded(size) IN
         /\ k \in 0 .. DirectBlocks
         /\ \A x \in 0 .. k - 1 : /\ a[x] \in Block /\ a[x] # NoBlock
                                   /\ a[x] \in FirstDataBlock .. TotalBlocks - 1
                                   /\ a[x] \notin block_bitmap
         /\ \A x, y \in 0 .. k - 1 : a[x] = a[y] => x = y
<1> DEFINE k == BlocksNeeded(size)
<1>1. k \in 0 .. DirectBlocks
  BY FileSizeAssumption
<1> HIDE DEF k
<1>2. /\ a \in [0 .. k - 1 -> FreeBlocks]
      /\ \A x, y \in 0 .. k - 1 : x < y => a[x] < a[y]
  BY DEF FirstFit, k
<1>3. \A x \in 0 .. k - 1 : a[x] \in FirstDataBlock .. TotalBlocks - 1 /\ a[x] \notin block_bitmap
  BY <1>2 DEF FreeBlocks
<1>4. \A x \in 0 .. k - 1 : a[x] \in Block /\ a[x] # NoBlock
  BY <1>3, Sizes DEF Block, NoBlock
<1>5. \A x, y \in 0 .. k - 1 : a[x] = a[y] => x = y
  BY <1>1, <1>2, <1>3, Sizes
<1> QED BY <1>1, <1>3, <1>4, <1>5 DEF k

(* What a file's inode and blocks contain afterwards.                      *)
LEMMA Written ==
  ASSUME MkTypeOK, UnusedInv,
         NEW n \in Inode, IsFreeInode(n), NEW size \in FileSize, NEW d \in Datum,
         NEW a \in FirstFit(BlocksNeeded(size)), WriteFile(n, a, BlocksNeeded(size), d, size)
  PROVE  LET k == BlocksNeeded(size) IN
         /\ inode_table' = [inode_table EXCEPT ![n] =
              [size |-> size, type |-> FSSO_TYPE_FILE,
               direct |-> [j \in Index |-> IF j < k THEN a[j] ELSE NoBlock]]]
         /\ \A x \in 0 .. k - 1 : data'[a[x]] = <<d, x>>
         /\ \A b \in Block : (\A x \in 0 .. k - 1 : a[x] # b) => data'[b] = data[b]
         /\ data' \in [Block -> (Datum \cup {NoDatum}) \X Nat]
<1> DEFINE k == BlocksNeeded(size)
<1>1. inode_table[n] = ZeroInode
  BY DEF IsFreeInode, UnusedInv
<1>2. \A j \in Index : inode_table[n].direct[j] = NoBlock
  BY <1>1 DEF ZeroInode
<1>3. /\ k \in 0 .. DirectBlocks
      /\ \A x \in 0 .. k - 1 : a[x] \in Block
      /\ \A x, y \in 0 .. k - 1 : a[x] = a[y] => x = y
  BY FirstFitBlocks
<1>4. inode_table' = [inode_table EXCEPT ![n] =
        [size |-> size, type |-> FSSO_TYPE_FILE,
         direct |-> [j \in Index |-> IF j < k THEN a[j] ELSE NoBlock]]]
  BY <1>2 DEF WriteFile
<1>5. data' = [b \in Block |-> IF \E x \in 0 .. k - 1 : a[x] = b
                                THEN <<d, CHOOSE x \in 0 .. k - 1 : a[x] = b>> ELSE data[b]]
  BY DEF WriteFile
<1> HIDE DEF k
<1>6. ASSUME NEW x \in 0 .. k - 1 PROVE data'[a[x]] = <<d, x>>
  <2>1. (CHOOSE y \in 0 .. k - 1 : a[y] = a[x]) = x
    BY <1>3
  <2>2. a[x] \in Block
    BY <1>3
  <2> QED BY <1>5, <2>1, <2>2
<1>7. \A b \in Block : (\A x \in 0 .. k - 1 : a[x] # b) => data'[b] = data[b]
  BY <1>5
<1>8. ASSUME NEW b \in Block PROVE data'[b] \in (Datum \cup {NoDatum}) \X Nat
  <2>1. CASE \E x \in 0 .. k - 1 : a[x] = b
    <3>1. PICK x \in 0 .. k - 1 : a[x] = b
      BY <2>1
    <3>2. x \in Nat
      BY <1>3
    <3>3. data'[b] = <<d, x>>
      BY <3>1, <1>6
    <3> QED BY <3>2, <3>3
  <2>2. CASE ~\E x \in 0 .. k - 1 : a[x] = b
    BY <2>2, <1>7 DEF MkTypeOK
  <2> QED BY <2>1, <2>2
<1> QED BY <1>4, <1>5, <1>6, <1>7, <1>8 DEF k

(* WriteFile keeps the parts of the invariant that hold even after a call  *)
(* that fails.                                                             *)
LEMMA WritePreserves ==
  ASSUME MkTypeOK, UnusedInv, RootInv, BlocksNotShared,
         NEW n \in Inode, IsFreeInode(n), NEW size \in FileSize, NEW d \in Datum,
         NEW a \in FirstFit(BlocksNeeded(size)), WriteFile(n, a, BlocksNeeded(size), d, size)
  PROVE  /\ inode_bitmap' \subseteq Inode /\ block_bitmap' \subseteq Block
         /\ inode_table' \in [Inode -> [size : Nat, type : 0 .. 2, direct : [Index -> Block]]]
         /\ data' \in [Block -> (Datum \cup {NoDatum}) \X Nat]
         /\ UnusedInv' /\ RootInv' /\ BlocksNotShared'
<1> DEFINE k == BlocksNeeded(size)
           A == {a[x] : x \in 0 .. k - 1}
           direct == [j \in Index |-> IF j < k THEN a[j] ELSE NoBlock]
           new == [size |-> size, type |-> FSSO_TYPE_FILE, direct |-> direct]
<1>1. /\ inode_table' = [inode_table EXCEPT ![n] = new]
      /\ data' \in [Block -> (Datum \cup {NoDatum}) \X Nat]
  BY Written
<1>2. /\ k \in 0 .. DirectBlocks
      /\ \A x \in 0 .. k - 1 : /\ a[x] \in Block /\ a[x] # NoBlock
                                /\ a[x] \in FirstDataBlock .. TotalBlocks - 1
                                /\ a[x] \notin block_bitmap
  BY FirstFitBlocks
<1>3. inode_bitmap' = inode_bitmap \cup {n} /\ block_bitmap' = block_bitmap \cup A
  BY DEF WriteFile
<1> HIDE DEF k
<1>4. inode_bitmap' \subseteq Inode /\ block_bitmap' \subseteq Block
  BY <1>2, <1>3 DEF MkTypeOK
<1>5. new \in [size : Nat, type : 0 .. 2, direct : [Index -> Block]]
  <2>1. direct \in [Index -> Block]
    BY <1>2, Sizes DEF Index, NoBlock, Block
  <2>2. size \in Nat /\ FSSO_TYPE_FILE \in 0 .. 2
    BY FileSizeAssumption DEF FSSO_TYPE_FILE
  <2> QED BY <2>1, <2>2
<1>6. inode_table' \in [Inode -> [size : Nat, type : 0 .. 2, direct : [Index -> Block]]]
  BY <1>1, <1>5 DEF MkTypeOK
<1>7. UnusedInv'
  BY <1>1, <1>3 DEF UnusedInv, MkTypeOK
<1>8. inode_table'[n] = new /\ \A m \in Inode \ {n} : inode_table'[m] = inode_table[m]
  BY <1>1 DEF MkTypeOK
<1>14. RootInv'
  <2>1. RootInode \in Inode \ {n}
    BY Sizes DEF IsFreeInode, Inode, RootInode
  <2> QED BY <1>8, <2>1 DEF RootInv
<1>9. BlocksOf(n)' = A
  <2>1. BlocksOf(n)' = {direct[j] : j \in Index} \ {NoBlock}
    BY <1>8 DEF BlocksOf
  <2>2. \A j \in Index : j < k => direct[j] = a[j] /\ j \in 0 .. k - 1
    BY <1>2, Sizes DEF Index
  <2>3. \A j \in Index : ~(j < k) => direct[j] = NoBlock
    OBVIOUS
  <2>4. \A x \in 0 .. k - 1 : x \in Index /\ direct[x] = a[x] /\ a[x] # NoBlock
    BY <1>2, Sizes DEF Index
  <2> HIDE DEF direct
  <2> QED BY <2>1, <2>2, <2>3, <2>4
<1>10. \A m \in Inode \ {n} : BlocksOf(m)' = BlocksOf(m)
  BY <1>8 DEF BlocksOf
<1>11. A \cap block_bitmap = {} /\ A \subseteq FirstDataBlock .. TotalBlocks - 1
  BY <1>2
<1>12. \A m \in Inode : BlocksOf(m) \subseteq block_bitmap
  BY DEF BlocksNotShared
<1>13. BlocksNotShared'
  <2> SUFFICES ASSUME NEW m \in Inode
               PROVE  /\ BlocksOf(m)' \subseteq block_bitmap' \cap (FirstDataBlock .. TotalBlocks - 1)
                      /\ \A l \in Inode : l # m => BlocksOf(m)' \cap BlocksOf(l)' = {}
    BY DEF BlocksNotShared
  <2> HIDE DEF A
  <2>1. /\ BlocksOf(m) \subseteq block_bitmap \cap (FirstDataBlock .. TotalBlocks - 1)
        /\ \A l \in Inode : l # m => BlocksOf(m) \cap BlocksOf(l) = {}
    BY DEF BlocksNotShared
  <2>2. CASE m = n
    BY <2>2, <1>3, <1>9, <1>10, <1>11, <1>12
  <2>3. CASE m # n
    BY <2>3, <2>1, <1>3, <1>9, <1>10, <1>11, <1>12
  <2> QED BY <2>2, <2>3
<1> QED BY <1>1, <1>4, <1>6, <1>7, <1>13, <1>14

(* The blocks that a file gets.                                            *)
Taken(a, k) == {a[x] : x \in 0 .. k - 1}

(* They are free ones, they become those of its inode, and the blocks of   *)
(* the other inodes are untouched.                                         *)
LEMMA WriteBlocks ==
  ASSUME MkTypeOK, UnusedInv,
         NEW n \in Inode, IsFreeInode(n), NEW size \in FileSize, NEW d \in Datum,
         NEW a \in FirstFit(BlocksNeeded(size)), WriteFile(n, a, BlocksNeeded(size), d, size)
  PROVE  LET A == Taken(a, BlocksNeeded(size)) IN
         /\ inode_bitmap' = inode_bitmap \cup {n} /\ block_bitmap' = block_bitmap \cup A
         /\ BlocksOf(n)' = A /\ \A m \in Inode \ {n} : BlocksOf(m)' = BlocksOf(m)
         /\ A \cap block_bitmap = {}
<1> DEFINE k == BlocksNeeded(size)
           direct == [j \in Index |-> IF j < k THEN a[j] ELSE NoBlock]
           new == [size |-> size, type |-> FSSO_TYPE_FILE, direct |-> direct]
<1>1. inode_table' = [inode_table EXCEPT ![n] = new]
  BY Written
<1>2. /\ k \in 0 .. DirectBlocks
      /\ \A x \in 0 .. k - 1 : a[x] # NoBlock /\ a[x] \notin block_bitmap
  BY FirstFitBlocks
<1>3. inode_bitmap' = inode_bitmap \cup {n} /\ block_bitmap' = block_bitmap \cup Taken(a, k)
  BY DEF WriteFile, Taken
<1> HIDE DEF k
<1>4. inode_table'[n] = new /\ \A m \in Inode \ {n} : inode_table'[m] = inode_table[m]
  BY <1>1 DEF MkTypeOK
<1>5. BlocksOf(n)' = Taken(a, k)
  <2>1. BlocksOf(n)' = {direct[j] : j \in Index} \ {NoBlock}
    BY <1>4 DEF BlocksOf
  <2>2. \A j \in Index : j < k => direct[j] = a[j] /\ j \in 0 .. k - 1
    BY <1>2, Sizes DEF Index
  <2>3. \A j \in Index : ~(j < k) => direct[j] = NoBlock
    OBVIOUS
  <2>4. \A x \in 0 .. k - 1 : x \in Index /\ direct[x] = a[x] /\ a[x] # NoBlock
    BY <1>2, Sizes DEF Index
  <2> HIDE DEF direct
  <2> QED BY <2>1, <2>2, <2>3, <2>4 DEF Taken
<1>6. \A m \in Inode \ {n} : BlocksOf(m)' = BlocksOf(m)
  BY <1>4 DEF BlocksOf
<1>7. Taken(a, k) \cap block_bitmap = {}
  BY <1>2 DEF Taken
<1> QED BY <1>3, <1>5, <1>6, <1>7 DEF k

(* There are as many as the file needs.                                    *)
LEMMA TakenCount ==
  ASSUME MkTypeOK, NEW size \in FileSize, NEW a \in FirstFit(BlocksNeeded(size))
  PROVE  /\ IsFiniteSet(Taken(a, BlocksNeeded(size)))
         /\ Cardinality(Taken(a, BlocksNeeded(size))) = BlocksNeeded(size)
<1> DEFINE k == BlocksNeeded(size)
           A == Taken(a, k)
<1>1. k \in 0 .. DirectBlocks /\ \A x, y \in 0 .. k - 1 : a[x] = a[y] => x = y
  BY FirstFitBlocks
<1>2. a \in [0 .. k - 1 -> A] /\ \A y \in A : \E x \in 0 .. k - 1 : a[x] = y
  <2>1. a \in [0 .. k - 1 -> FreeBlocks]
    BY DEF FirstFit
  <2> QED BY <2>1 DEF Taken
<1> HIDE DEF k
<1>3. IsFiniteSet(0 .. k - 1) /\ Cardinality(0 .. k - 1) = k
  BY <1>1, FS_Interval
<1>4. a \in Bijection(0 .. k - 1, A)
  BY <1>1, <1>2 DEF Bijection, Injection, Surjection, IsInjective
<1>5. ExistsBijection(0 .. k - 1, A)
  BY <1>4 DEF ExistsBijection
<1> HIDE DEF A
<1>6. IsFiniteSet(A) /\ Cardinality(A) = k
  BY <1>3, <1>5, FS_Bijection
<1> QED BY <1>6 DEF A, k

(* What is named is on the disk, so that it can be counted.                *)
LEMMA NamedFinite ==
  ASSUME MkTypeOK
  PROVE  /\ Named \subseteq Inode /\ NamedBlocks \subseteq Block
         /\ IsFiniteSet(Named) /\ IsFiniteSet(NamedBlocks)
         /\ Cardinality(Named) \in Nat /\ Cardinality(NamedBlocks) \in Nat
<1>1. Named \subseteq Inode
  BY DEF MkTypeOK, Named
<1>2. \A n \in Inode : BlocksOf(n) \subseteq Block
  BY DEF MkTypeOK, BlocksOf
<1>3. NamedBlocks \subseteq Block
  BY <1>1, <1>2 DEF NamedBlocks
<1>4. IsFiniteSet(Inode) /\ IsFiniteSet(Block)
  BY FS_Interval, Sizes DEF Inode, Block
<1>5. IsFiniteSet(Named) /\ IsFiniteSet(NamedBlocks)
  BY <1>1, <1>3, <1>4, FS_Subset
<1> QED BY <1>1, <1>3, <1>5, FS_CardinalityType

(* The files that fsso_add_file is given.                                  *)
File == [name : Name, data : Datum, size : FileSize]

(* The inode describes the file, and the files of other inodes are         *)
(* untouched.                                                              *)
LEMMA WriteHolds ==
  ASSUME MkTypeOK, UnusedInv, BlocksNotShared,
         NEW n \in Inode, IsFreeInode(n), NEW f \in File,
         NEW a \in FirstFit(BlocksNeeded(f.size)), WriteFile(n, a, BlocksNeeded(f.size), f.data, f.size)
  PROVE  /\ WholeFile(n, f)'
         /\ \A m \in Inode \ {n}, g \in File : WholeFile(m, g) => WholeFile(m, g)'
<1> DEFINE size == f.size
           d == f.data
           k == BlocksNeeded(size)
           direct == [j \in Index |-> IF j < k THEN a[j] ELSE NoBlock]
           new == [size |-> size, type |-> FSSO_TYPE_FILE, direct |-> direct]
<1>1. size \in FileSize /\ d \in Datum /\ size \in Nat
  BY FileSizeAssumption DEF File
<1>2. /\ inode_table' = [inode_table EXCEPT ![n] = new]
      /\ \A x \in 0 .. k - 1 : data'[a[x]] = <<d, x>>
      /\ \A b \in Block : (\A x \in 0 .. k - 1 : a[x] # b) => data'[b] = data[b]
  BY <1>1, Written
<1>3. /\ k \in 0 .. DirectBlocks
      /\ \A x \in 0 .. k - 1 : a[x] \notin block_bitmap /\ a[x] # NoBlock
  BY <1>1, FirstFitBlocks
<1>4. \A j \in Index : j \in Nat /\ (j < k <=> j * BlockSize < size)
  BY <1>1, NeededBlocks, Sizes DEF Index
<1> HIDE DEF size, d, k
<1>5. inode_table'[n] = new /\ \A m \in Inode \ {n} : inode_table'[m] = inode_table[m]
  BY <1>2 DEF MkTypeOK
<1>6. WholeFile(n, f)'
  <2>1. new.type = FSSO_TYPE_FILE /\ new.size = size /\ new.direct = direct
    OBVIOUS
  <2>2. ASSUME NEW j \in Index
        PROVE  IF j * BlockSize < size THEN data'[direct[j]] = <<d, j>> /\ direct[j] # NoBlock ELSE direct[j] = NoBlock
    <3>1. CASE j < k
      <4>1. j \in 0 .. k - 1 /\ direct[j] = a[j]
        BY <3>1, <1>3, <1>4
      <4> QED BY <3>1, <4>1, <1>2, <1>3, <1>4
    <3>2. CASE ~(j < k)
      BY <3>2, <1>4
    <3> QED BY <3>1, <3>2
  <2> HIDE DEF new, direct
  <2> QED BY <1>5, <2>1, <2>2 DEF WholeFile, HoldsFile, size, d
<1>7. ASSUME NEW m \in Inode \ {n}, NEW g \in File, WholeFile(m, g)
      PROVE  WholeFile(m, g)'
  <2>1. inode_table'[m] = inode_table[m]
    BY <1>5
  <2>2. ASSUME NEW j \in Index
        PROVE  data'[inode_table[m].direct[j]] = data[inode_table[m].direct[j]]
    <3>1. inode_table[m].direct[j] \in Block
      BY DEF MkTypeOK
    <3>2. inode_table[m].direct[j] = NoBlock \/ inode_table[m].direct[j] \in block_bitmap
      BY DEF BlocksNotShared, BlocksOf
    <3> QED BY <1>2, <1>3, <3>1, <3>2
  <2> QED BY <1>7, <2>1, <2>2 DEF WholeFile, HoldsFile
<1> QED BY <1>6, <1>7

---------------------------------------------------------------------------
(* The invariant holds at first and is preserved.                          *)

(* main formats an empty image.                                            *)
LEMMA FormatInv == Format => MkInv
<1> SUFFICES ASSUME Format PROVE MkInv
  OBVIOUS
<1>1. MkTypeOK
  <2>1. RootEntry \in [size : Nat, type : 0 .. 2, direct : [Index -> Block]]
    <3>1. [j \in Index |-> IF j = 0 THEN FirstDataBlock ELSE NoBlock] \in [Index -> Block]
      BY Sizes DEF Block, NoBlock
    <3> QED BY <3>1 DEF RootEntry, FSSO_TYPE_DIR
  <2>2. ZeroInode \in [size : Nat, type : 0 .. 2, direct : [Index -> Block]]
    BY Sizes DEF ZeroInode, Block, NoBlock
  <2>3. inode_table \in [Inode -> [size : Nat, type : 0 .. 2, direct : [Index -> Block]]]
    BY <2>1, <2>2 DEF Format
  <2>4. entries \in [Slot -> [inode : Inode, name : Name \cup {NoName}]]
    BY Sizes DEF Format, EmptyEntry, Inode
  <2>5. data \in [Block -> (Datum \cup {NoDatum}) \X Nat]
    BY DEF Format, ZeroChunk
  <2>6. inode_bitmap \subseteq Inode /\ block_bitmap \subseteq Block
    BY Sizes DEF Format, RootInode, Inode, Block
  <2>7. free_blocks \in Int /\ free_inodes \in Int /\ status \in {"adding", "failed", "written"} /\ added = <<>>
    BY Sizes DEF Format
  <2> QED BY <2>3, <2>4, <2>5, <2>6, <2>7 DEF MkTypeOK
<1>2. UnusedInv
  BY DEF Format, UnusedInv
<1>6. RootInv
  BY Sizes DEF Format, RootInv, Inode, RootInode
<1>3. BlocksNotShared
  <2>1. \A n \in Inode : n # RootInode => BlocksOf(n) = {}
    BY DEF Format, BlocksOf, ZeroInode
  <2>2. RootInode \in Inode => BlocksOf(RootInode) \subseteq {FirstDataBlock}
    BY DEF Format, BlocksOf, RootEntry
  <2>3. FirstDataBlock \in block_bitmap \cap (FirstDataBlock .. TotalBlocks - 1)
    BY Sizes DEF Format
  <2> QED BY <2>1, <2>2, <2>3 DEF BlocksNotShared
<1>4. BitmapsExact /\ CountersExact
  <2>1. Named = {}
    BY DEF Format, Named, EmptyEntry, RootInode
  <2>2. NamedBlocks = {}
    BY <2>1 DEF NamedBlocks
  <2>3. RootInode \in Inode /\ 0 \in Index
    BY Sizes DEF Inode, RootInode, Index
  <2>4. BlocksOf(RootInode) = {FirstDataBlock}
    <3>1. inode_table[RootInode] = RootEntry
      BY <1>6 DEF RootInv
    <3>2. RootEntry.direct = [j \in Index |-> IF j = 0 THEN FirstDataBlock ELSE NoBlock]
      BY DEF RootEntry
    <3>3. FirstDataBlock # NoBlock
      BY Sizes DEF NoBlock
    <3> QED BY <2>3, <3>1, <3>2, <3>3 DEF BlocksOf
  <2>5. 0 .. FirstDataBlock = 0 .. FirstDataBlock - 1 \cup {FirstDataBlock}
    BY Sizes
  <2>6. Cardinality({}) = 0
    BY FS_EmptySet
  <2> QED BY <2>1, <2>2, <2>4, <2>5, <2>6, Sizes DEF Format, BitmapsExact, CountersExact
<1>5. LayoutInv
  <2>1. Len(added) = 0 /\ DOMAIN added = {}
    BY DEF Format
  <2>2. inode_bitmap = 0 .. 0
    BY DEF Format, RootInode
  <2>3. \A s \in Slot : ~(s < 0) /\ entries[s] = EmptyEntry
    BY Sizes DEF Format, Slot
  <2> QED BY <2>1, <2>2, <2>3, Sizes DEF LayoutInv
<1> QED BY <1>1, <1>2, <1>3, <1>4, <1>5, <1>6 DEF MkInv, AllocationExact

(* Until a call fails, the next file gets the inode and the slot after     *)
(* those of the last one.                                                  *)
LEMMA NextInPlace ==
  ASSUME MkTypeOK, LayoutInv, status # "failed"
  PROVE  /\ Len(added) \in Nat
         /\ \A n \in Inode : IsFreeInode(n) => n = Len(added) + 1
         /\ \A s \in Slot : IsEmptySlot(s) => s = Len(added)
<1> DEFINE len == Len(added)
<1>1. len \in Nat
  BY LenProperties DEF MkTypeOK
<1>2. /\ inode_bitmap = 0 .. len
      /\ \A s \in Slot : entries[s] = IF s < len THEN [inode |-> s + 1, name |-> added[s + 1].name] ELSE EmptyEntry
  BY DEF LayoutInv
<1> HIDE DEF len
<1>3. ASSUME NEW n \in Inode, IsFreeInode(n) PROVE n = len + 1
  <2>1. n \in Nat /\ n > len
    BY <1>1, <1>2, <1>3, Sizes DEF Inode, IsFreeInode
  <2>2. len + 1 < n => len + 1 \in Inode \ {RootInode} /\ len + 1 \notin inode_bitmap
    BY <1>1, <1>2, <2>1, Sizes DEF Inode, RootInode
  <2> QED BY <1>1, <1>3, <2>1, <2>2 DEF IsFreeInode
<1>4. \A s \in Slot : s \in Nat /\ (entries[s].inode = 0 <=> s >= len)
  <2> TAKE s \in Slot
  <2>1. s \in Nat
    BY Sizes DEF Slot
  <2>2. CASE s < len
    <3>1. entries[s] = [inode |-> s + 1, name |-> added[s + 1].name]
      BY <1>2, <2>2, Zenon
    <3>2. entries[s].inode = s + 1
      BY <3>1
    <3> QED BY <1>1, <2>1, <2>2, <3>2
  <2>3. CASE ~(s < len)
    <3>1. entries[s] = EmptyEntry
      BY <1>2, <2>3, Zenon
    <3>2. entries[s].inode = 0
      BY <3>1 DEF EmptyEntry
    <3> QED BY <1>1, <2>1, <2>3, <3>2
  <2> QED BY <2>2, <2>3
<1>5. ASSUME NEW s \in Slot, IsEmptySlot(s) PROVE s = len
  <2>1. s \in Nat /\ s >= len
    BY <1>4, <1>5 DEF IsEmptySlot
  <2>2. len < s => len \in Slot
    BY <1>1, <2>1, Sizes DEF Slot
  <2> QED BY <1>1, <1>4, <1>5, <2>1, <2>2 DEF IsEmptySlot
<1> QED BY <1>1, <1>3, <1>5 DEF len

(* Another file in the image.                                              *)
LEMMA AddFileInv ==
  ASSUME MkInv, NEW name \in Name, NEW d \in Datum, NEW size \in FileSize, AddFile(name, d, size)
  PROVE  MkInv'
<1> DEFINE f == [name |-> name, data |-> d, size |-> size]
<1> USE DEF MkInv, AllocationExact
<1>1. PICK n \in Inode, a \in FirstFit(BlocksNeeded(size)), s \in Slot :
        /\ IsFreeInode(n) /\ IsEmptySlot(s)
        /\ WriteFile(n, a, BlocksNeeded(size), d, size)
        /\ entries' = [entries EXCEPT ![s] = [inode |-> n, name |-> name]]
  BY DEF AddFile
<1>2. /\ status = "adding" /\ status' = status
      /\ free_inodes' = free_inodes - 1 /\ free_blocks' = free_blocks - BlocksNeeded(size)
      /\ added' = Append(added, f)
  BY DEF AddFile
<1>3. f \in File /\ f.name = name /\ f.data = d /\ f.size = size
  BY DEF File
<1>4. added \in Seq(File)
  BY DEF MkTypeOK, File
<1> HIDE DEF f
<1>5. /\ added' \in Seq(File) /\ Len(added') = Len(added) + 1 /\ Len(added) \in Nat
      /\ added'[Len(added) + 1] = f /\ \A l \in 1 .. Len(added) : added'[l] = added[l]
      /\ DOMAIN added = 1 .. Len(added) /\ DOMAIN added' = 1 .. Len(added) + 1
  BY <1>2, <1>3, <1>4, AppendProperties, LenProperties
<1>6. n = Len(added) + 1 /\ s = Len(added)
  BY <1>1, <1>2, NextInPlace
<1>7. /\ inode_bitmap' \subseteq Inode /\ block_bitmap' \subseteq Block
      /\ inode_table' \in [Inode -> [size : Nat, type : 0 .. 2, direct : [Index -> Block]]]
      /\ data' \in [Block -> (Datum \cup {NoDatum}) \X Nat]
      /\ UnusedInv' /\ RootInv' /\ BlocksNotShared'
  BY <1>1, WritePreserves
<1>8. MkTypeOK'
  <2>1. entries' \in [Slot -> [inode : Inode, name : Name \cup {NoName}]]
    BY <1>1 DEF MkTypeOK
  <2>2. BlocksNeeded(size) \in Int
    BY FileSizeAssumption
  <2>3. free_inodes' \in Int /\ free_blocks' \in Int
    BY <1>2, <2>2 DEF MkTypeOK
  <2> QED BY <1>2, <1>5, <1>7, <2>1, <2>3 DEF MkTypeOK, File
<1>9. BitmapsExact' /\ CountersExact'
  <2> DEFINE A == Taken(a, BlocksNeeded(size))
  <2>1. /\ inode_bitmap' = inode_bitmap \cup {n} /\ block_bitmap' = block_bitmap \cup A
        /\ BlocksOf(n)' = A /\ \A m \in Inode \ {n} : BlocksOf(m)' = BlocksOf(m)
        /\ A \cap block_bitmap = {}
    BY <1>1, WriteBlocks
  <2>2. IsFiniteSet(A) /\ Cardinality(A) = BlocksNeeded(size) /\ BlocksNeeded(size) \in Int
    BY TakenCount, FileSizeAssumption
  <2> HIDE DEF A
  <2>3. /\ inode_bitmap = {RootInode} \cup Named
        /\ block_bitmap = 0 .. FirstDataBlock - 1 \cup BlocksOf(RootInode) \cup NamedBlocks
    BY <1>2, ExactUntilFailure
  <2>4. n \notin Named /\ n # RootInode /\ n \in Inode /\ RootInode \in Inode /\ entries[s].inode = RootInode
    BY <1>1, <2>3, Sizes DEF IsFreeInode, IsEmptySlot, Inode, RootInode
  <2>5. Named' = Named \cup {n}
    <3>1. \A t \in Slot : entries'[t].inode = IF t = s THEN n ELSE entries[t].inode
      BY <1>1 DEF MkTypeOK
    <3> QED BY <1>1, <2>4, <3>1 DEF Named
  <2>6. Named \subseteq Inode \ {n}
    BY <2>4, NamedFinite
  <2>7. NamedBlocks' = NamedBlocks \cup A
    <3>1. NamedBlocks' = UNION {BlocksOf(m)' : m \in Named'}
      BY DEF NamedBlocks
    <3>2. \A m \in Named : BlocksOf(m)' = BlocksOf(m)
      BY <2>1, <2>6
    <3> QED BY <2>1, <2>5, <3>1, <3>2 DEF NamedBlocks
  <2>8. BlocksOf(RootInode)' = BlocksOf(RootInode)
    BY <2>1, <2>4
  <2>9. BitmapsExact'
    BY <2>1, <2>3, <2>5, <2>7, <2>8 DEF BitmapsExact
  <2>10. Cardinality(Named') = Cardinality(Named) + 1
    BY <2>4, <2>5, NamedFinite, FS_AddElement
  <2>11. Cardinality(NamedBlocks') = Cardinality(NamedBlocks) + BlocksNeeded(size)
    <3>1. NamedBlocks \cap A = {}
      BY <2>1, <2>3
    <3>2. Cardinality(NamedBlocks') = Cardinality(NamedBlocks) + Cardinality(A) - Cardinality({})
      BY <2>2, <2>7, <3>1, NamedFinite, FS_Union
    <3> QED BY <2>2, <3>2, NamedFinite, FS_EmptySet
  <2>12. /\ free_inodes = TotalInodes - 1 - Cardinality(Named)
         /\ free_blocks = TotalBlocks - FirstDataBlock - Cardinality(NamedBlocks)
         /\ Cardinality(Named) \in Nat /\ Cardinality(NamedBlocks) \in Nat
    BY NamedFinite DEF CountersExact
  <2>13. CountersExact'
    <3>1. free_inodes' = TotalInodes - 1 - Cardinality(Named')
      BY <1>2, <2>10, <2>12, Sizes
    <3>2. free_blocks' = TotalBlocks - FirstDataBlock - Cardinality(NamedBlocks')
      BY <1>2, <2>2, <2>11, <2>12, Sizes
    <3> QED BY <3>1, <3>2 DEF CountersExact
  <2> QED BY <2>9, <2>13
<1>10. LayoutInv'
  <2>1. /\ Len(added) <= EntriesPerBlock /\ inode_bitmap = 0 .. Len(added)
        /\ \A t \in Slot : entries[t] = IF t < Len(added) THEN [inode |-> t + 1, name |-> added[t + 1].name]
                                                           ELSE EmptyEntry
        /\ \A l \in DOMAIN added : WholeFile(l, added[l])
    BY <1>2 DEF LayoutInv
  <2>2. Len(added') <= EntriesPerBlock
    BY <1>5, <1>6, Sizes DEF Slot
  <2>3. inode_bitmap' = 0 .. Len(added')
    BY <1>1, <1>5, <1>6, <2>1 DEF WriteFile
  <2>4. ASSUME NEW t \in Slot
        PROVE  entries'[t] = IF t < Len(added') THEN [inode |-> t + 1, name |-> added'[t + 1].name]
                                                ELSE EmptyEntry
    <3>0. t \in Nat
      BY Sizes DEF Slot
    <3>1. CASE t = s
      <4>1. entries'[t] = [inode |-> n, name |-> name]
        BY <1>1, <3>1 DEF MkTypeOK
      <4>2. t + 1 = n /\ t < Len(added') /\ added'[t + 1].name = name
        BY <1>3, <1>5, <1>6, <3>1
      <4> QED BY <4>1, <4>2
    <3>2. CASE t # s
      <4>1. entries'[t] = entries[t]
        BY <1>1, <3>2 DEF MkTypeOK
      <4>2. t < Len(added) <=> t < Len(added')
        <5>1. Len(added') = Len(added) + 1 /\ Len(added) \in Nat /\ t # Len(added)
          BY <3>2, <1>5, <1>6
        <5> QED BY <5>1, <3>0
      <4>3. t < Len(added) => added'[t + 1] = added[t + 1]
        BY <3>0, <1>5
      <4> QED BY <2>1, <4>1, <4>2, <4>3
    <3> QED BY <3>1, <3>2
  <2>5. /\ WholeFile(n, f)'
        /\ \A m \in Inode \ {n}, g \in File : WholeFile(m, g) => WholeFile(m, g)'
    BY <1>1, <1>3, WriteHolds
  <2>6. ASSUME NEW l \in DOMAIN added' PROVE WholeFile(l, added[l])'
    <3>1. CASE l = n
      <4>1. added'[l] = f
        BY <3>1, <1>5, <1>6
      <4> QED BY <3>1, <4>1, <2>5 DEF WholeFile, HoldsFile
    <3>2. CASE l # n
      <4>1. l \in 1 .. Len(added) /\ added'[l] = added[l]
        BY <3>2, <1>5, <1>6
      <4>2. PICK g \in File : g = added[l]
        BY <4>1, <1>4, <1>5, ElementOfSeq
      <4>3. l \in Inode \ {n}
        BY <4>1, <3>2, <1>5, <2>1, Sizes DEF Inode
      <4>4. WholeFile(l, g)
        BY <4>1, <4>2, <2>1, <1>5
      <4>5. WholeFile(l, g)'
        BY <2>5, <4>3, <4>4
      <4> QED BY <4>1, <4>2, <4>5 DEF WholeFile, HoldsFile
    <3> QED BY <3>1, <3>2
  <2> QED BY <2>2, <2>3, <2>4, <2>6 DEF LayoutInv
<1> QED BY <1>7, <1>8, <1>9, <1>10

(* Steps that leave the image alone.                                       *)
LEMMA SameImage ==
  ASSUME MkInv, UNCHANGED <<imageVars, added>>, status' \in {"adding", "failed", "written"},
         status' # "failed" => status # "failed"
  PROVE  MkInv'
<1>1. /\ free_blocks' = free_blocks /\ free_inodes' = free_inodes
      /\ inode_bitmap' = inode_bitmap /\ block_bitmap' = block_bitmap
      /\ inode_table' = inode_table /\ entries' = entries /\ data' = data /\ added' = added
  BY DEF imageVars
<1>2. MkTypeOK'
  BY <1>1 DEF MkInv, MkTypeOK
<1>3. UnusedInv'
  BY <1>1, Zenon DEF MkInv, UnusedInv
<1>7. RootInv'
  BY <1>1 DEF MkInv, RootInv
<1>4. BlocksNotShared'
  <2>1. \A n : BlocksOf(n)' = BlocksOf(n)
    BY <1>1 DEF BlocksOf
  <2> QED BY <1>1, <2>1, Zenon DEF MkInv, AllocationExact, BlocksNotShared
<1>5. BitmapsExact' /\ CountersExact'
  <2>1. Named' = Named /\ \A n : BlocksOf(n)' = BlocksOf(n)
    BY <1>1 DEF Named, BlocksOf
  <2>2. NamedBlocks' = NamedBlocks
    BY <1>1 DEF NamedBlocks, Named, BlocksOf
  <2>3. CountersExact'
    BY <1>1, <2>1, <2>2 DEF MkInv, AllocationExact, CountersExact
  <2>4. CASE status = "failed"
    <3>1. BitmapsExact /\ status' = status
      BY <2>4 DEF MkInv, AllocationExact
    <3>2. BitmapsExact'
      BY <1>1, <2>1, <2>2, <3>1, Zenon DEF BitmapsExact
    <3> QED BY <2>3, <3>2
  <2>5. CASE status # "failed"
    <3>1. /\ inode_bitmap = {RootInode} \cup Named
          /\ block_bitmap = 0 .. FirstDataBlock - 1 \cup BlocksOf(RootInode) \cup NamedBlocks
      BY <2>5, ExactUntilFailure DEF MkInv, AllocationExact
    <3> QED BY <1>1, <2>1, <2>2, <2>3, <3>1 DEF BitmapsExact
  <2> QED BY <2>3, <2>4, <2>5
<1>6. LayoutInv'
  <2>1. \A k : WholeFile(k, added[k])' <=> WholeFile(k, added[k])
    BY <1>1, Zenon DEF WholeFile, HoldsFile
  <2> QED BY <1>1, <2>1, Zenon DEF MkInv, LayoutInv
<1> QED BY <1>2, <1>3, <1>4, <1>5, <1>6, <1>7 DEF MkInv, AllocationExact

(* Every step of the builder, those that fail half way included.           *)
LEMMA NextMkInv == MkInv /\ [MkNext]_mkVars => MkInv'
<1> SUFFICES ASSUME MkInv, [MkNext]_mkVars PROVE MkInv'
  OBVIOUS
<1>1. CASE NoFreeInodes
  BY <1>1, SameImage DEF NoFreeInodes
<1>2. ASSUME NEW size \in FileSize, NotEnoughBlocks(size) PROVE MkInv'
  <2>1. PICK n \in Inode : IsFreeInode(n) /\ inode_bitmap' = inode_bitmap \cup {n}
    BY <1>2 DEF NotEnoughBlocks
  <2>2. /\ block_bitmap' = block_bitmap \cup FreeBlocks /\ status' = "failed" /\ status # "failed"
        /\ UNCHANGED <<free_blocks, free_inodes, inode_table, entries, data, added>>
    BY <1>2 DEF NotEnoughBlocks
  <2>3. FreeBlocks \subseteq Block
    BY Sizes DEF FreeBlocks, Block
  <2>4. MkTypeOK'
    BY <2>1, <2>2, <2>3 DEF MkInv, MkTypeOK
  <2>5. UnusedInv'
    BY <2>1, <2>2 DEF MkInv, UnusedInv
  <2>6. BlocksNotShared'
    BY <2>2 DEF MkInv, AllocationExact, BlocksNotShared, BlocksOf
  <2>7. Named' = Named /\ NamedBlocks' = NamedBlocks /\ \A m : BlocksOf(m)' = BlocksOf(m)
    BY <2>2 DEF NamedBlocks, Named, BlocksOf
  <2>8. /\ inode_bitmap = {RootInode} \cup Named
        /\ block_bitmap = 0 .. FirstDataBlock - 1 \cup BlocksOf(RootInode) \cup NamedBlocks
    BY <2>2, ExactUntilFailure DEF MkInv, AllocationExact
  <2>9. n \notin inode_bitmap
    BY <2>1 DEF IsFreeInode
  <2>10. BlocksOf(n) = {}
    <3>1. inode_table[n] = ZeroInode
      BY <2>9 DEF MkInv, UnusedInv
    <3>2. \A j \in Index : inode_table[n].direct[j] = NoBlock
      BY <3>1 DEF ZeroInode
    <3> QED BY <3>2 DEF BlocksOf
  <2>11. block_bitmap' = Block
    <3>1. 0 .. FirstDataBlock - 1 \subseteq block_bitmap /\ block_bitmap \subseteq Block
      BY <2>8 DEF MkInv, MkTypeOK
    <3>2. \A b \in Block : b \in 0 .. FirstDataBlock - 1 \/ b \in FirstDataBlock .. TotalBlocks - 1
      BY Sizes DEF Block
    <3>3. Block \subseteq block_bitmap'
      BY <2>2, <3>1, <3>2 DEF FreeBlocks
    <3> QED BY <2>2, <2>3, <3>1, <3>3
  <2>12. BitmapsExact'
    BY <2>1, <2>2, <2>7, <2>8, <2>9, <2>10, <2>11 DEF BitmapsExact
  <2>13. CountersExact'
    BY <2>2, <2>7 DEF MkInv, AllocationExact, CountersExact
  <2>14. RootInv' /\ LayoutInv'
    BY <2>2 DEF MkInv, RootInv, LayoutInv
  <2> QED BY <2>4, <2>5, <2>6, <2>12, <2>13, <2>14 DEF MkInv, AllocationExact
<1>3. ASSUME NEW size \in FileSize, NEW d \in Datum, DirectoryFull(d, size) PROVE MkInv'
  <2>1. PICK n \in Inode, a \in FirstFit(BlocksNeeded(size)) :
          IsFreeInode(n) /\ WriteFile(n, a, BlocksNeeded(size), d, size)
    BY <1>3 DEF DirectoryFull
  <2>2. status' = "failed" /\ status # "failed" /\ UNCHANGED <<free_blocks, free_inodes, entries, added>>
    BY <1>3 DEF DirectoryFull
  <2>3. /\ inode_bitmap' \subseteq Inode /\ block_bitmap' \subseteq Block
        /\ inode_table' \in [Inode -> [size : Nat, type : 0 .. 2, direct : [Index -> Block]]]
        /\ data' \in [Block -> (Datum \cup {NoDatum}) \X Nat]
        /\ UnusedInv' /\ RootInv' /\ BlocksNotShared'
    BY <2>1, WritePreserves DEF MkInv, AllocationExact
  <2>4. MkTypeOK'
    BY <2>2, <2>3 DEF MkInv, MkTypeOK
  <2> DEFINE A == Taken(a, BlocksNeeded(size))
  <2>5. /\ inode_bitmap' = inode_bitmap \cup {n} /\ block_bitmap' = block_bitmap \cup A
        /\ BlocksOf(n)' = A /\ \A m \in Inode \ {n} : BlocksOf(m)' = BlocksOf(m)
    BY <2>1, WriteBlocks DEF MkInv
  <2> HIDE DEF A
  <2>6. /\ inode_bitmap = {RootInode} \cup Named
        /\ block_bitmap = 0 .. FirstDataBlock - 1 \cup BlocksOf(RootInode) \cup NamedBlocks
    BY <2>2, ExactUntilFailure DEF MkInv, AllocationExact
  <2>7. n \notin Named /\ n # RootInode /\ RootInode \in Inode /\ Named \subseteq Inode /\ Named' = Named
    BY <2>1, <2>2, <2>6, Sizes, NamedFinite DEF IsFreeInode, Named, Inode, RootInode, MkInv
  <2>8. NamedBlocks' = NamedBlocks /\ BlocksOf(RootInode)' = BlocksOf(RootInode)
    <3>1. NamedBlocks' = UNION {BlocksOf(m)' : m \in Named'}
      BY DEF NamedBlocks
    <3>2. \A m \in Named : BlocksOf(m)' = BlocksOf(m)
      BY <2>5, <2>7
    <3>3. BlocksOf(RootInode)' = BlocksOf(RootInode)
      BY <2>5, <2>7
    <3> QED BY <2>7, <3>1, <3>2, <3>3 DEF NamedBlocks
  <2>9. BitmapsExact'
    BY <2>1, <2>2, <2>5, <2>6, <2>7, <2>8 DEF BitmapsExact
  <2>10. CountersExact'
    BY <2>2, <2>7, <2>8 DEF MkInv, AllocationExact, CountersExact
  <2>11. LayoutInv'
    BY <2>2 DEF LayoutInv
  <2> QED BY <2>3, <2>4, <2>9, <2>10, <2>11 DEF MkInv, AllocationExact
<1>4. ASSUME NEW size \in FileSize, NEW d \in Datum, NEW name \in Name, AddFile(name, d, size) PROVE MkInv'
  BY <1>4, AddFileInv
<1>5. CASE WriteImage
  BY <1>5, SameImage DEF WriteImage
<1>6. CASE UNCHANGED mkVars
  <2>1. UNCHANGED <<imageVars, added>> /\ status' = status
    BY <1>6 DEF mkVars
  <2> QED BY <2>1, SameImage DEF MkInv, MkTypeOK
<1> QED BY <1>1, <1>2, <1>3, <1>4, <1>5, <1>6 DEF MkNext, fsso_add_file

---------------------------------------------------------------------------
(* What the invariant says of the image.                                   *)

(* The entries of an image without failure: slot s names inode s + 1.      *)
LEMMA EntryOf ==
  ASSUME MkInv, status # "failed", NEW s \in Slot
  PROVE  /\ Len(added) \in Nat /\ s \in Nat
         /\ s < Len(added) => /\ entries[s].inode = s + 1 /\ entries[s].name = added[s + 1].name
                              /\ s + 1 \in DOMAIN added
         /\ ~(s < Len(added)) => entries[s].inode = 0
<1>1. Len(added) \in Nat /\ DOMAIN added = 1 .. Len(added)
  BY LenProperties DEF MkInv, MkTypeOK
<1>2. s \in Nat
  BY Sizes DEF Slot
<1>3. CASE s < Len(added)
  <2>1. entries[s] = [inode |-> s + 1, name |-> added[s + 1].name]
    BY <1>3 DEF MkInv, LayoutInv
  <2>2. entries[s].inode = s + 1 /\ entries[s].name = added[s + 1].name
    BY <2>1
  <2> QED BY <1>1, <1>2, <1>3, <2>2
<1>4. CASE ~(s < Len(added))
  <2>1. entries[s] = EmptyEntry
    BY <1>4 DEF MkInv, LayoutInv
  <2>2. entries[s].inode = 0
    BY <2>1 DEF EmptyEntry
  <2> QED BY <1>1, <1>2, <1>4, <2>2
<1> QED BY <1>3, <1>4

(* The search for the name of the k-th file ends at its slot, if no        *)
(* earlier file has the name.                                              *)
LEMMA SlotOfFile ==
  ASSUME MkInv, status # "failed", NEW k \in DOMAIN added,
         \A m \in 1 .. k - 1 : added[m].name # added[k].name
  PROVE  /\ k \in Nat /\ k > 0 /\ k - 1 \in Slot /\ entries[k - 1].inode = k
         /\ FindsFirst(k - 1, added[k].name) /\ WholeFile(k, added[k])
<1>1. Len(added) \in Nat /\ k \in 1 .. Len(added) /\ Len(added) <= EntriesPerBlock
  BY LenProperties DEF MkInv, MkTypeOK, LayoutInv
<1>2. k - 1 \in Slot /\ k - 1 < Len(added)
  BY <1>1, Sizes DEF Slot
<1>3. entries[k - 1].inode = (k - 1) + 1 /\ entries[k - 1].name = added[(k - 1) + 1].name
  BY <1>2, EntryOf
<1>4. (k - 1) + 1 = k
  BY <1>1
<1>5. ASSUME NEW t \in Slot, t < k - 1 PROVE entries[t].name # added[k].name
  <2>1. t \in Nat /\ t < Len(added)
    BY <1>1, <1>5, EntryOf, Sizes DEF Slot
  <2>2. entries[t].name = added[t + 1].name
    BY <2>1, EntryOf
  <2>3. t + 1 \in 1 .. k - 1
    BY <1>1, <1>5, <2>1
  <2> QED BY <2>2, <2>3
<1>6. WholeFile(k, added[k])
  BY DEF MkInv, LayoutInv
<1> QED BY <1>1, <1>2, <1>3, <1>4, <1>5, <1>6 DEF FindsFirst

(* The invariant implies the properties of the runs.                       *)
LEMMA MkInvImplies == MkInv => AllocationExact /\ ImageReadsBack /\ InodesLocatable
<1> SUFFICES ASSUME MkInv PROVE AllocationExact /\ ImageReadsBack /\ InodesLocatable
  OBVIOUS
<1>1. AllocationExact
  BY DEF MkInv
<1>2. ImageReadsBack
  <2> SUFFICES ASSUME status # "failed", NEW k \in DOMAIN added,
                      \A m \in 1 .. k - 1 : added[m].name # added[k].name
               PROVE  \E s \in Slot : FindsFirst(s, added[k].name) /\ HoldsFile(entries[s].inode, added[k])
    BY DEF ImageReadsBack
  <2>1. /\ k - 1 \in Slot /\ entries[k - 1].inode = k
        /\ FindsFirst(k - 1, added[k].name) /\ HoldsFile(k, added[k])
    BY SlotOfFile DEF WholeFile
  <2> QED BY <2>1
<1>3. InodesLocatable
  <2> SUFFICES ASSUME status # "failed", NEW s \in Slot
               PROVE  LET n == entries[s].inode IN
                      /\ ReaderOffset(n) = WriterOffset(n)
                      /\ WriterOffset(n) + InodeSize <= FirstDataBlock * BlockSize
    BY DEF InodesLocatable
  <2>1. PICK n : n = entries[s].inode
    OBVIOUS
  <2>2. n \in Nat /\ n < InodesPerBlock
    BY <2>1, EntryOf, Sizes DEF Slot
  <2> QED BY <2>1, <2>2, FirstInodesAgree
<1> QED BY <1>1, <1>2, <1>3

---------------------------------------------------------------------------
(* mkfsso keeps the invariant, whatever files it is given.                 *)
THEOREM ImageInvariant == MkSpec => []MkInv
<1>1. MkInv /\ [MkNext]_mkVars => MkInv'
  BY NextMkInv
<1>2. Format => MkInv
  BY FormatInv
<1> QED BY <1>1, <1>2, PTL DEF MkSpec

(* No block is in use twice, the bitmaps mark exactly what is in use and   *)
(* the counters count the files in the directory, for every disk and every *)
(* list of files, after every call of fsso_add_file; of a call that failed *)
(* the one inode and the blocks it took stay marked and uncounted.         *)
THEOREM Allocation == MkSpec => []AllocationExact
<1>1. MkInv => AllocationExact
  BY MkInvImplies
<1> QED BY <1>1, ImageInvariant, PTL

(* Every file that fsso_add_file accepted can be read back from the image. *)
THEOREM ReadsBack == MkSpec => []ImageReadsBack
<1>1. MkInv => ImageReadsBack
  BY MkInvImplies
<1> QED BY <1>1, ImageInvariant, PTL

(* The kernel looks for every inode that the root directory names where    *)
(* mkfsso put it.                                                          *)
THEOREM Locatable == MkSpec => []InodesLocatable
<1>1. MkInv => InodesLocatable
  BY MkInvImplies
<1> QED BY <1>1, ImageInvariant, PTL

=============================================================================
