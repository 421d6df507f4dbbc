----------------------------- MODULE FssoProofs -----------------------------
(* Theorems about the FSSO driver and the shell's ls and cat, for every    *)
(* image that mkfsso can write and every pattern of failed block reads.    *)
EXTENDS ShellCommands, MkfssoProofs

---------------------------------------------------------------------------
(* The inductive invariant, first the part that holds whatever the reads   *)
(* deliver.                                                                *)

InodeType == [size : Nat, type : 0 .. 255, direct : [Index -> Nat]]

CallType == [fn : {"none", "find", "read", "resolve"}, inode : Nat, name : Name \cup {NoName}, max : Nat,
             path : Seq(Name \cup {Dot}), rest : Seq(Name \cup {Dot})]

PieceType == [holds : Block \cup {Garbage}, length : Nat \ {0}]

(* No call of the driver is under way.                                     *)
Between == pc \notin {"component", "inode", "loop"}

DriverTypes ==
  /\ FsTypeOK /\ call \in CallType /\ out \in Seq(PieceType)
  /\ pc \in {"boot", "halted", "idle", "component", "inode", "loop", "ls_inode", "ls_loop"}

(* Calls begin after the image was written, with the loop index at 0.      *)
CallInv ==
  /\ pc = "boot" => call = NoCall
  /\ pc # "boot" => status = "written"
  /\ pc \notin {"loop", "ls_loop"} => i = 0
  /\ pc = "component" => call.fn = "resolve"
  /\ ~Between => call.fn # "none"

(* Only the loop of fsso_read_file copies, never more than it has read and *)
(* never more than fits.                                                   *)
CopyInv ==
  /\ bytes_read <= call.max
  /\ ~Between /\ ~(pc = "loop" /\ call.fn = "read") => bytes_read = 0 /\ out = <<>>
  /\ pc = "loop" => bytes_read <= i * BlockSize
  /\ Between /\ call.fn = "read" /\ result >= 0 => result = bytes_read

(* What is left of a path is its end, and what has been found is what a    *)
(* directory entry, or garbage taken for one, can name.                    *)
Done == Len(call.path) - Len(call.rest)

PathInv ==
  /\ Done >= 0 /\ \A j \in 1 .. Len(call.rest) : call.rest[j] = call.path[Done + j]
  /\ call.fn = "resolve" /\ pc \in {"inode", "loop"} =>
       Done >= 1 /\ call.path[Done] # Dot /\ call.name = call.path[Done]
  /\ call.fn = "resolve" => call.inode \in Inode \cup GarbageWord

DriverInv == MkInv /\ DriverTypes /\ CallInv /\ CopyInv /\ PathInv

---------------------------------------------------------------------------
(* The part that holds while the reads of a call deliver.                  *)

(* File k is the one that a name leads to; a name that leads nowhere.      *)
Leads(name, k) == k \in DOMAIN added /\ added[k].name = name /\ Reachable(k)
Nowhere(name)  == \A k \in DOMAIN added : added[k].name # name

(* The loop of a search looks at the root directory's only block, and goes *)
(* on if that has no entry with the name.                                  *)
SearchInv ==
  pc = "loop" /\ Searching /\ call.inode = RootInode =>
    inode = RootEntry /\ (i = 0 \/ (i = 1 /\ Nowhere(call.name)))

FindInv ==
  Between /\ call.fn = "find" /\ call.inode = RootInode =>
    IF result = 0 THEN Leads(call.name, out_inode) ELSE Nowhere(call.name)

(* After i rounds the blocks copied are the first i of the file.           *)
ReadInv ==
  call.fn = "read" /\ call.inode \in DOMAIN added =>
    LET f == added[call.inode] IN
    /\ pc = "loop" =>
         /\ inode = inode_table[call.inode] /\ i <= BlocksNeeded(f.size)
         /\ bytes_read = SmallerOf(call.max, i * BlockSize)
         /\ Len(out) = i /\ \A j \in 1 .. i : data[out[j].holds] = <<f.data, j - 1>>
    /\ Between =>
         /\ result = SmallerOf(call.max, BlockSize * BlocksNeeded(f.size))
         /\ \A j \in DOMAIN out : data[out[j].holds] = <<f.data, j - 1>>

(* The components among the first d elements of the path led to call.inode.*)
Walked(d) ==
  LET cs == {p \in 1 .. d : call.path[p] # Dot} IN
  \/ cs = {} /\ call.inode = RootInode
  \/ \E p \in cs : cs = {p} /\ Leads(call.path[p], call.inode)

ResolveInv ==
  call.fn = "resolve" =>
    /\ pc = "component" => Walked(Done)
    /\ pc \in {"inode", "loop"} => Walked(Done - 1)
    /\ pc = "loop" => call.inode = RootInode
    /\ Between =>
         LET cs == Components(call.path) IN
         IF result = 0
           THEN \/ cs = {} /\ out_inode = RootInode
                \/ \E p \in cs : cs = {p} /\ Leads(call.path[p], out_inode)
           ELSE cs # {} /\ \A p \in cs : cs = {p} => Nowhere(call.path[p])

CleanInv ==
  ~dirty /\ total_inodes = TotalInodes => SearchInv /\ FindInv /\ ReadInv /\ ResolveInv

---------------------------------------------------------------------------
(* Lemmas about reading.                                                   *)

(* A block read delivers the block, or something else is noted.            *)
LEMMA BlockRead ==
  ASSUME NEW b, NEW old \in Block \cup {Garbage}, NEW r \in read_block(b, old)
  PROVE  /\ r.holds \in Block \cup {Garbage} /\ r.failed \in BOOLEAN
         /\ ~r.failed => r.holds = b /\ b \in Block
<1>1. CASE r \in {[holds |-> h, failed |-> TRUE] : h \in {old, Garbage}}
  <2>1. PICK h \in {old, Garbage} : r = [holds |-> h, failed |-> TRUE]
    BY <1>1
  <2> QED BY <2>1
<1>2. CASE b \in Block /\ r = [holds |-> b, failed |-> FALSE]
  BY <1>2
<1> QED BY <1>1, <1>2 DEF read_block

(* What is taken for an inode has the shape of one.                        *)
LEMMA InodesTyped ==
  ASSUME MkInv, NEW holds, NEW b, NEW offset, NEW ino \in InodesIn(holds, b, offset)
  PROVE  ino \in InodeType
<1>1. GarbageInode \subseteq InodeType
  BY GarbageAssumption DEF InodeType
<1>2. ASSUME NEW n \in Inode PROVE inode_table[n] \in InodeType
  <2>1. inode_table[n] \in [size : Nat, type : 0 .. 2, direct : [Index -> Block]]
    BY DEF MkInv, MkTypeOK
  <2>2. Block \subseteq Nat /\ 0 .. 2 \subseteq 0 .. 255
    BY Sizes DEF Block
  <2> QED BY <2>1, <2>2 DEF InodeType
<1>3. ASSUME NEW address, NEW x \in InodeAt(address) PROVE x \in InodeType
  <2>1. CASE \E n \in Inode : WriterOffset(n) = address
    <3>1. (CHOOSE n \in Inode : WriterOffset(n) = address) \in Inode
      BY <2>1
    <3> QED BY <1>2, <1>3, <2>1, <3>1 DEF InodeAt
  <2>2. CASE ~\E n \in Inode : WriterOffset(n) = address
    BY <1>1, <1>3, <2>2 DEF InodeAt
  <2> QED BY <2>1, <2>2
<1> QED BY <1>1, <1>3 DEF InodesIn

(* The kernel finds the inodes of the root directory and of its files in   *)
(* the first block of the inode table.                                     *)
LEMMA FoundInode ==
  ASSUME MkInv, NEW n \in Nat, n <= EntriesPerBlock
  PROVE  /\ n \in Inode /\ InodeTableBlock + (n \div InodesPerBlock) = InodeTableBlock
         /\ InodeTableBlock \in Block
         /\ InodesIn(InodeTableBlock, InodeTableBlock, n % InodesPerBlock) = {inode_table[n]}
<1>1. n \in Inode /\ n < InodesPerBlock /\ InodeTableBlock \in Block
  BY Sizes DEF Inode, Block, InodeTableBlock
<1>2. n \div InodesPerBlock = 0 /\ n % InodesPerBlock = n
  BY <1>1, FirstInodesAgree
<1>3. \A m \in Inode : WriterOffset(m) = WriterOffset(n) => m = n
  <2> TAKE m \in Inode
  <2> DEFINE S == InodeSize  base == InodeTableBlock * BlockSize
  <2>1. S \in Nat /\ S > 0 /\ base \in Int /\ m \in Nat
    BY PositiveAssumption, Sizes DEF InodeTableBlock, Inode
  <2>2. WriterOffset(m) = base + m * S /\ WriterOffset(n) = base + n * S
    BY Zenon DEF WriterOffset
  <2> HIDE DEF S, base
  <2>3. m * S \in Int /\ n * S \in Int
    BY <2>1
  <2>4. m < n => m * S < n * S
    <3> SUFFICES ASSUME m < n PROVE m * S < n * S
      OBVIOUS
    <3>1. (m + 1) * S <= n * S
      BY <2>1
    <3>2. (m + 1) * S = m * S + S
      BY <2>1
    <3> QED BY <2>1, <2>3, <3>1, <3>2
  <2>5. n < m => n * S < m * S
    <3> SUFFICES ASSUME n < m PROVE n * S < m * S
      OBVIOUS
    <3>1. (n + 1) * S <= m * S
      BY <2>1
    <3>2. (n + 1) * S = n * S + S
      BY <2>1
    <3> QED BY <2>1, <2>3, <3>1, <3>2
  <2> QED BY <2>1, <2>2, <2>3, <2>4, <2>5
<1>4. InodeTableBlock * BlockSize + n * InodeSize = WriterOffset(n)
  BY Zenon DEF WriterOffset
<1>5. (CHOOSE m \in Inode : WriterOffset(m) = WriterOffset(n)) = n
  BY <1>1, <1>3
<1>6. InodeAt(WriterOffset(n)) = {inode_table[n]}
  BY <1>1, <1>5 DEF InodeAt
<1>7. InodesIn(InodeTableBlock, InodeTableBlock, n) = {inode_table[n]}
  BY <1>4, <1>6, Zenon DEF InodesIn
<1>8. InodeTableBlock + 0 = InodeTableBlock
  BY DEF InodeTableBlock
<1> QED BY <1>1, <1>2, <1>7, <1>8

---------------------------------------------------------------------------
(* Every action keeps the driver's invariant.                              *)

(* The kernel never writes to the disk.                                    *)
LEMMA ImageKept == MkInv /\ UNCHANGED mkVars => MkInv' /\ status' = status
<1>1. UNCHANGED mkVars => status' = status
  BY DEF mkVars
<1> QED BY <1>1, NextMkInv

(* A call that returns.                                                    *)
LEMMA ReturnInv ==
  ASSUME DriverInv, ~Between, NEW value, Return(value), value \in {NotFound, BadType, BadInode} \cup Nat,
         call.fn = "read" /\ value >= 0 => value = bytes_read,
         UNCHANGED <<mkVars, total_inodes, call, copyVars>>,
         out_inode' \in Inode \cup GarbageWord, dirty' \in BOOLEAN
  PROVE  DriverInv'
<1>1. /\ pc' = "idle" /\ result' = value /\ inode' = ZeroInode /\ i' = 0 /\ block' = Garbage
      /\ total_inodes' = total_inodes /\ call' = call /\ bytes_read' = bytes_read /\ out' = out
  BY DEF Return, LocalsDie, copyVars
<1>2. MkInv' /\ status' = status
  BY ImageKept DEF DriverInv
<1>3. DriverTypes'
  <2>1. ZeroInode \in InodeType
    BY DEF ZeroInode, InodeType, NoBlock
  <2>2. FsTypeOK'
    BY <1>1, <2>1, Sizes DEF DriverInv, DriverTypes, FsTypeOK, InodeType
  <2> QED BY <1>1, <2>2 DEF DriverInv, DriverTypes
<1>4. CallInv'
  BY <1>1, <1>2 DEF DriverInv, CallInv, Between
<1>5. CopyInv'
  BY <1>1 DEF DriverInv, CopyInv, Between
<1>6. PathInv'
  BY <1>1 DEF DriverInv, PathInv, Done
<1> QED BY <1>2, <1>3, <1>4, <1>5, <1>6 DEF DriverInv

(* The first steps of a call.                                              *)
LEMMA EnterInv ==
  ASSUME DriverInv, NEW c \in CallType, Enter(c), c.fn # "none", c.rest = c.path,
         c.fn = "resolve" => c.inode = RootInode
  PROVE  DriverInv'
<1>1. /\ pc = "idle" /\ pc' = (IF c.fn = "resolve" THEN "component" ELSE "inode") /\ call' = c
      /\ bytes_read' = 0 /\ out' = <<>> /\ dirty' = FALSE
      /\ total_inodes' = total_inodes /\ inode' = inode /\ i' = i /\ block' = block
      /\ out_inode' = out_inode /\ result' = result
  BY DEF Enter, localVars
<1>2. MkInv' /\ status' = status
  BY ImageKept DEF DriverInv, Enter
<1>3. c.max \in Nat /\ c.path \in Seq(Name \cup {Dot})
  BY DEF CallType
<1>4. DriverTypes'
  <2>1. FsTypeOK'
    <3>1. DirectBlocks * BlockSize \in Nat
      BY PositiveAssumption
    <3>2. bytes_read' \in 0 .. DirectBlocks * BlockSize
      BY <1>1, <3>1
    <3> QED BY <1>1, <3>2 DEF DriverInv, DriverTypes, FsTypeOK
  <2>2. out' \in Seq(PieceType) /\ pc' \in {"component", "inode"}
    BY <1>1
  <2> QED BY <1>1, <2>1, <2>2 DEF DriverTypes
<1>5. CallInv'
  BY <1>1, <1>2 DEF DriverInv, CallInv, Between
<1>6. CopyInv'
  BY <1>1, <1>3 DEF CopyInv, Between
<1>7. PathInv'
  <2>1. Len(c.path) \in Nat /\ Done' = 0
    BY <1>1, <1>3, LenProperties DEF Done
  <2>2. RootInode \in Inode
    BY Sizes DEF Inode, RootInode
  <2> QED BY <1>1, <2>1, <2>2 DEF PathInv
<1> QED BY <1>2, <1>4, <1>5, <1>6, <1>7 DEF DriverInv

(* Reading the superblock.                                                 *)
LEMMA MountInv == ASSUME DriverInv, fsso_mount PROVE DriverInv'
<1>1. /\ pc = "boot" /\ status = "written" /\ pc' \in {"idle", "halted"}
      /\ UNCHANGED <<mkVars, call, localVars, copyVars, out_inode, result>>
  BY DEF fsso_mount
<1>2. dirty' \in BOOLEAN /\ total_inodes' \in GarbageWord \cup {0, TotalInodes}
  <2>1. PICK r \in read_block(0, Garbage) :
          /\ total_inodes' = TotalInodes \/ total_inodes' \in GarbageWord \/ UNCHANGED total_inodes
          /\ dirty' = r.failed
    BY DEF fsso_mount
  <2>2. r.failed \in BOOLEAN
    BY BlockRead
  <2> QED BY <2>1, <2>2 DEF DriverInv, DriverTypes, FsTypeOK
<1>3. MkInv' /\ status' = status
  BY <1>1, ImageKept DEF DriverInv
<1>4. /\ call' = call /\ inode' = inode /\ i' = i /\ block' = block /\ bytes_read' = bytes_read
      /\ out' = out /\ out_inode' = out_inode /\ result' = result
  BY <1>1 DEF localVars, copyVars
<1>5. DriverTypes'
  <2>1. FsTypeOK'
    BY <1>2, <1>4 DEF DriverInv, DriverTypes, FsTypeOK
  <2> QED BY <1>1, <1>4, <2>1 DEF DriverInv, DriverTypes
<1>6. CallInv'
  BY <1>1, <1>3, <1>4 DEF DriverInv, CallInv, Between
<1>7. CopyInv'
  BY <1>1, <1>4 DEF DriverInv, CopyInv, CallInv, NoCall, Between
<1>8. PathInv'
  BY <1>1, <1>4 DEF DriverInv, PathInv, Done
<1> QED BY <1>3, <1>5, <1>6, <1>7, <1>8 DEF DriverInv

(* mkfsso runs before the kernel boots.                                    *)
LEMMA BuilderInv == ASSUME DriverInv, MkNext, UNCHANGED fsVars PROVE DriverInv' /\ pc = "boot"
<1>1. MkInv'
  BY NextMkInv DEF DriverInv
<1>2. status = "adding"
  BY DEF MkNext, fsso_add_file, NoFreeInodes, NotEnoughBlocks, DirectoryFull, AddFile, WriteImage
<1>3. pc = "boot"
  BY <1>2 DEF DriverInv, CallInv
<1>4. /\ pc' = pc /\ total_inodes' = total_inodes /\ call' = call /\ inode' = inode /\ i' = i
      /\ block' = block /\ bytes_read' = bytes_read /\ out' = out /\ out_inode' = out_inode
      /\ result' = result /\ dirty' = dirty
  BY DEF fsVars, localVars, copyVars
<1>5. DriverTypes'
  BY <1>4 DEF DriverInv, DriverTypes, FsTypeOK
<1>6. CallInv' /\ CopyInv'
  BY <1>3, <1>4 DEF DriverInv, CallInv, CopyInv, Between
<1>7. PathInv'
  BY <1>4 DEF DriverInv, PathInv, Done
<1> QED BY <1>1, <1>3, <1>5, <1>6, <1>7 DEF DriverInv

(* Taking the next element off a path.                                     *)
LEMMA PathStep ==
  ASSUME DriverInv, call.rest # <<>>,
         call'.path = call.path, call'.rest = Tail(call.rest)
  PROVE  /\ Tail(call.rest) \in Seq(Name \cup {Dot}) /\ Head(call.rest) \in Name \cup {Dot}
         /\ Done \in Nat /\ Done' = Done + 1 /\ Head(call.rest) = call.path[Done + 1]
         /\ \A j \in 1 .. Len(call'.rest) : call'.rest[j] = call'.path[Done' + j]
<1>1. call.path \in Seq(Name \cup {Dot}) /\ call.rest \in Seq(Name \cup {Dot})
  BY DEF DriverInv, DriverTypes, CallType
<1>2. Len(call.path) \in Nat /\ Len(call.rest) \in Nat /\ Len(call.rest) > 0
  BY <1>1, LenProperties, EmptySeq
<1>3. /\ Head(call.rest) = call.rest[1] /\ Len(Tail(call.rest)) = Len(call.rest) - 1
      /\ \A j \in 1 .. Len(call.rest) - 1 : Tail(call.rest)[j] = call.rest[j + 1]
      /\ Tail(call.rest) \in Seq(Name \cup {Dot}) /\ Head(call.rest) \in Name \cup {Dot}
  BY <1>1, HeadTailProperties
<1>4. Done >= 0 /\ \A j \in 1 .. Len(call.rest) : call.rest[j] = call.path[Done + j]
  BY DEF DriverInv, PathInv
<1>5. Done \in Nat /\ Done' = Done + 1
  <2>1. Done' = Len(call.path) - (Len(call.rest) - 1)
    BY <1>3 DEF Done
  <2>2. Done = Len(call.path) - Len(call.rest)
    BY DEF Done
  <2>3. Done \in Int /\ Done' = Done + 1
    BY <1>2, <2>1, <2>2
  <2> QED BY <1>4, <2>3
<1>6. Head(call.rest) = call.path[Done + 1]
  BY <1>2, <1>3, <1>4
<1>7. ASSUME NEW j \in 1 .. Len(call'.rest) PROVE call'.rest[j] = call'.path[Done' + j]
  <2>1. j \in 1 .. Len(call.rest) - 1 /\ j + 1 \in 1 .. Len(call.rest)
    BY <1>2, <1>3, <1>7
  <2>2. call'.rest[j] = call.path[Done + (j + 1)]
    BY <1>3, <1>4, <2>1
  <2>3. Done + (j + 1) = Done' + j
    BY <1>5, <2>1
  <2> QED BY <2>2, <2>3
<1> QED BY <1>3, <1>5, <1>6, <1>7

(* Separators and components of a path.                                    *)
LEMMA PathActionsInv == ASSUME DriverInv, SkipDot \/ LookUpComponent PROVE DriverInv'
<1>1. /\ pc = "component" /\ call.rest # <<>> /\ pc' \in {"component", "inode"}
      /\ pc' = "inode" => Head(call.rest) # Dot /\ call'.name = Head(call.rest)
      /\ pc' = "component" => Head(call.rest) = Dot
      /\ UNCHANGED <<mkVars, total_inodes, localVars, copyVars, out_inode, result, dirty>>
  BY DEF SkipDot, LookUpComponent, DriverInv, DriverTypes, CallType
<1>2. call' = [call EXCEPT !.rest = Tail(call.rest)]
        \/ call' = [call EXCEPT !.name = Head(call.rest), !.rest = Tail(call.rest)]
  BY DEF SkipDot, LookUpComponent
<1>3. call \in CallType
  BY DEF DriverInv, DriverTypes
<1>4. /\ call'.path = call.path /\ call'.rest = Tail(call.rest) /\ call'.fn = call.fn
      /\ call'.inode = call.inode /\ call'.max = call.max
  BY <1>2, <1>3 DEF CallType
<1>5. /\ Tail(call.rest) \in Seq(Name \cup {Dot}) /\ Head(call.rest) \in Name \cup {Dot}
      /\ Done \in Nat /\ Done' = Done + 1 /\ Head(call.rest) = call.path[Done + 1]
      /\ \A j \in 1 .. Len(call'.rest) : call'.rest[j] = call'.path[Done' + j]
  BY <1>1, <1>4, PathStep
<1>6. call' \in CallType
  <2>1. CASE call' = [call EXCEPT !.rest = Tail(call.rest)]
    BY <1>3, <1>5, <2>1 DEF CallType
  <2>2. CASE Head(call.rest) # Dot /\ call' = [call EXCEPT !.name = Head(call.rest), !.rest = Tail(call.rest)]
    BY <1>3, <1>5, <2>2 DEF CallType
  <2> QED BY <2>1, <2>2 DEF SkipDot, LookUpComponent
<1>7. MkInv' /\ status' = status
  BY <1>1, ImageKept DEF DriverInv
<1>8. /\ total_inodes' = total_inodes /\ inode' = inode /\ i' = i /\ block' = block /\ bytes_read' = bytes_read
      /\ out' = out /\ out_inode' = out_inode /\ result' = result /\ dirty' = dirty
  BY <1>1 DEF localVars, copyVars
<1>9. DriverTypes'
  <2>1. FsTypeOK'
    BY <1>8 DEF DriverInv, DriverTypes, FsTypeOK
  <2> QED BY <1>1, <1>6, <1>8, <2>1 DEF DriverInv, DriverTypes
<1>10. CallInv' /\ CopyInv'
  BY <1>1, <1>4, <1>7, <1>8 DEF DriverInv, CallInv, CopyInv, Between
<1>11. PathInv'
  <2>1. Done' >= 1
    BY <1>5
  <2>2. pc' = "inode" => call'.path[Done'] # Dot /\ call'.name = call'.path[Done']
    BY <1>1, <1>4, <1>5
  <2>3. call'.fn = "resolve" => call'.inode \in Inode \cup GarbageWord
    BY <1>4 DEF DriverInv, PathInv
  <2> QED BY <1>1, <1>5, <2>1, <2>2, <2>3 DEF PathInv
<1> QED BY <1>7, <1>9, <1>10, <1>11 DEF DriverInv

(* Driver steps that end a call.                                           *)
LEMMA FinishInv ==
  ASSUME DriverInv, Resolved \/ InodeOutOfRange \/ FindFails \/ ReadDone
  PROVE  DriverInv'
<1>1. dirty \in BOOLEAN /\ out_inode \in Inode \cup GarbageWord /\ bytes_read \in Nat
  <2>1. DirectBlocks * BlockSize \in Nat
    BY PositiveAssumption
  <2> QED BY <2>1 DEF DriverInv, DriverTypes, FsTypeOK
<1>2. CASE Resolved
  <2>1. pc = "component" /\ Return(0) /\ out_inode' = call.inode /\ dirty' = dirty
        /\ UNCHANGED <<mkVars, total_inodes, call, copyVars>>
    BY <1>2 DEF Resolved
  <2>2. call.fn = "resolve"
    BY <2>1 DEF DriverInv, CallInv
  <2>3. call.inode \in Inode \cup GarbageWord /\ ~Between
    BY <2>1, <2>2 DEF DriverInv, PathInv, Between
  <2> QED BY <1>1, <2>1, <2>2, <2>3, ReturnInv
<1>3. CASE InodeOutOfRange
  <2>1. PICK value : Return(value) /\ value \in {BadInode, NoPath}
    BY <1>3 DEF InodeOutOfRange, Fail
  <2>2. /\ pc = "inode" /\ out_inode' = out_inode /\ dirty' = dirty
        /\ UNCHANGED <<mkVars, total_inodes, call, copyVars>>
    BY <1>3 DEF InodeOutOfRange
  <2>3. value \in {NotFound, BadType, BadInode} /\ ~(value >= 0)
    BY <2>1 DEF NotFound, BadType, BadInode, NoPath
  <2>4. ~Between
    BY <2>2 DEF Between
  <2> QED BY <1>1, <2>1, <2>2, <2>3, <2>4, ReturnInv
<1>4. CASE FindFails
  <2>1. PICK value : Return(value) /\ value \in {NotFound, NoPath}
    BY <1>4 DEF FindFails, Fail
  <2>2. /\ pc = "loop" /\ out_inode' = out_inode /\ dirty' = dirty
        /\ UNCHANGED <<mkVars, total_inodes, call, copyVars>>
    BY <1>4 DEF FindFails
  <2>3. value \in {NotFound, BadType, BadInode} /\ ~(value >= 0)
    BY <2>1 DEF NotFound, BadType, BadInode, NoPath
  <2>4. ~Between
    BY <2>2 DEF Between
  <2> QED BY <1>1, <2>1, <2>2, <2>3, <2>4, ReturnInv
<1>5. CASE ReadDone
  <2>1. /\ pc = "loop" /\ Return(bytes_read) /\ out_inode' = out_inode /\ dirty' = dirty
        /\ UNCHANGED <<mkVars, total_inodes, call, copyVars>>
    BY <1>5 DEF ReadDone
  <2>2. PICK value \in Nat : value = bytes_read
    BY <1>1
  <2>3. ~Between /\ Return(value)
    BY <2>1, <2>2 DEF Between, Return
  <2> QED BY <1>1, <2>1, <2>2, <2>3, ReturnInv
<1> QED BY <1>2, <1>3, <1>4, <1>5

(* fsso_read_inode and what its callers do with the inode.                 *)
LEMMA ReadInodeInv == ASSUME DriverInv, fsso_read_inode PROVE DriverInv'
<1>1. PICK b : b = InodeTableBlock + (call.inode \div InodesPerBlock)
  OBVIOUS
<1>2. PICK r \in read_block(b, Garbage) :
        /\ \E ino \in InodesIn(r.holds, b, call.inode % InodesPerBlock) : AfterInode(ino)
        /\ dirty' = (dirty \/ r.failed)
  BY <1>1 DEF fsso_read_inode
<1>3. PICK ino \in InodesIn(r.holds, b, call.inode % InodesPerBlock) : AfterInode(ino)
  BY <1>2
<1>4. ino \in InodeType
  BY <1>3, InodesTyped DEF DriverInv
<1>5. dirty' \in BOOLEAN
  <2>1. r.failed \in BOOLEAN /\ dirty \in BOOLEAN
    BY BlockRead DEF DriverInv, DriverTypes, FsTypeOK
  <2> QED BY <1>2, <2>1
<1>6. pc = "inode" /\ UNCHANGED <<mkVars, total_inodes, call, copyVars, out_inode>>
  BY DEF fsso_read_inode
<1>7. CASE ino.type # WantedType
  <2>1. PICK value : Return(value) /\ value \in {BadType, NoPath}
    BY <1>3, <1>7 DEF AfterInode, Fail
  <2>2. value \in {NotFound, BadType, BadInode} /\ ~(value >= 0)
    BY <2>1 DEF NotFound, BadType, BadInode, NoPath
  <2>3. ~Between /\ out_inode' \in Inode \cup GarbageWord
    BY <1>6 DEF Between, DriverInv, DriverTypes, FsTypeOK
  <2> QED BY <1>5, <1>6, <2>1, <2>2, <2>3, ReturnInv
<1>8. CASE ino.type = WantedType
  <2>1. /\ pc' = "loop" /\ inode' = ino /\ i' = i /\ block' = block /\ result' = result
        /\ total_inodes' = total_inodes /\ call' = call /\ bytes_read' = bytes_read /\ out' = out
        /\ out_inode' = out_inode
    BY <1>3, <1>6, <1>8 DEF AfterInode, copyVars
  <2>2. MkInv' /\ status' = status
    BY <1>6, ImageKept DEF DriverInv
  <2>3. DriverTypes'
    <3>1. FsTypeOK'
      BY <1>4, <1>5, <2>1 DEF DriverInv, DriverTypes, FsTypeOK, InodeType
    <3> QED BY <2>1, <3>1 DEF DriverInv, DriverTypes
  <2>4. CallInv'
    BY <1>6, <2>1, <2>2 DEF DriverInv, CallInv, Between
  <2>5. CopyInv'
    <3>1. i = 0 /\ bytes_read = 0 /\ 0 * BlockSize = 0
      BY <1>6, PositiveAssumption DEF DriverInv, CallInv, CopyInv, Between
    <3> QED BY <1>6, <2>1, <3>1 DEF DriverInv, CopyInv, Between
  <2>6. PathInv'
    BY <1>6, <2>1 DEF DriverInv, PathInv, Done
  <2> QED BY <2>2, <2>3, <2>4, <2>5, <2>6 DEF DriverInv
<1> QED BY <1>7, <1>8

(* One round of a search.                                                  *)
LEMMA FindStepInv == ASSUME DriverInv, FindStep PROVE DriverInv'
<1>1. PICK b : b = inode.direct[i]
  OBVIOUS
<1>2. PICK old \in Block \cup {Garbage} : old = block
  BY DEF DriverInv, DriverTypes, FsTypeOK
<1>3. PICK r \in read_block(b, old), n \in GarbageWord \cup Inode :
        /\ dirty' = (dirty \/ r.failed)
        /\ IF n # 0
             THEN Found(n)
             ELSE block' = r.holds /\ i' = i + 1 /\ UNCHANGED <<pc, call, result, inode, out_inode>>
  BY <1>1, <1>2 DEF FindStep
<1>4. r.holds \in Block \cup {Garbage} /\ dirty' \in BOOLEAN
  <2>1. r.holds \in Block \cup {Garbage} /\ r.failed \in BOOLEAN /\ dirty \in BOOLEAN
    BY BlockRead DEF DriverInv, DriverTypes, FsTypeOK
  <2> QED BY <1>3, <2>1
<1>5. /\ pc = "loop" /\ Searching /\ i < DirectBlocks
      /\ UNCHANGED <<mkVars, total_inodes, copyVars>>
  BY DEF FindStep, MoreBlocks
<1>6. ~Between /\ n \in Nat /\ call.fn # "read"
  BY <1>5, GarbageAssumption, Sizes DEF Between, Inode, Searching
<1>7. MkInv' /\ status' = status
  BY <1>5, ImageKept DEF DriverInv
<1>8. CASE n # 0 /\ call.fn # "resolve"
  <2>1. Return(0) /\ out_inode' = n /\ call' = call
    BY <1>3, <1>8 DEF Found
  <2> QED BY <1>4, <1>5, <1>6, <2>1, ReturnInv
<1>9. CASE n # 0 /\ call.fn = "resolve"
  <2>1. /\ pc' = "component" /\ call' = [call EXCEPT !.inode = n] /\ inode' = ZeroInode /\ i' = 0
        /\ block' = Garbage /\ out_inode' = out_inode /\ result' = result
        /\ total_inodes' = total_inodes /\ bytes_read' = bytes_read /\ out' = out
    BY <1>3, <1>5, <1>9 DEF Found, LocalsDie, copyVars
  <2>2. /\ call' \in CallType /\ call'.path = call.path /\ call'.rest = call.rest /\ call'.fn = call.fn
        /\ call'.max = call.max /\ call'.inode = n
    BY <1>6, <2>1 DEF DriverInv, DriverTypes, CallType
  <2>3. DriverTypes'
    <3>1. ZeroInode \in InodeType
      BY DEF ZeroInode, InodeType, NoBlock
    <3>2. FsTypeOK'
      BY <1>4, <2>1, <3>1, Sizes DEF DriverInv, DriverTypes, FsTypeOK, InodeType
    <3> QED BY <2>1, <2>2, <3>2 DEF DriverInv, DriverTypes
  <2>4. CallInv'
    BY <1>5, <1>7, <1>9, <2>1, <2>2 DEF DriverInv, CallInv, Between
  <2>5. CopyInv'
    BY <1>5, <1>6, <2>1, <2>2 DEF DriverInv, CopyInv, Between
  <2>6. PathInv'
    BY <2>1, <2>2 DEF DriverInv, PathInv, Done
  <2> QED BY <1>7, <2>3, <2>4, <2>5, <2>6 DEF DriverInv
<1>10. CASE n = 0
  <2>1. /\ pc' = pc /\ call' = call /\ result' = result /\ inode' = inode /\ out_inode' = out_inode
        /\ block' = r.holds /\ i' = i + 1
        /\ total_inodes' = total_inodes /\ bytes_read' = bytes_read /\ out' = out
    BY <1>3, <1>5, <1>10 DEF copyVars
  <2>2. DriverTypes'
    <3>1. i' \in 0 .. DirectBlocks
      BY <1>5, <2>1, Sizes DEF DriverInv, DriverTypes, FsTypeOK
    <3>2. FsTypeOK'
      BY <1>4, <2>1, <3>1 DEF DriverInv, DriverTypes, FsTypeOK
    <3> QED BY <2>1, <3>2 DEF DriverInv, DriverTypes
  <2>3. CallInv'
    BY <1>5, <1>7, <2>1 DEF DriverInv, CallInv, Between
  <2>4. CopyInv'
    <3>1. bytes_read = 0 /\ out = <<>> /\ bytes_read <= call.max
      BY <1>5, <1>6 DEF DriverInv, CopyInv
    <3>2. (i + 1) * BlockSize >= 0
      BY PositiveAssumption DEF DriverInv, DriverTypes, FsTypeOK
    <3> QED BY <1>5, <2>1, <3>1, <3>2 DEF CopyInv, Between
  <2>5. PathInv'
    BY <2>1 DEF DriverInv, PathInv, Done
  <2> QED BY <1>7, <2>2, <2>3, <2>4, <2>5 DEF DriverInv
<1> QED BY <1>8, <1>9, <1>10

(* One round of fsso_read_file: at least one byte is copied, at most a     *)
(* block, and no more than still fits.                                     *)
LEMMA ReadStepInv == ASSUME DriverInv, ReadStep PROVE DriverInv'
<1>1. PICK b : b = inode.direct[i]
  OBVIOUS
<1>2. PICK old \in Block \cup {Garbage} : old = block
  BY DEF DriverInv, DriverTypes, FsTypeOK
<1>3. PICK r \in read_block(b, old) :
        /\ block' = r.holds /\ dirty' = (dirty \/ r.failed)
        /\ out' = Append(out, [holds |-> r.holds, length |-> ToCopy])
  BY <1>1, <1>2 DEF ReadStep
<1>4. r.holds \in Block \cup {Garbage} /\ dirty' \in BOOLEAN
  <2>1. r.holds \in Block \cup {Garbage} /\ r.failed \in BOOLEAN /\ dirty \in BOOLEAN
    BY BlockRead DEF DriverInv, DriverTypes, FsTypeOK
  <2> QED BY <1>3, <2>1
<1>5. /\ pc = "loop" /\ call.fn = "read" /\ i < DirectBlocks /\ bytes_read < call.max
      /\ bytes_read' = bytes_read + ToCopy /\ i' = i + 1
      /\ pc' = pc /\ total_inodes' = total_inodes /\ call' = call /\ inode' = inode
      /\ out_inode' = out_inode /\ result' = result
  BY DEF ReadStep, MoreBlocks
<1>6. MkInv' /\ status' = status
  BY ImageKept DEF DriverInv, ReadStep
<1> DEFINE B == BlockSize
<1>7. B \in Nat /\ B > 0 /\ DirectBlocks \in Nat /\ DirectBlocks * B \in Nat
  BY PositiveAssumption
<1>8. bytes_read \in Nat /\ call.max \in Nat /\ i \in Nat
  BY <1>7 DEF DriverInv, DriverTypes, FsTypeOK, CallType
<1>9. ToCopy \in Nat \ {0} /\ ToCopy <= B /\ bytes_read + ToCopy <= call.max
  BY <1>5, <1>7, <1>8 DEF ToCopy
<1>10. bytes_read + ToCopy <= (i + 1) * B /\ (i + 1) * B <= DirectBlocks * B
  <2>1. bytes_read <= i * B
    BY <1>5 DEF DriverInv, CopyInv
  <2>2. (i + 1) * B = i * B + B /\ i * B \in Int
    BY <1>7, <1>8
  <2>3. (i + 1) * B <= DirectBlocks * B
    <3>1. i + 1 <= DirectBlocks
      BY <1>5, <1>7, <1>8
    <3> HIDE DEF B
    <3> QED BY <1>7, <1>8, <3>1
  <2> HIDE DEF B
  <2> QED BY <1>7, <1>8, <1>9, <2>1, <2>2, <2>3
<1>11. DriverTypes'
  <2>1. i' \in 0 .. DirectBlocks
    BY <1>5, <1>7, <1>8
  <2>2. bytes_read' \in 0 .. DirectBlocks * BlockSize
    <3>1. (i + 1) * B \in Int
      BY <1>7, <1>8
    <3> QED BY <1>5, <1>7, <1>8, <1>9, <1>10, <3>1
  <2>3. FsTypeOK'
    BY <1>3, <1>4, <1>5, <2>1, <2>2 DEF DriverInv, DriverTypes, FsTypeOK
  <2>4. [holds |-> r.holds, length |-> ToCopy] \in PieceType
    BY <1>4, <1>9 DEF PieceType
  <2>5. out' \in Seq(PieceType)
    BY <1>3, <2>4, AppendProperties DEF DriverInv, DriverTypes
  <2> QED BY <1>5, <2>3, <2>5 DEF DriverInv, DriverTypes
<1>12. CallInv'
  BY <1>5, <1>6 DEF DriverInv, CallInv, Between
<1>13. CopyInv'
  BY <1>5, <1>9, <1>10 DEF CopyInv, Between
<1>14. PathInv'
  BY <1>5 DEF DriverInv, PathInv, Done
<1> QED BY <1>6, <1>11, <1>12, <1>13, <1>14 DEF DriverInv

(* cmd_ls between its steps: no call of the driver is under way.           *)
LEMMA ListInv ==
  ASSUME DriverInv, Between, pc # "boot", pc' \in {"idle", "ls_inode", "ls_loop"},
         UNCHANGED <<mkVars, total_inodes, call, copyVars, out_inode, result, dirty>>,
         inode' \in InodeType, i' \in 0 .. DirectBlocks, block' \in Block \cup {Garbage},
         pc' # "ls_loop" => i' = 0
  PROVE  DriverInv' /\ Between'
<1>1. /\ total_inodes' = total_inodes /\ call' = call /\ bytes_read' = bytes_read /\ out' = out
      /\ out_inode' = out_inode /\ result' = result /\ dirty' = dirty
  BY DEF copyVars
<1>2. MkInv' /\ status' = status
  BY ImageKept DEF DriverInv
<1>3. DriverTypes'
  <2>1. FsTypeOK'
    BY <1>1 DEF DriverInv, DriverTypes, FsTypeOK, InodeType
  <2> QED BY <1>1, <2>1 DEF DriverInv, DriverTypes
<1>4. CallInv' /\ CopyInv' /\ Between'
  BY <1>1, <1>2 DEF DriverInv, CallInv, CopyInv, Between
<1>5. PathInv'
  BY <1>1 DEF DriverInv, PathInv, Done
<1> QED BY <1>2, <1>3, <1>4, <1>5 DEF DriverInv

(* Stuttering.                                                             *)
LEMMA StutterInv == ASSUME DriverInv, UNCHANGED <<mkVars, fsVars>> PROVE DriverInv'
<1>1. /\ pc' = pc /\ total_inodes' = total_inodes /\ call' = call /\ inode' = inode /\ i' = i
      /\ block' = block /\ bytes_read' = bytes_read /\ out' = out /\ out_inode' = out_inode
      /\ result' = result /\ dirty' = dirty
  BY DEF fsVars, localVars, copyVars
<1>2. MkInv' /\ status' = status
  BY ImageKept DEF DriverInv
<1>3. DriverTypes'
  BY <1>1 DEF DriverInv, DriverTypes, FsTypeOK
<1>4. CallInv' /\ CopyInv'
  BY <1>1, <1>2 DEF DriverInv, CallInv, CopyInv, Between
<1>5. PathInv'
  BY <1>1 DEF DriverInv, PathInv, Done
<1> QED BY <1>2, <1>3, <1>4, <1>5 DEF DriverInv

(* The calls that the kernel makes.                                        *)
LEMMA CallFindInv ==
  ASSUME DriverInv, NEW n \in Nat, NEW name \in Name, CallFind(n, name)
  PROVE  DriverInv'
<1> DEFINE c == [fn |-> "find", inode |-> n, name |-> name, max |-> 0, path |-> <<>>, rest |-> <<>>]
<1>1. c \in CallType /\ c.fn = "find" /\ c.rest = c.path
  BY DEF CallType
<1>2. Enter(c)
  BY DEF CallFind
<1> HIDE DEF c
<1> QED BY <1>1, <1>2, EnterInv

(* A read.                                                                 *)
LEMMA CallReadInv ==
  ASSUME DriverInv, NEW n \in Nat, NEW max \in Nat, CallRead(n, max)
  PROVE  DriverInv'
<1> DEFINE c == [fn |-> "read", inode |-> n, name |-> NoName, max |-> max, path |-> <<>>, rest |-> <<>>]
<1>1. c \in CallType /\ c.fn = "read" /\ c.rest = c.path
  BY DEF CallType
<1>2. Enter(c)
  BY DEF CallRead
<1> HIDE DEF c
<1> QED BY <1>1, <1>2, EnterInv

(* A path.                                                                 *)
LEMMA CallResolveInv ==
  ASSUME DriverInv, NEW path \in Path, CallResolve(path)
  PROVE  DriverInv'
<1> DEFINE c == [fn |-> "resolve", inode |-> RootInode, name |-> NoName, max |-> 0,
                 path |-> path, rest |-> path]
<1>1. path \in Seq(Name \cup {Dot}) /\ RootInode \in Nat
  BY GarbageAssumption DEF RootInode
<1>2. c \in CallType /\ c.fn = "resolve" /\ c.rest = c.path /\ c.inode = RootInode
  BY <1>1 DEF CallType
<1>3. Enter(c)
  BY DEF CallResolve
<1> HIDE DEF c
<1> QED BY <1>2, <1>3, EnterInv

(* The inodes that a caller may pass.                                      *)
LEMMA CallableTyped == DriverInv => Callable \subseteq Nat /\ out_inode \in Nat
  BY GarbageAssumption, Sizes DEF DriverInv, DriverTypes, FsTypeOK, Callable, RootInode, Inode

(* Inside a call.                                                          *)
LEMMA InCallInv == ASSUME DriverInv, InCall PROVE DriverInv'
  BY PathActionsInv, FinishInv, ReadInodeInv, FindStepInv, ReadStepInv DEF InCall

(* At boot nothing has been called.                                        *)
LEMMA InitDriverInv == FsInit => DriverInv
<1> SUFFICES ASSUME FsInit PROVE DriverInv
  OBVIOUS
<1>1. MkInv
  BY FormatInv DEF FsInit
<1>2. NoCall \in CallType /\ NoCall.rest = <<>> /\ NoCall.path = <<>> /\ NoCall.fn = "none" /\ NoCall.max = 0
  BY DEF NoCall, CallType
<1>3. DriverTypes
  <2>1. ZeroInode \in InodeType
    BY DEF ZeroInode, InodeType, NoBlock
  <2>2. DirectBlocks * BlockSize \in Nat
    BY PositiveAssumption
  <2>3. 0 \in Inode
    BY Sizes DEF Inode
  <2>4. FsTypeOK
    <3>1. /\ total_inodes = 0 /\ inode = ZeroInode /\ i = 0 /\ block = Garbage /\ bytes_read = 0
          /\ out_inode = 0 /\ result = 0 /\ dirty = FALSE
      BY DEF FsInit
    <3>2. dirty \in BOOLEAN
      BY <3>1, Zenon
    <3>3. i \in 0 .. DirectBlocks /\ bytes_read \in 0 .. DirectBlocks * BlockSize /\ result \in Nat
      BY <2>2, <3>1, Sizes
    <3> QED BY <2>1, <2>3, <3>1, <3>2, <3>3 DEF FsTypeOK, InodeType
  <2> QED BY <1>2, <2>4 DEF FsInit, DriverTypes
<1>4. CallInv /\ CopyInv
  BY <1>2 DEF FsInit, CallInv, CopyInv, Between
<1>5. PathInv
  BY <1>2 DEF FsInit, PathInv, Done
<1> QED BY <1>1, <1>3, <1>4, <1>5 DEF DriverInv

(* Builder, mount, callers and calls.                                      *)
LEMMA NextDriverInv == DriverInv /\ [FsNext]_<<mkVars, fsVars>> => DriverInv'
<1> SUFFICES ASSUME DriverInv, [FsNext]_<<mkVars, fsVars>> PROVE DriverInv'
  OBVIOUS
<1>1. CASE MkNext /\ UNCHANGED fsVars
  BY <1>1, BuilderInv
<1>2. CASE fsso_mount
  BY <1>2, MountInv
<1>3. CASE Caller
  <2>1. CASE \E n \in Callable, name \in Name : CallFind(n, name)
    <3>1. PICK n \in Nat, name \in Name : CallFind(n, name)
      BY <2>1, CallableTyped
    <3> QED BY <3>1, CallFindInv
  <2>2. CASE \E n \in Callable, max \in MaxSize : CallRead(n, max)
    <3>1. PICK n \in Nat, max \in Nat : CallRead(n, max)
      BY <2>2, CallableTyped, GarbageAssumption
    <3> QED BY <3>1, CallReadInv
  <2>3. CASE \E path \in Path : CallResolve(path)
    BY <2>3, CallResolveInv
  <2> QED BY <1>3, <2>1, <2>2, <2>3 DEF Caller
<1>4. CASE InCall
  BY <1>4, InCallInv
<1>5. CASE UNCHANGED <<mkVars, fsVars>>
  BY <1>5, StutterInv
<1> QED BY <1>1, <1>2, <1>3, <1>4, <1>5 DEF FsNext

---------------------------------------------------------------------------
(* Calls whose reads deliver.                                              *)

(* A set of natural numbers that is not empty has a least element.         *)
LEMMA Least ==
  ASSUME NEW T, T \subseteq Nat, T # {}
  PROVE  \E x \in T : \A y \in T : x <= y
<1>1. PICK x \in T : \A y \in T : ~(<<y, x>> \in OpToRel(<, Nat))
  BY WFMin, NatLessThanWellFounded, Zenon
<1>2. ASSUME NEW y \in T PROVE x <= y
  <2>1. x \in Nat /\ y \in Nat
    OBVIOUS
  <2>2. ~(y < x)
    BY <1>1, <2>1 DEF OpToRel
  <2> QED BY <2>1, <2>2
<1> QED BY <1>2

(* A search of the root directory's block ends at the first file of the    *)
(* name.                                                                   *)
LEMMA SearchedRoot ==
  ASSUME MkInv, status # "failed", NEW name, NEW n \in SearchBlock(FirstDataBlock, name)
  PROVE  /\ n # 0 => Leads(name, n)
         /\ n = 0 => Nowhere(name)
<1> DEFINE Hit(s) == entries[s].inode # 0 /\ entries[s].name = name
<1>1. CASE \E s \in Slot : Hit(s)
  <2>1. {s \in Slot : Hit(s)} \subseteq Nat /\ {s \in Slot : Hit(s)} # {}
    BY <1>1, Sizes DEF Slot
  <2>2. PICK x \in {s \in Slot : Hit(s)} : \A y \in {s \in Slot : Hit(s)} : x <= y
    BY <2>1, Least
  <2>3. \A t \in Slot : t < x => entries[t].inode = 0 \/ entries[t].name # name
    <3> TAKE t \in Slot
    <3>1. t \in Nat /\ x \in Nat
      BY <2>1, Sizes DEF Slot
    <3> QED BY <2>2, <3>1
  <2>4. \E s \in Slot : /\ entries[s].inode # 0 /\ entries[s].name = name
                        /\ \A t \in Slot : t < s => entries[t].inode = 0 \/ entries[t].name # name
    BY <2>2, <2>3
  <2>5. PICK s \in Slot : /\ entries[s].inode # 0 /\ entries[s].name = name
                          /\ \A t \in Slot : t < s => entries[t].inode = 0 \/ entries[t].name # name
                          /\ n = entries[s].inode
    BY <1>1, <2>4 DEF SearchBlock
  <2>6. /\ Len(added) \in Nat /\ s \in Nat /\ s < Len(added)
        /\ n = s + 1 /\ added[n].name = name /\ n \in DOMAIN added
    BY <2>5, EntryOf
  <2>7. ASSUME NEW m \in 1 .. n - 1 PROVE added[m].name # added[n].name
    <3>1. m - 1 \in Slot /\ m - 1 < s /\ (m - 1) + 1 = m /\ m # 0 /\ m - 1 < Len(added)
      BY <2>6, Sizes DEF Slot
    <3>2. entries[m - 1].inode = m /\ entries[m - 1].name = added[m].name
      BY <3>1, EntryOf
    <3> QED BY <2>5, <2>6, <3>1, <3>2
  <2> QED BY <2>6, <2>7 DEF Leads, Reachable
<1>2. CASE ~\E s \in Slot : Hit(s)
  <2>1. n = 0
    BY <1>2 DEF SearchBlock
  <2>2. ASSUME NEW k \in DOMAIN added PROVE added[k].name # name
    <3>1. Len(added) \in Nat /\ k \in 1 .. Len(added) /\ Len(added) <= EntriesPerBlock
      BY LenProperties DEF MkInv, MkTypeOK, LayoutInv
    <3>2. k - 1 \in Slot /\ k - 1 < Len(added) /\ (k - 1) + 1 = k /\ k # 0
      BY <3>1, Sizes DEF Slot
    <3>3. entries[k - 1].inode = k /\ entries[k - 1].name = added[k].name
      BY <3>2, EntryOf
    <3> QED BY <1>2, <3>2, <3>3
  <2> QED BY <2>1, <2>2 DEF Nowhere
<1> QED BY <1>1, <1>2

(* The blocks of a file.                                                   *)
LEMMA FileBlocks ==
  ASSUME MkInv, status # "failed", NEW k \in DOMAIN added
  PROVE  /\ k \in Nat /\ k >= 1 /\ k <= EntriesPerBlock
         /\ BlocksNeeded(added[k].size) \in 0 .. DirectBlocks
         /\ inode_table[k].type = FSSO_TYPE_FILE
         /\ \A j \in Index :
              IF j < BlocksNeeded(added[k].size)
                THEN data[inode_table[k].direct[j]] = <<added[k].data, j>> /\ inode_table[k].direct[j] # 0
                ELSE inode_table[k].direct[j] = 0
<1>1. Len(added) \in Nat /\ k \in 1 .. Len(added) /\ Len(added) <= EntriesPerBlock
  BY LenProperties DEF MkInv, MkTypeOK, LayoutInv
<1>2. PICK f \in File : f = added[k]
  BY <1>1, ElementOfSeq DEF MkInv, MkTypeOK, File
<1>3. f.size \in Nat /\ BlocksNeeded(f.size) \in 0 .. DirectBlocks
  BY FileSizeAssumption DEF File
<1>4. WholeFile(k, f)
  BY <1>2 DEF MkInv, LayoutInv
<1>5. ASSUME NEW j \in Index
      PROVE  IF j < BlocksNeeded(f.size)
                THEN data[inode_table[k].direct[j]] = <<f.data, j>> /\ inode_table[k].direct[j] # 0
                ELSE inode_table[k].direct[j] = 0
  <2>1. j \in Nat
    BY Sizes DEF Index
  <2>2. j < BlocksNeeded(f.size) <=> j * BlockSize < f.size
    BY <1>3, <2>1, NeededBlocks
  <2> QED BY <1>4, <2>2 DEF WholeFile, HoldsFile, NoBlock
<1>6. inode_table[k].type = FSSO_TYPE_FILE
  BY <1>4 DEF WholeFile, HoldsFile
<1> QED BY <1>1, <1>2, <1>3, <1>5, <1>6, Sizes

(* The root directory has one block.                                       *)
LEMMA RootBlocks ==
  /\ RootEntry.type = FSSO_TYPE_DIR /\ 0 \in Index /\ RootEntry.direct[0] = FirstDataBlock
  /\ FirstDataBlock # 0 /\ (1 < DirectBlocks => RootEntry.direct[1] = 0)
<1>1. 0 \in Index /\ (1 < DirectBlocks => 1 \in Index) /\ FirstDataBlock # 0
  BY Sizes DEF Index
<1>2. RootEntry.direct = [j \in Index |-> IF j = 0 THEN FirstDataBlock ELSE NoBlock]
      /\ RootEntry.type = FSSO_TYPE_DIR
  BY DEF RootEntry
<1> QED BY <1>1, <1>2 DEF NoBlock

(* What the steps of a call leave alone.                                   *)
LEMMA NamesKept ==
  ASSUME UNCHANGED mkVars
  PROVE  /\ added' = added /\ inode_table' = inode_table /\ data' = data
         /\ \A name, k : (Leads(name, k)' <=> Leads(name, k)) /\ (Nowhere(name)' <=> Nowhere(name))
<1>1. added' = added /\ inode_table' = inode_table /\ data' = data
  BY DEF mkVars, imageVars
<1> QED BY <1>1, Zenon DEF Leads, Nowhere, Reachable

(* The inode of the root directory, or of a file, is found.                *)
LEMMA CleanInode ==
  ASSUME DriverInv, fsso_read_inode, ~dirty', call.inode \in Nat, call.inode <= EntriesPerBlock
  PROVE  ~dirty /\ AfterInode(inode_table[call.inode])
<1>1. PICK n \in Nat : n = call.inode
  OBVIOUS
<1>2. /\ InodeTableBlock + (n \div InodesPerBlock) = InodeTableBlock /\ InodeTableBlock \in Block
      /\ InodesIn(InodeTableBlock, InodeTableBlock, n % InodesPerBlock) = {inode_table[n]}
  BY <1>1, FoundInode DEF DriverInv
<1>3. PICK r \in read_block(InodeTableBlock, Garbage) :
        /\ \E ino \in InodesIn(r.holds, InodeTableBlock, n % InodesPerBlock) : AfterInode(ino)
        /\ dirty' = (dirty \/ r.failed)
  BY <1>1, <1>2 DEF fsso_read_inode
<1>4. dirty \in BOOLEAN /\ r.failed \in BOOLEAN /\ (~r.failed => r.holds = InodeTableBlock)
  BY BlockRead DEF DriverInv, DriverTypes, FsTypeOK
<1>5. ~dirty /\ ~r.failed
  BY <1>3, <1>4
<1> QED BY <1>1, <1>2, <1>3, <1>4, <1>5

(* The calls of which the invariant says something.                        *)
Covered ==
  \/ call.fn = "find" /\ call.inode = RootInode
  \/ call.fn = "read" /\ call.inode \in DOMAIN added
  \/ call.fn = "resolve"

(* Where a call can be when the reads deliver: at the root, or at a file.  *)
LEMMA CleanTarget ==
  ASSUME DriverInv, CleanInv, ~dirty, total_inodes = TotalInodes, ~Between, Covered
  PROVE  /\ status # "failed" /\ call.inode \in Nat /\ call.inode <= EntriesPerBlock
         /\ call.inode < TotalInodes
         /\ call.inode = RootInode \/ call.inode \in DOMAIN added
<1>1. status # "failed" /\ MkInv
  BY DEF DriverInv, CallInv, Between
<1>2. call.inode = RootInode \/ call.inode \in DOMAIN added
  <2> SUFFICES ASSUME call.fn = "resolve" PROVE call.inode = RootInode \/ call.inode \in DOMAIN added
    BY DEF Covered
  <2>1. \E d : Walked(d)
    BY DEF CleanInv, ResolveInv, Between
  <2> QED BY <2>1 DEF Walked, Leads
<1>3. CASE call.inode = RootInode
  BY <1>1, <1>2, <1>3, Sizes DEF RootInode
<1>4. CASE call.inode \in DOMAIN added
  <2>1. PICK k : k = call.inode
    OBVIOUS
  <2>2. k \in Nat /\ k <= EntriesPerBlock
    BY <1>1, <1>4, <2>1, FileBlocks
  <2> QED BY <1>1, <1>2, <2>1, <2>2, Sizes
<1> QED BY <1>2, <1>3, <1>4

(* A call begins.                                                          *)
LEMMA CleanEnter ==
  ASSUME DriverInv, DriverInv', NEW c \in CallType, Enter(c), c.rest = c.path,
         c.fn = "resolve" => c.inode = RootInode
  PROVE  CleanInv'
<1>1. call' = c /\ pc' = (IF c.fn = "resolve" THEN "component" ELSE "inode")
  BY DEF Enter
<1>2. SearchInv' /\ FindInv' /\ ReadInv'
  BY <1>1 DEF SearchInv, FindInv, ReadInv, Between
<1>3. ResolveInv'
  <2> SUFFICES ASSUME c.fn = "resolve" PROVE ResolveInv'
    BY <1>1 DEF ResolveInv
  <2>1. Len(c.path) \in Nat
    BY LenProperties DEF CallType
  <2>2. Done' = 0
    BY <1>1, <2>1 DEF Done
  <2>3. {p \in 1 .. Done' : call'.path[p] # Dot} = {}
    BY <2>2
  <2>4. Walked(Done)'
    BY <1>1, <2>3 DEF Walked
  <2> QED BY <1>1, <2>4 DEF ResolveInv, Between
<1> QED BY <1>2, <1>3 DEF CleanInv

(* Steps outside of calls, those of cmd_ls among them.                     *)
LEMMA CleanOutside ==
  ASSUME DriverInv, CleanInv, Between, Between', UNCHANGED <<mkVars, total_inodes, call, copyVars, out_inode, result, dirty>>
  PROVE  CleanInv'
<1>1. /\ total_inodes' = total_inodes /\ call' = call /\ out' = out /\ out_inode' = out_inode
      /\ result' = result /\ dirty' = dirty
  BY DEF copyVars
<1>2. /\ added' = added /\ inode_table' = inode_table /\ data' = data
      /\ \A name, k : (Leads(name, k)' <=> Leads(name, k)) /\ (Nowhere(name)' <=> Nowhere(name))
  BY NamesKept
<1> SUFFICES ASSUME ~dirty', total_inodes' = TotalInodes
             PROVE  SearchInv' /\ FindInv' /\ ReadInv' /\ ResolveInv'
  BY DEF CleanInv
<1>3. SearchInv /\ FindInv /\ ReadInv /\ ResolveInv
  BY <1>1 DEF CleanInv
<1>4. SearchInv'
  BY DEF SearchInv, Between
<1>5. FindInv'
  BY <1>1, <1>2, <1>3 DEF FindInv
<1>6. ReadInv'
  BY <1>1, <1>2, <1>3 DEF ReadInv, Between
<1>7. ResolveInv'
  <2>1. Components(call.path)' = Components(call.path)
    BY <1>1 DEF Components
  <2> QED BY <1>1, <1>2, <1>3, <2>1 DEF ResolveInv, Between
<1> QED BY <1>4, <1>5, <1>6, <1>7

(* Walking along a path.                                                   *)
LEMMA CleanPath ==
  ASSUME DriverInv, DriverInv', CleanInv, SkipDot \/ LookUpComponent
  PROVE  CleanInv'
<1>1. /\ pc = "component" /\ call.rest # <<>> /\ pc' \in {"component", "inode"}
      /\ pc' = "component" => Head(call.rest) = Dot
      /\ UNCHANGED <<mkVars, total_inodes, dirty>>
  BY DEF SkipDot, LookUpComponent
<1>2. call.fn = "resolve" /\ call \in CallType
  BY <1>1 DEF DriverInv, DriverTypes, CallInv
<1>3. /\ call'.path = call.path /\ call'.rest = Tail(call.rest) /\ call'.fn = call.fn /\ call'.inode = call.inode
  BY <1>2 DEF SkipDot, LookUpComponent, CallType
<1>4. /\ Done \in Nat /\ Done' = Done + 1 /\ Head(call.rest) = call.path[Done + 1]
  BY <1>1, <1>3, PathStep
<1> SUFFICES ASSUME ~dirty', total_inodes' = TotalInodes
             PROVE  SearchInv' /\ FindInv' /\ ReadInv' /\ ResolveInv'
  BY DEF CleanInv
<1>5. SearchInv' /\ FindInv' /\ ReadInv'
  BY <1>1, <1>2, <1>3 DEF SearchInv, FindInv, ReadInv, Between
<1>6. Walked(Done)
  BY <1>1, <1>2 DEF CleanInv, ResolveInv
<1> DEFINE cs == {p \in 1 .. Done : call.path[p] # Dot}
<1>7. \/ cs = {} /\ call.inode = RootInode
      \/ \E p \in cs : cs = {p} /\ Leads(call.path[p], call.inode)
  BY <1>6 DEF Walked
<1>8. \A name, k : Leads(name, k)' <=> Leads(name, k)
  BY <1>1, NamesKept
<1>9. CASE pc' = "component"
  <2>1. {p \in 1 .. Done' : call'.path[p] # Dot} = cs
    BY <1>1, <1>3, <1>4, <1>9
  <2> HIDE DEF cs
  <2>2. Walked(Done)'
    BY <1>3, <1>7, <1>8, <2>1 DEF Walked
  <2> QED BY <1>5, <1>9, <2>2 DEF ResolveInv, Between
<1>10. CASE pc' = "inode"
  <2>1. Done' - 1 = Done
    BY <1>4
  <2>2. {p \in 1 .. Done' - 1 : call'.path[p] # Dot} = cs
    BY <1>3, <2>1
  <2> HIDE DEF cs
  <2>3. Walked(Done - 1)'
    BY <1>3, <1>7, <1>8, <2>2 DEF Walked
  <2> QED BY <1>5, <1>10, <2>3 DEF ResolveInv, Between
<1> QED BY <1>1, <1>9, <1>10

(* The end of a path.                                                      *)
LEMMA CleanResolved == ASSUME DriverInv, CleanInv, Resolved PROVE CleanInv'
<1>1. /\ pc = "component" /\ call.rest = <<>> /\ pc' = "idle" /\ result' = 0 /\ out_inode' = call.inode
      /\ call' = call /\ UNCHANGED <<mkVars, total_inodes, dirty>>
  BY DEF Resolved, Return
<1>2. call.fn = "resolve" /\ call \in CallType
  BY <1>1 DEF DriverInv, DriverTypes, CallInv
<1> SUFFICES ASSUME ~dirty', total_inodes' = TotalInodes
             PROVE  SearchInv' /\ FindInv' /\ ReadInv' /\ ResolveInv'
  BY DEF CleanInv
<1>3. SearchInv' /\ FindInv' /\ ReadInv'
  BY <1>1, <1>2 DEF SearchInv, FindInv, ReadInv, Between
<1>4. Walked(Done)
  BY <1>1, <1>2 DEF CleanInv, ResolveInv
<1>5. Done = Len(call.path) /\ DOMAIN call.path = 1 .. Len(call.path)
  <2>1. Len(call.path) \in Nat /\ DOMAIN call.path = 1 .. Len(call.path) /\ Len(call.rest) = 0
    BY <1>1, <1>2, LenProperties DEF CallType
  <2> QED BY <2>1 DEF Done
<1>6. {p \in 1 .. Done : call.path[p] # Dot} = Components(call.path)
  BY <1>5 DEF Components
<1>7. \A name, k : Leads(name, k)' <=> Leads(name, k)
  BY <1>1, NamesKept
<1>8. ResolveInv'
  <2>1. \/ Components(call.path) = {} /\ call.inode = RootInode
        \/ \E p \in Components(call.path) :
             Components(call.path) = {p} /\ Leads(call.path[p], call.inode)
    BY <1>4, <1>6 DEF Walked
  <2>2. Components(call.path)' = Components(call.path)
    BY <1>1 DEF Components
  <2> QED BY <1>1, <1>7, <2>1, <2>2 DEF ResolveInv, Between
<1> QED BY <1>3, <1>8

(* Of all other calls it says nothing.                                     *)
LEMMA NotCovered ==
  ASSUME ~Covered, ~Between, UNCHANGED <<mkVars, call>>
  PROVE  /\ FindInv' /\ ReadInv' /\ ResolveInv'
         /\ pc' # "loop" \/ call.fn = "read" => SearchInv'
         /\ call.fn = "find" => call.inode # RootInode
<1>1. call' = call /\ added' = added
  BY DEF mkVars
<1> QED BY <1>1 DEF Covered, FindInv, ReadInv, ResolveInv, SearchInv, Searching

(* No inode of a covered call is out of range.                             *)
LEMMA CleanOutOfRange == ASSUME DriverInv, CleanInv, InodeOutOfRange PROVE CleanInv'
<1>1. /\ pc = "inode" /\ call.inode >= total_inodes /\ pc' = "idle"
      /\ UNCHANGED <<mkVars, total_inodes, call, dirty>>
  BY DEF InodeOutOfRange, Fail, Return
<1> SUFFICES ASSUME ~dirty', total_inodes' = TotalInodes
             PROVE  SearchInv' /\ FindInv' /\ ReadInv' /\ ResolveInv'
  BY DEF CleanInv
<1>2. ~Between
  BY <1>1 DEF Between
<1>3. ASSUME Covered PROVE FALSE
  <2>1. call.inode \in Nat /\ call.inode < TotalInodes
    BY <1>1, <1>2, <1>3, CleanTarget
  <2> QED BY <1>1, <2>1, Sizes
<1> QED BY <1>1, <1>2, <1>3, NotCovered

(* A path is at its Done-th element, which is a component.                 *)
LEMMA CurrentComponent ==
  ASSUME DriverInv, call.fn = "resolve", pc \in {"inode", "loop"}
  PROVE  /\ Done \in Nat /\ Done >= 1 /\ call.name = call.path[Done]
         /\ Done \in Components(call.path) /\ 1 .. Done \subseteq DOMAIN call.path
         /\ {p \in 1 .. Done : call.path[p] # Dot} = {p \in 1 .. Done - 1 : call.path[p] # Dot} \cup {Done}
<1>1. Done >= 1 /\ call.path[Done] # Dot /\ call.name = call.path[Done]
  BY DEF DriverInv, PathInv
<1>2. call.path \in Seq(Name \cup {Dot}) /\ call.rest \in Seq(Name \cup {Dot})
  BY DEF DriverInv, DriverTypes, CallType
<1>3. Len(call.path) \in Nat /\ DOMAIN call.path = 1 .. Len(call.path) /\ Len(call.rest) \in Nat
  BY <1>2, LenProperties
<1>4. Done = Len(call.path) - Len(call.rest)
  BY DEF Done
<1>5. Done \in Nat /\ Done <= Len(call.path)
  <2>1. PICK x \in Nat, y \in Nat : x = Len(call.path) /\ y = Len(call.rest)
    BY <1>3
  <2>2. Done = x - y
    BY <1>4, <2>1
  <2>3. Done \in Int /\ Done <= x
    BY <2>2
  <2> QED BY <1>1, <2>1, <2>3
<1>6. Done \in Components(call.path) /\ 1 .. Done \subseteq DOMAIN call.path
  BY <1>1, <1>3, <1>5 DEF Components
<1> QED BY <1>1, <1>5, <1>6

(* The inode arrives: it is the root's, or that of a file.                 *)
LEMMA CleanReadInode == ASSUME DriverInv, CleanInv, fsso_read_inode PROVE CleanInv'
<1>1. /\ pc = "inode" /\ pc' \in {"loop", "idle"} /\ UNCHANGED <<mkVars, total_inodes, call, copyVars, out_inode>>
  BY DEF fsso_read_inode, AfterInode, Fail, Return
<1>2. call' = call /\ bytes_read' = bytes_read /\ out' = out
  BY <1>1 DEF copyVars
<1> SUFFICES ASSUME ~dirty', total_inodes' = TotalInodes
             PROVE  SearchInv' /\ FindInv' /\ ReadInv' /\ ResolveInv'
  BY DEF CleanInv
<1>3. ~Between /\ i = 0 /\ bytes_read = 0 /\ out = <<>> /\ call \in CallType /\ MkInv
  BY <1>1 DEF Between, DriverInv, CallInv, CopyInv, DriverTypes
<1>4. ~dirty
  <2>1. PICK r : dirty' = (dirty \/ r)
    BY DEF fsso_read_inode
  <2>2. dirty \in BOOLEAN
    BY DEF DriverInv, DriverTypes, FsTypeOK
  <2> QED BY <2>1, <2>2
<1>5. CASE ~Covered
  <2>1. FindInv' /\ ReadInv' /\ ResolveInv'
    BY <1>1, <1>3, <1>5, NotCovered
  <2>2. SearchInv'
    BY <1>2, <1>5 DEF SearchInv, Covered, Searching
  <2> QED BY <2>1, <2>2
<1>6. CASE Covered
  <2>1. /\ status # "failed" /\ call.inode \in Nat /\ call.inode <= EntriesPerBlock
        /\ call.inode = RootInode \/ call.inode \in DOMAIN added
    BY <1>1, <1>3, <1>4, <1>6, CleanTarget
  <2>2. AfterInode(inode_table[call.inode])
    BY <2>1, CleanInode
  <2>3. call.inode = RootInode => inode_table[call.inode] = RootEntry
    BY <1>3 DEF MkInv, RootInv
  <2>4. call.inode \in DOMAIN added => /\ call.inode # RootInode /\ inode_table[call.inode].type = FSSO_TYPE_FILE
                                       /\ BlocksNeeded(added[call.inode].size) \in Nat
    <3> SUFFICES ASSUME call.inode \in DOMAIN added
                 PROVE  /\ call.inode # RootInode /\ inode_table[call.inode].type = FSSO_TYPE_FILE
                        /\ BlocksNeeded(added[call.inode].size) \in Nat
      OBVIOUS
    <3>1. PICK k : k = call.inode
      OBVIOUS
    <3>2. k \in Nat /\ k >= 1 /\ inode_table[k].type = FSSO_TYPE_FILE
          /\ BlocksNeeded(added[k].size) \in 0 .. DirectBlocks
      BY <1>3, <2>1, <3>1, FileBlocks
    <3> QED BY <3>1, <3>2, Sizes DEF RootInode
  <2>5. FSSO_TYPE_FILE # FSSO_TYPE_DIR
    BY DEF FSSO_TYPE_FILE, FSSO_TYPE_DIR
  <2>6. /\ added' = added /\ inode_table' = inode_table /\ data' = data
        /\ \A name, k : (Leads(name, k)' <=> Leads(name, k)) /\ (Nowhere(name)' <=> Nowhere(name))
    BY <1>1, NamesKept
  <2>7. CASE call.fn = "find"
    <3>1. /\ pc' = "loop" /\ inode' = RootEntry /\ i' = 0
      BY <1>3, <1>6, <2>2, <2>3, <2>7, RootBlocks DEF Covered, AfterInode, WantedType, Searching
    <3> QED BY <1>2, <2>7, <3>1 DEF SearchInv, FindInv, ReadInv, ResolveInv, Between
  <2>8. CASE call.fn = "read"
    <3>1. /\ pc' = "loop" /\ inode' = inode_table[call.inode] /\ i' = 0 /\ call.inode \in DOMAIN added
      BY <1>3, <1>6, <2>2, <2>4, <2>8 DEF Covered, AfterInode, WantedType, Searching
    <3>2. SearchInv' /\ FindInv' /\ ResolveInv'
      BY <1>2, <2>8 DEF SearchInv, FindInv, ResolveInv, Searching
    <3>3. call.max \in Nat /\ 0 * BlockSize = 0
      BY <1>3, PositiveAssumption DEF CallType
    <3>4. bytes_read' = SmallerOf(call'.max, i' * BlockSize)
      BY <1>2, <1>3, <3>1, <3>3 DEF SmallerOf
    <3>5. 0 <= BlocksNeeded(added[call.inode].size)
      BY <2>4, <3>1
    <3>6. Len(out') = 0
      BY <1>2, <1>3
    <3> QED BY <1>2, <2>6, <3>1, <3>2, <3>4, <3>5, <3>6 DEF ReadInv, Between
  <2>9. CASE call.fn = "resolve"
    <3>1. /\ Done \in Nat /\ Done >= 1 /\ Done \in Components(call.path) /\ 1 .. Done \subseteq DOMAIN call.path
      BY <1>1, <2>9, CurrentComponent
    <3>2. Walked(Done - 1)
      BY <1>1, <1>4, <2>9 DEF CleanInv, ResolveInv
    <3>3. FindInv' /\ ReadInv' /\ Done' = Done /\ Components(call.path)' = Components(call.path)
      BY <1>2, <2>9 DEF FindInv, ReadInv, Done, Components
    <3>4. CASE call.inode = RootInode
      <4>1. /\ pc' = "loop" /\ inode' = RootEntry /\ i' = 0
        BY <1>3, <2>2, <2>3, <2>9, <3>4, RootBlocks DEF AfterInode, WantedType, Searching
      <4>2. SearchInv'
        BY <4>1 DEF SearchInv
      <4>3. Walked(Done - 1)'
        BY <1>2, <2>6, <3>2, <3>3 DEF Walked
      <4>4. ResolveInv'
        BY <1>2, <2>9, <3>4, <4>1, <4>3 DEF ResolveInv, Between
      <4> QED BY <3>3, <4>2, <4>4
    <3>5. CASE call.inode # RootInode
      <4>1. pc' = "idle" /\ result' = NoPath
        BY <2>1, <2>2, <2>4, <2>5, <2>9, <3>5 DEF AfterInode, WantedType, Searching, Fail, Return
      <4>2. PICK p \in 1 .. Done - 1 : call.path[p] # Dot
        BY <3>2, <3>5 DEF Walked
      <4>3. p \in Components(call.path) /\ p # Done
        BY <3>1, <4>2 DEF Components
      <4>4. \A q \in Components(call.path) : Components(call.path) # {q}
        BY <3>1, <4>3
      <4>5. result' # 0
        BY <4>1 DEF NoPath
      <4>6. ResolveInv'
        BY <1>2, <3>1, <3>3, <4>1, <4>4, <4>5 DEF ResolveInv, Between
      <4>7. SearchInv'
        BY <4>1 DEF SearchInv
      <4> QED BY <3>3, <4>6, <4>7
    <3> QED BY <3>4, <3>5
  <2> QED BY <1>6, <2>7, <2>8, <2>9 DEF Covered
<1> QED BY <1>5, <1>6

(* A round of a search looks at the root directory's block.                *)
LEMMA CleanFindStep == ASSUME DriverInv, CleanInv, FindStep PROVE CleanInv'
<1>1. PICK b : b = inode.direct[i]
  OBVIOUS
<1>2. PICK old \in Block \cup {Garbage} : old = block
  BY DEF DriverInv, DriverTypes, FsTypeOK
<1>3. PICK r \in read_block(b, old), n \in GarbageWord \cup Inode :
        /\ n \in SearchBlock(r.holds, call.name)
        /\ dirty' = (dirty \/ r.failed)
        /\ IF n # 0
             THEN Found(n)
             ELSE block' = r.holds /\ i' = i + 1 /\ UNCHANGED <<pc, call, result, inode, out_inode>>
  BY <1>1, <1>2 DEF FindStep
<1>4. /\ pc = "loop" /\ Searching /\ i < DirectBlocks /\ inode.direct[i] # 0
      /\ UNCHANGED <<mkVars, total_inodes, copyVars>>
  BY DEF FindStep, MoreBlocks
<1> SUFFICES ASSUME ~dirty', total_inodes' = TotalInodes
             PROVE  SearchInv' /\ FindInv' /\ ReadInv' /\ ResolveInv'
  BY DEF CleanInv
<1>5. ~dirty /\ r.holds = b /\ total_inodes = TotalInodes
  <2>1. dirty \in BOOLEAN /\ r.failed \in BOOLEAN /\ (~r.failed => r.holds = b)
    BY BlockRead DEF DriverInv, DriverTypes, FsTypeOK
  <2> QED BY <1>3, <1>4, <2>1
<1>6. ~Between /\ call.fn # "read" /\ MkInv /\ status # "failed" /\ call \in CallType
  BY <1>4 DEF Between, Searching, DriverInv, DriverTypes, CallInv
<1>7. /\ added' = added
      /\ \A name, k : (Leads(name, k)' <=> Leads(name, k)) /\ (Nowhere(name)' <=> Nowhere(name))
  BY <1>4, NamesKept
<1>8. CASE ~Covered
  <2>1. call.fn = "find" /\ call.inode # RootInode
    BY <1>4, <1>8 DEF Covered, Searching
  <2>2. call' = call
    BY <1>3, <2>1 DEF Found
  <2> QED BY <2>1, <2>2 DEF SearchInv, FindInv, ReadInv, ResolveInv
<1>9. CASE Covered
  <2>1. call.inode = RootInode
    BY <1>4, <1>5, <1>6, <1>9 DEF CleanInv, ResolveInv, Covered
  <2>2. inode = RootEntry /\ (i = 0 \/ i = 1)
    BY <1>4, <1>5, <2>1 DEF CleanInv, SearchInv
  <2>3. i = 0 /\ b = FirstDataBlock
    BY <1>1, <1>4, <2>2, RootBlocks
  <2>4. PICK name : name = call.name
    OBVIOUS
  <2>5. (n # 0 => Leads(name, n)) /\ (n = 0 => Nowhere(name))
    BY <1>3, <1>5, <1>6, <2>3, <2>4, SearchedRoot
  <2>6. CASE n = 0
    <3>1. i' = 1 /\ pc' = "loop" /\ call' = call /\ inode' = inode
      BY <1>3, <1>4, <2>3, <2>6
    <3>2. SearchInv'
      BY <1>7, <2>2, <2>4, <2>5, <2>6, <3>1 DEF SearchInv
    <3>3. ResolveInv'
      <4> SUFFICES ASSUME call.fn = "resolve" PROVE ResolveInv'
        BY <3>1 DEF ResolveInv
      <4>1. Walked(Done - 1)
        BY <1>4, <1>5 DEF CleanInv, ResolveInv
      <4>2. Walked(Done - 1)'
        BY <1>7, <3>1, <4>1 DEF Walked, Done
      <4> QED BY <2>1, <3>1, <4>2 DEF ResolveInv, Between
    <3> QED BY <1>6, <3>1, <3>2, <3>3 DEF FindInv, ReadInv, Between
  <2>7. CASE n # 0 /\ call.fn = "find"
    <3>1. pc' = "idle" /\ call' = call /\ result' = 0 /\ out_inode' = n
      BY <1>3, <2>7 DEF Found, Return
    <3> QED BY <1>7, <2>4, <2>5, <2>7, <3>1 DEF SearchInv, FindInv, ReadInv, ResolveInv
  <2>8. CASE n # 0 /\ call.fn = "resolve"
    <3>1. pc' = "component" /\ call' = [call EXCEPT !.inode = n]
      BY <1>3, <2>8 DEF Found
    <3>2. call'.path = call.path /\ call'.rest = call.rest /\ call'.fn = call.fn /\ call'.inode = n
      BY <1>6, <3>1 DEF CallType
    <3>3. SearchInv' /\ FindInv' /\ ReadInv'
      BY <1>6, <2>8, <3>1, <3>2 DEF SearchInv, FindInv, ReadInv
    <3>4. /\ Done \in Nat /\ call.name = call.path[Done]
          /\ {p \in 1 .. Done : call.path[p] # Dot} = {p \in 1 .. Done - 1 : call.path[p] # Dot} \cup {Done}
      BY <1>4, <2>8, CurrentComponent
    <3>5. {p \in 1 .. Done - 1 : call.path[p] # Dot} = {}
      <4>1. Walked(Done - 1)
        BY <1>4, <1>5, <2>8 DEF CleanInv, ResolveInv
      <4>2. RootInode \notin DOMAIN added
        BY LenProperties DEF RootInode, MkTypeOK, MkInv, DriverInv
      <4> QED BY <2>1, <4>1, <4>2 DEF Walked, Leads
    <3>6. Done' = Done
      BY <3>2 DEF Done
    <3>7. {p \in 1 .. Done' : call'.path[p] # Dot} = {Done}
      BY <3>2, <3>4, <3>5, <3>6
    <3>8. Leads(name, n)' /\ call'.path[Done] = name /\ call'.inode = n
      BY <1>7, <2>4, <2>5, <2>8, <3>2, <3>4
    <3>9. Walked(Done)'
      <4>1. \A p : p = Done => Leads(call.path[p], call.inode)'
        BY <3>8 DEF Leads, Reachable
      <4> QED BY <3>7, <4>1 DEF Walked
    <3>10. ResolveInv'
      BY <3>1, <3>9 DEF ResolveInv, Between
    <3> QED BY <3>3, <3>10
  <2> QED BY <1>6, <1>9, <2>6, <2>7, <2>8 DEF Covered
<1> QED BY <1>8, <1>9

(* A search that ends without a result has seen the block.                 *)
LEMMA CleanFindFails == ASSUME DriverInv, CleanInv, FindFails PROVE CleanInv'
<1>1. /\ pc = "loop" /\ Searching /\ ~MoreBlocks /\ pc' = "idle"
      /\ result' = IF call.fn = "resolve" THEN NoPath ELSE NotFound
      /\ call' = call /\ UNCHANGED <<mkVars, total_inodes, dirty>>
  BY DEF FindFails, Fail, Return
<1> SUFFICES ASSUME ~dirty', total_inodes' = TotalInodes
             PROVE  SearchInv' /\ FindInv' /\ ReadInv' /\ ResolveInv'
  BY DEF CleanInv
<1>2. result' # 0 /\ ~dirty /\ total_inodes = TotalInodes
  BY <1>1 DEF NoPath, NotFound
<1>3. \A name : Nowhere(name)' <=> Nowhere(name)
  BY <1>1, NamesKept
<1>4. SearchInv' /\ ReadInv'
  BY <1>1 DEF SearchInv, ReadInv, Searching
<1>5. call.inode = RootInode => Nowhere(call.name)
  <2> SUFFICES ASSUME call.inode = RootInode PROVE Nowhere(call.name)
    OBVIOUS
  <2>1. inode = RootEntry /\ (i = 0 \/ (i = 1 /\ Nowhere(call.name)))
    BY <1>1, <1>2 DEF CleanInv, SearchInv
  <2>2. i # 0
    BY <1>1, <2>1, RootBlocks, Sizes DEF MoreBlocks
  <2> QED BY <2>1, <2>2
<1>6. FindInv'
  BY <1>1, <1>2, <1>3, <1>5 DEF FindInv
<1>7. ResolveInv'
  <2> SUFFICES ASSUME call.fn = "resolve" PROVE ResolveInv'
    BY <1>1 DEF ResolveInv
  <2>1. Done \in Components(call.path) /\ call.name = call.path[Done]
    BY <1>1, CurrentComponent
  <2>2. call.inode = RootInode
    BY <1>1, <1>2 DEF CleanInv, ResolveInv
  <2>3. \A p \in Components(call.path) : Components(call.path) = {p} => Nowhere(call.path[p])
    BY <1>5, <2>1, <2>2
  <2>4. Components(call.path)' = Components(call.path)
    BY <1>1 DEF Components
  <2> QED BY <1>1, <1>2, <1>3, <2>1, <2>3, <2>4 DEF ResolveInv, Between
<1> QED BY <1>4, <1>6, <1>7

(* A round of a read appends the file's next block.                        *)
LEMMA CleanReadStep == ASSUME DriverInv, CleanInv, ReadStep PROVE CleanInv'
<1>1. PICK b : b = inode.direct[i]
  OBVIOUS
<1>2. PICK old \in Block \cup {Garbage} : old = block
  BY DEF DriverInv, DriverTypes, FsTypeOK
<1>3. PICK r \in read_block(b, old) :
        /\ dirty' = (dirty \/ r.failed)
        /\ out' = Append(out, [holds |-> r.holds, length |-> ToCopy])
  BY <1>1, <1>2 DEF ReadStep
<1>4. /\ pc = "loop" /\ call.fn = "read" /\ i < DirectBlocks /\ inode.direct[i] # 0 /\ bytes_read < call.max
      /\ bytes_read' = bytes_read + ToCopy /\ i' = i + 1 /\ pc' = pc /\ call' = call /\ inode' = inode
      /\ UNCHANGED <<mkVars, total_inodes>>
  BY DEF ReadStep, MoreBlocks
<1> SUFFICES ASSUME ~dirty', total_inodes' = TotalInodes
             PROVE  SearchInv' /\ FindInv' /\ ReadInv' /\ ResolveInv'
  BY DEF CleanInv
<1>5. ~dirty /\ r.holds = b /\ b \in Block /\ total_inodes = TotalInodes
  <2>1. dirty \in BOOLEAN /\ r.failed \in BOOLEAN /\ (~r.failed => r.holds = b /\ b \in Block)
    BY BlockRead DEF DriverInv, DriverTypes, FsTypeOK
  <2> QED BY <1>3, <1>4, <2>1
<1>6. SearchInv' /\ FindInv' /\ ResolveInv'
  BY <1>4 DEF SearchInv, FindInv, ResolveInv, Searching
<1>7. added' = added /\ inode_table' = inode_table /\ data' = data
  BY <1>4, NamesKept
<1>8. ReadInv'
  <2> SUFFICES ASSUME call.inode \in DOMAIN added PROVE ReadInv'
    BY <1>4, <1>7 DEF ReadInv
  <2>1. PICK k \in DOMAIN added : k = call.inode
    OBVIOUS
  <2> DEFINE needed == BlocksNeeded(added[k].size)
             B == BlockSize
  <2>2. MkInv /\ status # "failed"
    BY <1>4 DEF DriverInv, CallInv
  <2>3. /\ inode = inode_table[k] /\ i <= needed
        /\ bytes_read = SmallerOf(call.max, i * B)
        /\ Len(out) = i /\ \A j \in 1 .. i : data[out[j].holds] = <<added[k].data, j - 1>>
    BY <1>4, <1>5, <2>1 DEF CleanInv, ReadInv
  <2>4. needed \in Nat /\ i \in Nat /\ i \in Index /\ B \in Nat /\ B > 0 /\ call.max \in Nat
    <3>1. needed \in 0 .. DirectBlocks
      BY <2>1, <2>2, FileBlocks
    <3> QED BY <3>1, <1>4, PositiveAssumption DEF DriverInv, DriverTypes, FsTypeOK, CallType, Index
  <2>5. i < needed /\ data[b] = <<added[k].data, i>>
    BY <1>1, <1>4, <2>1, <2>2, <2>3, <2>4, FileBlocks
  <2> HIDE DEF needed, B
  <2>6. i' <= needed
    BY <1>4, <2>4, <2>5
  <2>7. bytes_read' = SmallerOf(call'.max, i' * B)
    <3>1. (i + 1) * B = i * B + B /\ i * B \in Nat
      BY <2>4
    <3>2. bytes_read = i * B
      BY <1>4, <2>3, <2>4, <3>1 DEF SmallerOf
    <3>3. ToCopy = IF bytes_read + B > call.max THEN call.max - bytes_read ELSE B
      BY DEF ToCopy, B
    <3>4. i' * B = i * B + B
      BY <1>4, <3>1
    <3> QED BY <1>4, <2>4, <3>1, <3>2, <3>3, <3>4 DEF SmallerOf
  <2>8. /\ Len(out') = i + 1 /\ out'[i + 1] = [holds |-> r.holds, length |-> ToCopy]
        /\ \A j \in 1 .. i : out'[j] = out[j]
    <3>1. out \in Seq(PieceType)
      BY DEF DriverInv, DriverTypes
    <3> QED BY <1>3, <2>3, <2>4, <3>1
  <2>9. ASSUME NEW j \in 1 .. i' PROVE data'[out'[j].holds] = <<added'[k].data, j - 1>>
    <3>1. CASE j = i + 1
      <4>1. out'[j].holds = b
        BY <1>5, <2>8, <3>1
      <4>2. j - 1 = i
        BY <2>4, <3>1
      <4> QED BY <1>7, <2>5, <4>1, <4>2
    <3>2. CASE j # i + 1
      <4>1. j \in 1 .. i
        BY <1>4, <2>4, <3>2
      <4> QED BY <1>7, <2>3, <2>8, <4>1
    <3> QED BY <3>1, <3>2
  <2> QED BY <1>4, <1>7, <2>1, <2>3, <2>6, <2>7, <2>8, <2>9 DEF ReadInv, Between, needed, B
<1> QED BY <1>6, <1>8

(* A read ends after the file's last block, or with the buffer full.       *)
LEMMA CleanReadDone == ASSUME DriverInv, CleanInv, ReadDone PROVE CleanInv'
<1>1. /\ pc = "loop" /\ call.fn = "read" /\ (~MoreBlocks \/ bytes_read >= call.max)
      /\ pc' = "idle" /\ result' = bytes_read /\ out' = out /\ call' = call
      /\ UNCHANGED <<mkVars, total_inodes, dirty>>
  BY DEF ReadDone, Return, copyVars
<1> SUFFICES ASSUME ~dirty', total_inodes' = TotalInodes
             PROVE  SearchInv' /\ FindInv' /\ ReadInv' /\ ResolveInv'
  BY DEF CleanInv
<1>2. SearchInv' /\ FindInv' /\ ResolveInv'
  BY <1>1 DEF SearchInv, FindInv, ResolveInv, Searching
<1>3. added' = added /\ inode_table' = inode_table /\ data' = data
  BY <1>1, NamesKept
<1>4. ReadInv'
  <2> SUFFICES ASSUME call.inode \in DOMAIN added PROVE ReadInv'
    BY <1>1, <1>3 DEF ReadInv
  <2>1. PICK k \in DOMAIN added : k = call.inode
    OBVIOUS
  <2> DEFINE needed == BlocksNeeded(added[k].size)
             B == BlockSize
  <2>2. MkInv /\ status # "failed"
    BY <1>1 DEF DriverInv, CallInv
  <2>3. /\ inode = inode_table[k] /\ i <= needed
        /\ bytes_read = SmallerOf(call.max, i * B)
        /\ Len(out) = i /\ \A j \in 1 .. i : data[out[j].holds] = <<added[k].data, j - 1>>
    BY <1>1, <2>1 DEF CleanInv, ReadInv
  <2>4. /\ needed \in Nat /\ needed <= DirectBlocks /\ i \in Nat /\ B \in Nat /\ B > 0 /\ call.max \in Nat
        /\ i < DirectBlocks => i \in Index
    <3>1. needed \in 0 .. DirectBlocks
      BY <2>1, <2>2, FileBlocks
    <3> QED BY <3>1, Sizes, PositiveAssumption DEF DriverInv, DriverTypes, FsTypeOK, CallType, Index
  <2>5. ~MoreBlocks => i = needed
    <3>1. i < needed => i < DirectBlocks /\ inode.direct[i] # 0
      BY <2>1, <2>2, <2>3, <2>4, Sizes, FileBlocks
    <3> QED BY <2>3, <2>4, <3>1 DEF MoreBlocks
  <2> HIDE DEF needed, B
  <2>6. result' = SmallerOf(call.max, B * needed)
    <3>1. i * B \in Nat /\ B * needed = needed * B /\ needed * B \in Nat
      BY <2>4
    <3>2. i * B <= needed * B
      BY <2>3, <2>4
    <3>3. ~MoreBlocks => i * B = needed * B
      BY <2>5
    <3>4. PICK x \in Nat, y \in Nat : x = i * B /\ y = B * needed
      BY <3>1
    <3>5. x <= y /\ (~MoreBlocks => x = y) /\ result' = SmallerOf(call.max, x)
      BY <1>1, <2>3, <3>1, <3>2, <3>3, <3>4
    <3>6. CASE ~MoreBlocks
      BY <3>4, <3>5, <3>6
    <3>7. CASE result' >= call.max
      BY <2>4, <3>4, <3>5, <3>7 DEF SmallerOf
    <3> QED BY <1>1, <3>6, <3>7
  <2>7. DOMAIN out = 1 .. i
    BY <2>3, LenProperties DEF DriverInv, DriverTypes
  <2> QED BY <1>1, <1>3, <2>1, <2>3, <2>6, <2>7 DEF ReadInv, Between, needed, B
<1> QED BY <1>2, <1>4

(* All steps inside a call.                                                *)
LEMMA CleanInCall == ASSUME DriverInv, CleanInv, InCall PROVE CleanInv'
<1>1. DriverInv'
  BY InCallInv
<1> QED BY <1>1, CleanPath, CleanResolved, CleanOutOfRange, CleanReadInode, CleanFindStep, CleanFindFails,
           CleanReadStep, CleanReadDone DEF InCall

(* The calls the kernel makes.                                             *)
LEMMA CleanCalls ==
  ASSUME DriverInv, DriverInv', CleanInv
  PROVE  /\ \A n \in Nat, name \in Name : CallFind(n, name) => CleanInv'
         /\ \A n \in Nat, max \in Nat : CallRead(n, max) => CleanInv'
         /\ \A path \in Path : CallResolve(path) => CleanInv'
<1>1. ASSUME NEW n \in Nat, NEW name \in Name, CallFind(n, name) PROVE CleanInv'
  <2> DEFINE c == [fn |-> "find", inode |-> n, name |-> name, max |-> 0, path |-> <<>>, rest |-> <<>>]
  <2>1. c \in CallType /\ c.fn = "find" /\ c.rest = c.path
    BY DEF CallType
  <2>2. Enter(c)
    BY <1>1 DEF CallFind
  <2> HIDE DEF c
  <2> QED BY <2>1, <2>2, CleanEnter
<1>2. ASSUME NEW n \in Nat, NEW max \in Nat, CallRead(n, max) PROVE CleanInv'
  <2> DEFINE c == [fn |-> "read", inode |-> n, name |-> NoName, max |-> max, path |-> <<>>, rest |-> <<>>]
  <2>1. c \in CallType /\ c.fn = "read" /\ c.rest = c.path
    BY DEF CallType
  <2>2. Enter(c)
    BY <1>2 DEF CallRead
  <2> HIDE DEF c
  <2> QED BY <2>1, <2>2, CleanEnter
<1>3. ASSUME NEW path \in Path, CallResolve(path) PROVE CleanInv'
  <2> DEFINE c == [fn |-> "resolve", inode |-> RootInode, name |-> NoName, max |-> 0,
                   path |-> path, rest |-> path]
  <2>1. path \in Seq(Name \cup {Dot}) /\ RootInode \in Nat
    BY GarbageAssumption DEF RootInode
  <2>2. c \in CallType /\ c.rest = c.path /\ c.inode = RootInode
    BY <2>1 DEF CallType
  <2>3. Enter(c)
    BY <1>3 DEF CallResolve
  <2> HIDE DEF c
  <2> QED BY <2>2, <2>3, CleanEnter
<1> QED BY <1>1, <1>2, <1>3

(* Before the first call there is nothing to say.                          *)
LEMMA CleanBoot == ASSUME call = NoCall PROVE CleanInv
<1>1. call.fn = "none"
  BY DEF NoCall
<1> QED BY <1>1 DEF CleanInv, SearchInv, FindInv, ReadInv, ResolveInv, Searching

(* Mount and builder.                                                      *)
LEMMA CleanBooting == ASSUME DriverInv, pc = "boot", UNCHANGED call PROVE CleanInv'
<1>1. call.fn = "none" /\ call' = call
  BY DEF DriverInv, CallInv, NoCall
<1> QED BY <1>1 DEF CleanInv, SearchInv, FindInv, ReadInv, ResolveInv, Searching

(* Stuttering.                                                             *)
LEMMA CleanStutter == ASSUME CleanInv, UNCHANGED <<mkVars, fsVars>> PROVE CleanInv'
<1>1. /\ pc' = pc /\ total_inodes' = total_inodes /\ call' = call /\ inode' = inode /\ i' = i
      /\ bytes_read' = bytes_read /\ out' = out /\ out_inode' = out_inode
      /\ result' = result /\ dirty' = dirty
  BY DEF fsVars, localVars, copyVars
<1>2. /\ added' = added /\ inode_table' = inode_table /\ data' = data
      /\ \A name, k : (Leads(name, k)' <=> Leads(name, k)) /\ (Nowhere(name)' <=> Nowhere(name))
  BY NamesKept
<1>3. SearchInv => SearchInv'
  BY <1>1, <1>2 DEF SearchInv, Searching
<1>4. FindInv => FindInv'
  BY <1>1, <1>2 DEF FindInv, Between
<1>5. ReadInv => ReadInv'
  BY <1>1, <1>2 DEF ReadInv, Between
<1>6. ResolveInv => ResolveInv'
  <2>1. Done' = Done /\ Components(call.path)' = Components(call.path)
    BY <1>1 DEF Done, Components
  <2>2. Walked(Done)' = Walked(Done) /\ Walked(Done - 1)' = Walked(Done - 1)
    BY <1>1, <1>2, <2>1 DEF Walked
  <2> QED BY <1>1, <1>2, <2>1, <2>2 DEF ResolveInv, Between
<1> QED BY <1>1, <1>3, <1>4, <1>5, <1>6 DEF CleanInv

---------------------------------------------------------------------------
(* The theorems about the driver.                                          *)

FsInv == DriverInv /\ CleanInv

(* The invariant holds at boot and is preserved.                           *)
LEMMA FsInvInductive == (FsInit => FsInv) /\ (FsInv /\ [FsNext]_<<mkVars, fsVars>> => FsInv')
<1>1. FsInit => FsInv
  BY InitDriverInv, CleanBoot DEF FsInit, FsInv
<1>2. ASSUME FsInv, [FsNext]_<<mkVars, fsVars>> PROVE FsInv'
  <2>1. DriverInv'
    BY <1>2, NextDriverInv DEF FsInv
  <2>2. CASE MkNext /\ UNCHANGED fsVars
    BY <1>2, <2>1, <2>2, BuilderInv, CleanBooting DEF FsInv, fsVars
  <2>3. CASE fsso_mount
    BY <1>2, <2>1, <2>3, CleanBooting DEF FsInv, fsso_mount
  <2>4. CASE Caller
    BY <1>2, <2>1, <2>4, CleanCalls, CallableTyped, GarbageAssumption DEF FsInv, Caller
  <2>5. CASE InCall
    BY <1>2, <2>1, <2>5, CleanInCall DEF FsInv
  <2>6. CASE UNCHANGED <<mkVars, fsVars>>
    BY <1>2, <2>1, <2>6, CleanStutter DEF FsInv
  <2> QED BY <1>2, <2>2, <2>3, <2>4, <2>5, <2>6 DEF FsNext
<1> QED BY <1>1, <1>2

(* A file of the image, as the properties describe it.                     *)
LEMMA LeadsToFile ==
  ASSUME DriverInv, pc = "idle", NEW name, NEW n, Leads(name, n)
  PROVE  \E k \in DOMAIN added : added[k].name = name /\ Reachable(k) /\ HoldsFile(n, added[k])
<1>1. n \in DOMAIN added /\ added[n].name = name /\ Reachable(n)
  BY DEF Leads
<1>2. WholeFile(n, added[n])
  BY <1>1 DEF DriverInv, CallInv, MkInv, LayoutInv
<1> QED BY <1>1, <1>2 DEF WholeFile

(* The slot that a search ends at is that of the file which its name leads *)
(* to.                                                                     *)
LEMMA FirstIsReachable ==
  ASSUME MkInv, status # "failed", NEW k \in DOMAIN added, NEW s \in Slot,
         FindsFirst(s, added[k].name), Reachable(k)
  PROVE  entries[s].inode = k
<1>1. /\ k \in Nat /\ k > 0 /\ k - 1 \in Slot /\ entries[k - 1].inode = k
      /\ FindsFirst(k - 1, added[k].name)
  BY SlotOfFile DEF Reachable
<1>2. s \in Nat /\ k - 1 \in Nat
  BY <1>1, Sizes DEF Slot
<1>3. ~(s < k - 1) /\ ~(k - 1 < s)
  BY <1>1 DEF FindsFirst
<1>4. s = k - 1
  BY <1>2, <1>3
<1> QED BY <1>1, <1>4

(* fsso_read_file stays inside the caller's buffer and returns what it     *)
(* copied, whatever the blocks it reads contain and however many of its    *)
(* reads fail.                                                             *)
THEOREM CopyStaysInside == FsSpec => []CopyBounded
<1>1. FsInit => DriverInv
  BY InitDriverInv
<1>2. DriverInv /\ [FsNext]_<<mkVars, fsVars>> => DriverInv'
  BY NextDriverInv
<1>3. DriverInv => CopyBounded
  <2> SUFFICES ASSUME DriverInv PROVE CopyBounded
    OBVIOUS
  <2>1. ASSUME NEW k \in DOMAIN out PROVE out[k].length > 0
    <3>1. out \in Seq(PieceType) /\ k \in 1 .. Len(out)
      BY LenProperties DEF DriverInv, DriverTypes
    <3>2. out[k] \in PieceType
      BY <3>1, ElementOfSeq
    <3> QED BY <3>2 DEF PieceType
  <2> QED BY <2>1 DEF DriverInv, CopyInv, CopyBounded, Between
<1> QED BY <1>1, <1>2, <1>3, PTL DEF FsSpec

(* With reads that deliver, fsso_find_in_dir finds in the root directory   *)
(* the first file of a name, and reports a name that no file has.          *)
THEOREM FindIsCorrect == FsSpec => []FindCorrect
<1>1. (FsInit => FsInv) /\ (FsInv /\ [FsNext]_<<mkVars, fsVars>> => FsInv')
  BY FsInvInductive
<1>2. FsInv => FindCorrect
  <2> SUFFICES ASSUME FsInv, pc = "idle", call.fn = "find", call.inode = RootInode, ~dirty,
                      total_inodes = TotalInodes
               PROVE  IF result = 0
                        THEN \E k \in DOMAIN added :
                               /\ added[k].name = call.name /\ Reachable(k)
                               /\ HoldsFile(out_inode, added[k])
                        ELSE \A k \in DOMAIN added : added[k].name # call.name
    BY DEF FindCorrect
  <2>1. IF result = 0 THEN Leads(call.name, out_inode) ELSE Nowhere(call.name)
    BY DEF FsInv, CleanInv, FindInv, Between
  <2>2. PICK name, n : name = call.name /\ n = out_inode
    OBVIOUS
  <2> QED BY <2>1, <2>2, LeadsToFile DEF Nowhere, FsInv
<1> QED BY <1>1, <1>2, PTL DEF FsSpec

(* With reads that deliver, fsso_read_file copies the blocks of a file in  *)
(* order, all of them or as far as the buffer reaches.                     *)
THEOREM ReadIsCorrect == FsSpec => []ReadCorrect
<1>1. (FsInit => FsInv) /\ (FsInv /\ [FsNext]_<<mkVars, fsVars>> => FsInv')
  BY FsInvInductive
<1>2. FsInv => ReadCorrect
  <2> SUFFICES ASSUME FsInv, pc = "idle", call.fn = "read", ~dirty, total_inodes = TotalInodes,
                      NEW k \in DOMAIN added, NEW s \in Slot,
                      FindsFirst(s, added[k].name), Reachable(k), call.inode = entries[s].inode
               PROVE  /\ result = SmallerOf(call.max, BlockSize * BlocksNeeded(added[k].size))
                      /\ \A j \in DOMAIN out : data[out[j].holds] = <<added[k].data, j - 1>>
    BY DEF ReadCorrect
  <2>1. call.inode = k
    BY FirstIsReachable DEF FsInv, DriverInv, CallInv
  <2> QED BY <2>1 DEF FsInv, CleanInv, ReadInv, Between
<1> QED BY <1>1, <1>2, PTL DEF FsSpec

(* With reads that deliver, fsso_resolve_path accepts the root and the     *)
(* files in it, and nothing below a file.                                  *)
THEOREM ResolveIsCorrect == FsSpec => []ResolveCorrect
<1>1. (FsInit => FsInv) /\ (FsInv /\ [FsNext]_<<mkVars, fsVars>> => FsInv')
  BY FsInvInductive
<1>2. FsInv => ResolveCorrect
  <2> SUFFICES ASSUME FsInv, pc = "idle", call.fn = "resolve", ~dirty, total_inodes = TotalInodes
               PROVE  LET cs == Components(call.path) IN
                      IF result = 0
                        THEN \/ cs = {} /\ out_inode = RootInode
                             \/ \E p \in cs, k \in DOMAIN added :
                                  /\ cs = {p}
                                  /\ added[k].name = call.path[p] /\ Reachable(k) /\ HoldsFile(out_inode, added[k])
                        ELSE /\ cs # {}
                             /\ \A p \in cs, k \in DOMAIN added : cs = {p} => added[k].name # call.path[p]
    BY DEF ResolveCorrect
  <2>1. LET cs == Components(call.path) IN
        IF result = 0
          THEN \/ cs = {} /\ out_inode = RootInode
               \/ \E p \in cs : cs = {p} /\ Leads(call.path[p], out_inode)
          ELSE cs # {} /\ \A p \in cs : cs = {p} => Nowhere(call.path[p])
    BY DEF FsInv, CleanInv, ResolveInv, Between
  <2>2. PICK cs, path, n : cs = Components(call.path) /\ path = call.path /\ n = out_inode
    OBVIOUS
  <2>3. CASE result = 0 /\ ~(cs = {} /\ n = RootInode)
    <3>1. PICK p \in cs : cs = {p} /\ Leads(path[p], n)
      BY <2>1, <2>2, <2>3
    <3>2. \E k \in DOMAIN added : added[k].name = path[p] /\ Reachable(k) /\ HoldsFile(n, added[k])
      BY <3>1, LeadsToFile DEF FsInv
    <3> QED BY <2>2, <2>3, <3>1, <3>2
  <2>4. CASE ~(result = 0 /\ ~(cs = {} /\ n = RootInode))
    BY <2>1, <2>2, <2>4 DEF Nowhere
  <2> QED BY <2>3, <2>4
<1> QED BY <1>1, <1>2, PTL DEF FsSpec

---------------------------------------------------------------------------
(* The invariant of the shell's commands.                                  *)

FileNames == [k \in DOMAIN added |-> added[k].name]

CommandTypes ==
  /\ command \in [fn : {"none", "cat", "ls"}, name : Name \cup {NoName}, stage : {"done", "find", "read", "list"}]
  /\ shown.kind \in {"none", "usage", "not found", "error", "text", "names"}
  /\ spoiled \in BOOLEAN

(* Which command is where, and what it has called.                         *)
StageInv ==
  /\ pc = "boot" => command.fn = "none"
  /\ call.fn # "resolve"
  /\ command.stage = "done" => pc \in {"boot", "halted", "idle"}
  /\ command.stage \in {"find", "read"} => pc \in {"inode", "loop", "idle"} /\ command.fn = "cat"
  /\ command.stage = "list" <=> pc \in {"ls_inode", "ls_loop"}
  /\ command.stage = "list" => command.fn = "ls"
  /\ command.stage = "find" => call.fn = "find" /\ call.inode = RootInode /\ call.name = command.name
  /\ command.stage = "read" => call.fn = "read" /\ call.max = CatBuffer

(* While the reads deliver, cat reads the file that its name leads to.     *)
CatInv ==
  ~spoiled /\ total_inodes = TotalInodes =>
    /\ command.stage = "read" => Leads(command.name, call.inode)
    /\ CatCorrect

(* While they deliver, ls has listed nothing, or everything.               *)
LsInv ==
  /\ pc = "ls_inode" => shown.body = <<>>
  /\ ~spoiled /\ total_inodes = TotalInodes =>
    /\ pc = "ls_loop" => /\ inode = RootEntry
                         /\ (i = 0 /\ shown.body = <<>>) \/ (i = 1 /\ shown.body = FileNames)
    /\ LsCorrect

ShInv == FsInv /\ CommandTypes /\ StageInv /\ CatInv /\ LsInv

(* ls prints the names of the files in the order in which they were added. *)
LEMMA NamesListed ==
  ASSUME MkInv, status # "failed"
  PROVE  NamesOfRoot = FileNames /\ NamesOfRoot \in Seq(Name \cup {NoName})
<1> DEFINE len == Len(added)
<1>1. len \in Nat /\ DOMAIN added = 1 .. len /\ len <= EntriesPerBlock
  BY LenProperties DEF MkInv, MkTypeOK, LayoutInv
<1>2. InUse = 0 .. len - 1
  <2>1. ASSUME NEW s \in Slot PROVE s \in Nat /\ (entries[s].inode # 0 <=> s < len)
    BY EntryOf
  <2>2. \A s \in 0 .. len - 1 : s \in Slot
    BY <1>1, Sizes DEF Slot
  <2> HIDE DEF len
  <2> QED BY <1>1, <2>1, <2>2 DEF InUse
<1> HIDE DEF len
<1>3. Cardinality(InUse) = len
  BY <1>1, <1>2, FS_Interval
<1>4. ASSUME NEW s \in InUse PROVE s \in Nat /\ s < len /\ Cardinality({t \in InUse : t <= s}) = s + 1
  <2>1. s \in Nat /\ s < len
    BY <1>1, <1>2
  <2>2. {t \in InUse : t <= s} = 0 .. s
    BY <1>1, <1>2, <2>1
  <2>3. Cardinality(0 .. s) = s + 1
    BY <2>1, FS_Interval
  <2> QED BY <2>1, <2>2, <2>3
<1>5. ASSUME NEW k \in 1 .. len
      PROVE  entries[CHOOSE s \in InUse : Cardinality({t \in InUse : t <= s}) = k].name = added[k].name
  <2>1. k - 1 \in InUse /\ k - 1 < len /\ (k - 1) + 1 = k /\ k \in Nat
    BY <1>1, <1>2
  <2>2. Cardinality({t \in InUse : t <= k - 1}) = k
    BY <1>4, <2>1
  <2>3. \A s \in InUse : Cardinality({t \in InUse : t <= s}) = k => s = k - 1
    BY <1>4, <2>1
  <2>4. (CHOOSE s \in InUse : Cardinality({t \in InUse : t <= s}) = k) = k - 1
    BY <2>1, <2>2, <2>3
  <2>5. entries[k - 1].name = added[(k - 1) + 1].name
    BY <2>1, EntryOf DEF InUse, len
  <2> QED BY <2>1, <2>4, <2>5
<1>6. NamesOfRoot = FileNames
  BY <1>1, <1>3, <1>5 DEF NamesOfRoot, FileNames
<1>7. \A k \in 1 .. len : added[k].name \in Name
  <2>1. added \in Seq(File)
    BY DEF MkInv, MkTypeOK, File
  <2>2. \A k \in 1 .. len : added[k] \in File
    BY <2>1, ElementOfSeq DEF len
  <2> QED BY <2>2 DEF File
<1>8. FileNames \in Seq(Name \cup {NoName})
  BY <1>1, <1>7 DEF FileNames
<1> QED BY <1>6, <1>8

(* Inside a call of the driver that cat made.                              *)
LEMMA CallOfCat ==
  ASSUME DriverInv, InCall, call.fn # "resolve"
  PROVE  /\ pc \in {"inode", "loop"} /\ pc' \in {"loop", "idle"}
         /\ call' = call /\ UNCHANGED <<mkVars, total_inodes>>
<1>1. pc # "component"
  BY DEF DriverInv, CallInv
<1>2. CASE InodeOutOfRange
  BY <1>2 DEF InodeOutOfRange, Fail, Return
<1>3. CASE fsso_read_inode
  BY <1>3 DEF fsso_read_inode, AfterInode, Fail, Return
<1>4. CASE FindStep
  BY <1>4 DEF FindStep, Found, Return
<1>5. CASE FindFails
  BY <1>5 DEF FindFails, Fail, Return
<1>6. CASE ReadStep
  BY <1>6 DEF ReadStep
<1>7. CASE ReadDone
  BY <1>7 DEF ReadDone, Return
<1> QED BY <1>1, <1>2, <1>3, <1>4, <1>5, <1>6, <1>7 DEF InCall, SkipDot, LookUpComponent, Resolved

---------------------------------------------------------------------------
(* Every action of the shell keeps the invariant.                          *)

(* Builder and mount: no command has been entered.                         *)
LEMMA ShBooting ==
  ASSUME ShInv, (MkNext /\ UNCHANGED fsVars) \/ fsso_mount, UNCHANGED <<command, shown, spoiled>>
  PROVE  ShInv'
<1>1. pc = "boot" /\ pc' \in {"boot", "idle", "halted"} /\ call' = call /\ DriverInv'
  BY BuilderInv, MountInv DEF ShInv, FsInv, fsso_mount, fsVars
<1>2. FsInv'
  BY <1>1, CleanBooting DEF ShInv, FsInv
<1>3. command.fn = "none" /\ command.stage = "done"
  BY <1>1 DEF ShInv, StageInv, CommandTypes
<1>4. CommandTypes' /\ StageInv'
  BY <1>1, <1>3 DEF ShInv, CommandTypes, StageInv
<1>5. CatInv' /\ LsInv'
  BY <1>1, <1>3 DEF CatInv, LsInv, CatCorrect, LsCorrect
<1> QED BY <1>2, <1>4, <1>5 DEF ShInv

(* Commands that end without a call.                                       *)
LEMMA ShUsage == ASSUME ShInv, CatUsage PROVE ShInv'
<1>1. /\ pc = "idle" /\ command' = [fn |-> "cat", name |-> NoName, stage |-> "done"]
      /\ shown' = [kind |-> "usage", body |-> <<>>] /\ spoiled' = FALSE /\ UNCHANGED <<mkVars, fsVars>>
  BY DEF CatUsage
<1>2. pc' = pc /\ call' = call
  BY <1>1 DEF fsVars
<1>3. FsInv'
  BY <1>1, StutterInv, CleanStutter DEF ShInv, FsInv
<1>4. command'.fn = "cat" /\ command'.name = NoName /\ command'.stage = "done" /\ shown'.kind = "usage"
  BY <1>1
<1>5. CommandTypes'
  <2>1. spoiled' \in BOOLEAN
    BY <1>1, Zenon
  <2> QED BY <1>1, <1>4, <2>1 DEF CommandTypes
<1>6. StageInv'
  BY <1>1, <1>2, <1>4 DEF ShInv, StageInv
<1>7. CatInv' /\ LsInv'
  BY <1>1, <1>2, <1>4 DEF CatInv, LsInv, CatCorrect, LsCorrect
<1> QED BY <1>3, <1>5, <1>6, <1>7 DEF ShInv

(* cat looks its name up.                                                  *)
LEMMA ShCatFind == ASSUME ShInv, NEW name \in Name, CatFind(name) PROVE ShInv'
<1>1. /\ command' = [fn |-> "cat", name |-> name, stage |-> "find"] /\ shown' = Nothing /\ spoiled' = FALSE
      /\ CallFind(RootInode, name)
  BY DEF CatFind, Begin
<1>2. /\ pc' = "inode"
      /\ call' = [fn |-> "find", inode |-> RootInode, name |-> name, max |-> 0, path |-> <<>>, rest |-> <<>>]
  BY <1>1 DEF CallFind, Enter
<1>3. call'.fn = "find" /\ call'.inode = RootInode /\ call'.name = name
  BY <1>2
<1>4. FsInv'
  <2>1. RootInode \in Nat
    BY DEF RootInode
  <2>2. DriverInv'
    BY <1>1, <2>1, CallFindInv DEF ShInv, FsInv
  <2> QED BY <1>1, <2>1, <2>2, CleanCalls DEF ShInv, FsInv
<1>5. command'.fn = "cat" /\ command'.name = name /\ command'.stage = "find" /\ shown'.kind = "none"
  BY <1>1 DEF Nothing
<1>6. CommandTypes'
  <2>1. spoiled' \in BOOLEAN
    BY <1>1, Zenon
  <2> QED BY <1>1, <1>5, <2>1 DEF CommandTypes
<1>7. StageInv'
  BY <1>2, <1>3, <1>5 DEF StageInv
<1>8. CatInv' /\ LsInv'
  BY <1>2, <1>5 DEF CatInv, LsInv, CatCorrect, LsCorrect
<1> QED BY <1>4, <1>6, <1>7, <1>8 DEF ShInv

(* The name leads nowhere.                                                 *)
LEMMA ShCatNotFound == ASSUME ShInv, CatNotFound PROVE ShInv'
<1>1. /\ pc = "idle" /\ command.stage = "find" /\ result # 0
      /\ command' = [command EXCEPT !.stage = "done"] /\ shown' = [kind |-> "not found", body |-> <<>>]
      /\ spoiled' = (spoiled \/ dirty) /\ UNCHANGED <<mkVars, fsVars>>
  BY DEF CatNotFound, Finish
<1>2. pc' = pc /\ call' = call /\ total_inodes' = total_inodes /\ dirty' = dirty
  BY <1>1 DEF fsVars
<1>3. FsInv'
  BY <1>1, StutterInv, CleanStutter DEF ShInv, FsInv
<1>4. /\ command'.fn = "cat" /\ command'.name = command.name /\ command'.stage = "done"
      /\ command'.name \in Name \cup {NoName} /\ shown'.kind = "not found"
  BY <1>1 DEF ShInv, CommandTypes, StageInv
<1>5. spoiled \in BOOLEAN /\ dirty \in BOOLEAN
  BY DEF ShInv, CommandTypes, FsInv, DriverInv, DriverTypes, FsTypeOK
<1>6. CommandTypes'
  <2>1. spoiled' \in BOOLEAN
    BY <1>1, <1>5, Zenon
  <2>2. command' = [fn |-> "cat", name |-> command.name, stage |-> "done"]
    BY <1>1, <1>4 DEF ShInv, CommandTypes
  <2> QED BY <1>4, <2>1, <2>2 DEF CommandTypes
<1>7. StageInv'
  BY <1>1, <1>2, <1>4 DEF ShInv, StageInv
<1>8. LsInv'
  BY <1>1, <1>2, <1>4 DEF LsInv, LsCorrect
<1>9. CatInv'
  <2> SUFFICES ASSUME ~spoiled', total_inodes' = TotalInodes
               PROVE  CatCorrect'
    BY <1>4 DEF CatInv
  <2>1. Nowhere(command.name)
    <3>1. ~dirty
      BY <1>1, <1>5
    <3> QED BY <1>1, <1>2, <3>1 DEF ShInv, FsInv, CleanInv, FindInv, StageInv, Between
  <2>2. added' = added
    BY <1>1, NamesKept
  <2> QED BY <1>4, <2>1, <2>2 DEF CatCorrect, Nowhere
<1> QED BY <1>3, <1>6, <1>7, <1>8, <1>9 DEF ShInv

(* The file is read.                                                       *)
LEMMA ShCatRead == ASSUME ShInv, CatRead PROVE ShInv'
<1>1. /\ pc = "idle" /\ command.stage = "find" /\ result = 0
      /\ command' = [command EXCEPT !.stage = "read"] /\ shown' = shown
      /\ spoiled' = (spoiled \/ dirty) /\ CallRead(out_inode, CatBuffer)
  BY DEF CatRead
<1>2. /\ pc' = "inode" /\ UNCHANGED <<mkVars, total_inodes>>
      /\ call' = [fn |-> "read", inode |-> out_inode, name |-> NoName, max |-> CatBuffer, path |-> <<>>, rest |-> <<>>]
  BY <1>1 DEF CallRead, Enter
<1>3. call'.fn = "read" /\ call'.inode = out_inode /\ call'.max = CatBuffer
  BY <1>2
<1>4. FsInv'
  <2>1. PICK n \in Nat : n = out_inode
    BY CallableTyped DEF ShInv, FsInv
  <2>2. CallRead(n, CatBuffer) /\ CatBuffer \in Nat
    BY <1>1, <2>1, CatAssumption
  <2>3. DriverInv'
    BY <2>2, CallReadInv DEF ShInv, FsInv
  <2> QED BY <2>2, <2>3, CleanCalls DEF ShInv, FsInv
<1>5. /\ command'.fn = "cat" /\ command'.name = command.name /\ command'.stage = "read"
      /\ command'.name \in Name \cup {NoName}
  BY <1>1 DEF ShInv, CommandTypes, StageInv
<1>6. spoiled \in BOOLEAN /\ dirty \in BOOLEAN
  BY DEF ShInv, CommandTypes, FsInv, DriverInv, DriverTypes, FsTypeOK
<1>7. CommandTypes'
  <2>1. spoiled' \in BOOLEAN
    BY <1>1, <1>6, Zenon
  <2>2. command' = [fn |-> "cat", name |-> command.name, stage |-> "read"]
    BY <1>1, <1>5 DEF ShInv, CommandTypes
  <2> QED BY <1>1, <1>5, <2>1, <2>2 DEF ShInv, CommandTypes
<1>8. StageInv'
  BY <1>2, <1>3, <1>5 DEF StageInv
<1>9. LsInv'
  BY <1>2, <1>5 DEF LsInv, LsCorrect
<1>10. CatInv'
  <2> SUFFICES ASSUME ~spoiled', total_inodes' = TotalInodes
               PROVE  Leads(command.name, call.inode)'
    BY <1>5 DEF CatInv, CatCorrect
  <2>1. PICK name, n : name = command.name /\ n = out_inode
    OBVIOUS
  <2>2. Leads(name, n)
    <3>1. ~dirty
      BY <1>1, <1>6
    <3> QED BY <1>1, <1>2, <2>1, <3>1 DEF ShInv, FsInv, CleanInv, FindInv, StageInv, Between
  <2>3. Leads(name, n)'
    BY <1>2, <2>2, NamesKept
  <2> QED BY <1>3, <1>5, <2>1, <2>3 DEF Leads, Reachable
<1> QED BY <1>4, <1>7, <1>8, <1>9, <1>10 DEF ShInv

(* What was read is printed.                                               *)
LEMMA ShCatShow == ASSUME ShInv, CatShow PROVE ShInv'
<1>1. /\ pc = "idle" /\ command.stage = "read"
      /\ command' = [command EXCEPT !.stage = "done"]
      /\ shown' = IF result < 0 THEN [kind |-> "error", body |-> <<>>] ELSE [kind |-> "text", body |-> out]
      /\ spoiled' = (spoiled \/ dirty) /\ UNCHANGED <<mkVars, fsVars>>
  BY DEF CatShow, Finish
<1>2. /\ pc' = pc /\ call' = call /\ total_inodes' = total_inodes /\ dirty' = dirty /\ bytes_read' = bytes_read
  BY <1>1 DEF fsVars, copyVars
<1>3. FsInv'
  BY <1>1, StutterInv, CleanStutter DEF ShInv, FsInv
<1>4. /\ command'.fn = "cat" /\ command'.name = command.name /\ command'.stage = "done"
      /\ command'.name \in Name \cup {NoName} /\ shown'.kind \in {"error", "text"}
  BY <1>1 DEF ShInv, CommandTypes, StageInv
<1>5. spoiled \in BOOLEAN /\ dirty \in BOOLEAN
  BY DEF ShInv, CommandTypes, FsInv, DriverInv, DriverTypes, FsTypeOK
<1>6. CommandTypes'
  <2>1. spoiled' \in BOOLEAN
    BY <1>1, <1>5, Zenon
  <2>2. command' = [fn |-> "cat", name |-> command.name, stage |-> "done"]
    BY <1>1, <1>4 DEF ShInv, CommandTypes
  <2> QED BY <1>4, <2>1, <2>2 DEF CommandTypes
<1>7. StageInv'
  BY <1>1, <1>2, <1>4 DEF ShInv, StageInv
<1>8. LsInv'
  BY <1>1, <1>2, <1>4 DEF LsInv, LsCorrect
<1>9. CatInv'
  <2> SUFFICES ASSUME ~spoiled', total_inodes' = TotalInodes
               PROVE  CatCorrect'
    BY <1>4 DEF CatInv
  <2>1. ~dirty /\ ~spoiled /\ total_inodes = TotalInodes
    BY <1>1, <1>2, <1>5
  <2>2. Leads(command.name, call.inode)
    BY <1>1, <2>1 DEF ShInv, CatInv
  <2>3. PICK k : k = call.inode
    OBVIOUS
  <2>4. k \in DOMAIN added /\ added[k].name = command.name /\ Reachable(k)
    BY <2>2, <2>3 DEF Leads
  <2>5. call.fn = "read" /\ call.max = CatBuffer
    BY <1>1 DEF ShInv, StageInv
  <2>6. /\ result = SmallerOf(CatBuffer, BlockSize * BlocksNeeded(added[k].size))
        /\ \A j \in DOMAIN out : data[out[j].holds] = <<added[k].data, j - 1>>
    BY <1>1, <2>1, <2>3, <2>4, <2>5 DEF ShInv, FsInv, CleanInv, ReadInv, Between
  <2>7. result \in Nat
    <3>1. BlocksNeeded(added[k].size) \in Nat
      <4>1. MkInv /\ status # "failed"
        BY <1>1 DEF ShInv, FsInv, DriverInv, CallInv
      <4>2. BlocksNeeded(added[k].size) \in 0 .. DirectBlocks
        BY <2>4, <4>1, FileBlocks
      <4> QED BY <4>2, Sizes
    <3>2. PICK x \in Nat : x = BlockSize * BlocksNeeded(added[k].size)
      BY <3>1, PositiveAssumption
    <3> QED BY <2>6, <3>2, CatAssumption DEF SmallerOf
  <2>8. bytes_read = result
    BY <1>1, <2>5, <2>7 DEF ShInv, FsInv, DriverInv, CopyInv, Between
  <2>9. shown' = [kind |-> "text", body |-> out]
    BY <1>1, <2>7
  <2>10. shown'.kind = "text" /\ shown'.body = out
    BY <2>9
  <2>11. added' = added /\ data' = data
    BY <1>1, NamesKept
  <2> QED BY <1>2, <1>4, <2>4, <2>6, <2>8, <2>10, <2>11 DEF CatCorrect, Reachable
<1> QED BY <1>3, <1>6, <1>7, <1>8, <1>9 DEF ShInv

(* The driver's steps inside a call that cat made.                         *)
LEMMA ShInCall == ASSUME ShInv, InCall, UNCHANGED <<command, shown, spoiled>> PROVE ShInv'
<1>1. /\ pc \in {"inode", "loop"} /\ pc' \in {"loop", "idle"}
      /\ call' = call /\ UNCHANGED <<mkVars, total_inodes>>
  BY CallOfCat DEF ShInv, FsInv, StageInv
<1>2. FsInv'
  BY InCallInv, CleanInCall DEF ShInv, FsInv
<1>3. command.stage \in {"find", "read"}
  BY <1>1 DEF ShInv, StageInv, CommandTypes
<1>4. CommandTypes' /\ StageInv'
  BY <1>1, <1>3 DEF ShInv, StageInv, CommandTypes
<1>5. LsInv'
  BY <1>1, <1>3 DEF LsInv, LsCorrect
<1>6. CatInv'
  <2> SUFFICES ASSUME ~spoiled', total_inodes' = TotalInodes, command'.stage = "read"
               PROVE  Leads(command.name, call.inode)'
    BY <1>3 DEF CatInv, CatCorrect
  <2>1. Leads(command.name, call.inode)
    BY <1>1 DEF ShInv, CatInv
  <2>2. added' = added
    BY <1>1, NamesKept
  <2> QED BY <1>1, <2>1, <2>2 DEF Leads, Reachable
<1> QED BY <1>2, <1>4, <1>5, <1>6 DEF ShInv

(* The steps of ls leave the driver's variables alone.                     *)
LEMMA ListKeeps ==
  ASSUME ShInv, pc \in {"idle", "ls_inode", "ls_loop"}, pc' \in {"idle", "ls_inode", "ls_loop"},
         UNCHANGED <<mkVars, total_inodes, call, copyVars, out_inode, result, dirty>>,
         inode' \in InodeType, i' \in 0 .. DirectBlocks, block' \in Block \cup {Garbage},
         pc' # "ls_loop" => i' = 0
  PROVE  FsInv'
<1>1. Between /\ pc # "boot"
  BY DEF Between
<1>2. DriverInv' /\ Between'
  BY <1>1, ListInv DEF ShInv, FsInv
<1> QED BY <1>1, <1>2, CleanOutside DEF ShInv, FsInv

(* ls begins.                                                              *)
LEMMA ShLsBegin == ASSUME ShInv, LsBegin PROVE ShInv'
<1>1. /\ pc = "idle" /\ pc' = "ls_inode" /\ command' = [fn |-> "ls", name |-> NoName, stage |-> "list"]
      /\ shown' = Nothing /\ spoiled' = FALSE
      /\ UNCHANGED <<mkVars, total_inodes, call, localVars, copyVars, out_inode, result, dirty>>
  BY DEF LsBegin, Begin
<1>2. call' = call /\ inode' = inode /\ i' = i /\ block' = block
  BY <1>1 DEF localVars
<1>3. FsInv'
  <2>1. inode' \in InodeType /\ i' = 0 /\ i' \in 0 .. DirectBlocks /\ block' \in Block \cup {Garbage}
    BY <1>1, <1>2 DEF ShInv, FsInv, DriverInv, DriverTypes, FsTypeOK, CallInv, InodeType
  <2> QED BY <1>1, <2>1, ListKeeps
<1>4. /\ command'.fn = "ls" /\ command'.stage = "list" /\ shown'.kind = "none" /\ shown'.body = <<>>
  BY <1>1 DEF Nothing
<1>5. CommandTypes'
  <2>1. spoiled' \in BOOLEAN
    BY <1>1, Zenon
  <2> QED BY <1>1, <1>4, <2>1 DEF CommandTypes
<1>6. StageInv'
  BY <1>1, <1>2, <1>4 DEF ShInv, StageInv
<1>7. CatInv' /\ LsInv'
  BY <1>1, <1>4 DEF CatInv, LsInv, CatCorrect, LsCorrect
<1> QED BY <1>3, <1>5, <1>6, <1>7 DEF ShInv

(* ls has the inode of the root directory, or something else is noted.     *)
LEMMA ShLsInode == ASSUME ShInv, LsInode PROVE ShInv'
<1>1. /\ pc = "ls_inode" /\ pc' = "ls_loop" /\ i' = 0 /\ block' = Garbage
      /\ UNCHANGED <<mkVars, total_inodes, call, copyVars, out_inode, result, dirty, command, shown>>
  BY DEF LsInode
<1>2. command.stage = "list" /\ command.fn = "ls" /\ command' = command /\ shown' = shown /\ call' = call
      /\ total_inodes' = total_inodes
  BY <1>1 DEF ShInv, StageInv
<1>3. MkInv /\ status = "written" /\ spoiled \in BOOLEAN
  BY <1>1 DEF ShInv, FsInv, DriverInv, CallInv, CommandTypes
<1>4. CASE RootInode < total_inodes
  <2>1. PICK r \in read_block(InodeTableBlock, Garbage) :
          inode' \in InodesIn(r.holds, InodeTableBlock, RootInode) /\ spoiled' = r.failed
    BY <1>4 DEF LsInode
  <2>2. r.failed \in BOOLEAN /\ (~r.failed => r.holds = InodeTableBlock)
    BY BlockRead
  <2>3. PICK ino \in InodesIn(r.holds, InodeTableBlock, RootInode) : ino = inode'
    BY <2>1
  <2>4. inode' \in InodeType
    BY <1>3, <2>3, InodesTyped
  <2>5. FsInv'
    BY <1>1, <2>4, Sizes, ListKeeps
  <2>6. ~spoiled' => inode' = RootEntry
    <3> SUFFICES ASSUME ~spoiled' PROVE inode' = RootEntry
      OBVIOUS
    <3>1. InodesIn(InodeTableBlock, InodeTableBlock, RootInode) = {inode_table[RootInode]}
      <4>1. 0 \in Nat /\ 0 <= EntriesPerBlock /\ 0 < InodesPerBlock
        BY Sizes
      <4>2. InodesIn(InodeTableBlock, InodeTableBlock, 0 % InodesPerBlock) = {inode_table[0]}
        BY <1>3, <4>1, FoundInode
      <4>3. 0 % InodesPerBlock = 0
        BY <4>1, FirstInodesAgree
      <4> QED BY <4>2, <4>3 DEF RootInode
    <3> QED BY <1>3, <2>1, <2>2, <3>1 DEF MkInv, RootInv
  <2>7. CommandTypes' /\ StageInv'
    BY <1>1, <1>2, <2>1, <2>2 DEF ShInv, CommandTypes, StageInv
  <2>8. CatInv'
    BY <1>2 DEF CatInv, CatCorrect
  <2>9. LsInv'
    <3>1. shown.body = <<>>
      BY <1>1 DEF ShInv, LsInv
    <3> QED BY <1>1, <1>2, <2>6, <3>1 DEF LsInv, LsCorrect
  <2> QED BY <2>5, <2>7, <2>8, <2>9 DEF ShInv
<1>5. CASE ~(RootInode < total_inodes)
  <2>1. inode' \in GarbageInode /\ spoiled' = spoiled
    BY <1>5 DEF LsInode
  <2>2. inode' \in InodeType
    BY <2>1, GarbageAssumption DEF InodeType
  <2>3. FsInv'
    BY <1>1, <2>2, Sizes, ListKeeps
  <2>4. total_inodes # TotalInodes
    BY <1>5, Sizes DEF RootInode
  <2>5. CommandTypes' /\ StageInv'
    BY <1>1, <1>2, <2>1 DEF ShInv, CommandTypes, StageInv
  <2> QED BY <1>1, <1>2, <2>3, <2>4, <2>5 DEF ShInv, CatInv, LsInv
<1> QED BY <1>4, <1>5

(* ls prints the entries of one block.                                     *)
LEMMA ShLsBlock == ASSUME ShInv, LsBlock PROVE ShInv'
<1>1. PICK b : b = inode.direct[i]
  OBVIOUS
<1>2. PICK old \in Block \cup {Garbage} : old = block
  BY DEF ShInv, FsInv, DriverInv, DriverTypes, FsTypeOK
<1>3. PICK r \in read_block(b, old) :
        \E names \in NamesIn(r.holds) :
          /\ block' = r.holds /\ spoiled' = (spoiled \/ r.failed)
          /\ shown' = [kind |-> "names", body |-> shown.body \o names]
  BY <1>1, <1>2 DEF LsBlock
<1>4. PICK names \in NamesIn(r.holds) :
          /\ block' = r.holds /\ spoiled' = (spoiled \/ r.failed)
          /\ shown' = [kind |-> "names", body |-> shown.body \o names]
  BY <1>3
<1>5. /\ pc = "ls_loop" /\ pc' = "ls_loop" /\ i < DirectBlocks /\ inode.direct[i] # 0
      /\ i' = i + 1 /\ inode' = inode
      /\ UNCHANGED <<mkVars, total_inodes, call, copyVars, out_inode, result, dirty, command>>
  BY DEF LsBlock, MoreBlocks
<1>6. command.stage = "list" /\ command.fn = "ls" /\ command' = command /\ call' = call
      /\ total_inodes' = total_inodes
  BY <1>5 DEF ShInv, StageInv
<1>7. /\ r.holds \in Block \cup {Garbage} /\ r.failed \in BOOLEAN /\ (~r.failed => r.holds = b)
      /\ spoiled \in BOOLEAN
  BY BlockRead DEF ShInv, CommandTypes
<1>8. FsInv'
  <2>1. inode' \in InodeType /\ i' \in 0 .. DirectBlocks
    BY <1>5, Sizes DEF ShInv, FsInv, DriverInv, DriverTypes, FsTypeOK, InodeType
  <2> QED BY <1>4, <1>5, <1>7, <2>1, ListKeeps
<1>9. shown'.kind = "names" /\ shown'.body = shown.body \o names
  BY <1>4
<1>10. CommandTypes'
  <2>1. spoiled' \in BOOLEAN
    BY <1>4, <1>7, Zenon
  <2> QED BY <1>6, <1>9, <2>1 DEF ShInv, CommandTypes
<1>11. StageInv'
  BY <1>5, <1>6 DEF ShInv, StageInv
<1>12. CatInv'
  BY <1>6 DEF CatInv, CatCorrect
<1>13. LsInv'
  <2> SUFFICES ASSUME ~spoiled', total_inodes' = TotalInodes
               PROVE  inode' = RootEntry /\ i' = 1 /\ shown'.body = FileNames'
    BY <1>5, <1>6 DEF LsInv, LsCorrect
  <2>1. ~spoiled /\ r.holds = b
    BY <1>4, <1>7
  <2>2. inode = RootEntry /\ ((i = 0 /\ shown.body = <<>>) \/ i = 1)
    BY <1>5, <1>6, <2>1 DEF ShInv, LsInv
  <2>3. i = 0 /\ b = FirstDataBlock /\ shown.body = <<>>
    BY <1>1, <1>5, <2>2, RootBlocks
  <2>4. MkInv /\ status # "failed"
    BY <1>5 DEF ShInv, FsInv, DriverInv, CallInv
  <2>5. names = FileNames /\ names \in Seq(Name \cup {NoName})
    BY <2>1, <2>3, <2>4, NamesListed DEF NamesIn
  <2>6. <<>> \o names = names
    BY <2>5, ConcatEmptySeq
  <2>7. FileNames' = FileNames
    BY <1>5, NamesKept DEF FileNames
  <2> QED BY <1>5, <1>9, <2>2, <2>3, <2>5, <2>6, <2>7
<1> QED BY <1>8, <1>10, <1>11, <1>12, <1>13 DEF ShInv

(* ls ends.                                                                *)
LEMMA ShLsDone == ASSUME ShInv, LsDone PROVE ShInv'
<1>1. /\ pc = "ls_loop" /\ ~MoreBlocks /\ pc' = "idle"
      /\ command' = [command EXCEPT !.stage = "done"] /\ shown' = [kind |-> "names", body |-> shown.body]
      /\ inode' = ZeroInode /\ i' = 0 /\ block' = Garbage /\ spoiled' = spoiled
      /\ UNCHANGED <<mkVars, total_inodes, call, copyVars, out_inode, result, dirty>>
  BY DEF LsDone, Finish, LocalsDie
<1>2. /\ command.fn = "ls" /\ command'.fn = "ls" /\ command'.stage = "done" /\ command'.name = command.name
      /\ call' = call /\ total_inodes' = total_inodes
  BY <1>1 DEF ShInv, StageInv, CommandTypes
<1>3. shown'.kind = "names" /\ shown'.body = shown.body
  BY <1>1
<1>4. FsInv'
  <2>1. ZeroInode \in InodeType
    BY DEF ZeroInode, InodeType, NoBlock
  <2> QED BY <1>1, <2>1, Sizes, ListKeeps
<1>5. CommandTypes'
  <2>1. command' = [fn |-> "ls", name |-> command.name, stage |-> "done"] /\ command.name \in Name \cup {NoName}
    BY <1>1, <1>2 DEF ShInv, CommandTypes
  <2> QED BY <1>1, <1>3, <2>1 DEF ShInv, CommandTypes
<1>6. StageInv'
  BY <1>1, <1>2 DEF ShInv, StageInv
<1>7. CatInv'
  BY <1>2 DEF CatInv, CatCorrect
<1>8. LsInv'
  <2> SUFFICES ASSUME ~spoiled, total_inodes = TotalInodes
               PROVE  shown.body = FileNames
    <3>1. FileNames' = FileNames /\ added' = added
      BY <1>1, NamesKept DEF FileNames
    <3> QED BY <1>1, <1>2, <1>3, <3>1 DEF LsInv, LsCorrect, FileNames
  <2>1. inode = RootEntry /\ ((i = 0 /\ shown.body = <<>>) \/ (i = 1 /\ shown.body = FileNames))
    BY <1>1 DEF ShInv, LsInv
  <2>2. i # 0
    BY <1>1, <2>1, RootBlocks, Sizes DEF MoreBlocks
  <2> QED BY <2>1, <2>2
<1> QED BY <1>4, <1>5, <1>6, <1>7, <1>8 DEF ShInv

(* Stuttering.                                                             *)
LEMMA ShStutter == ASSUME ShInv, UNCHANGED shellVars PROVE ShInv'
<1>1. command' = command /\ shown' = shown /\ spoiled' = spoiled /\ UNCHANGED <<mkVars, fsVars>>
  BY DEF shellVars
<1>2. FsInv'
  BY <1>1, StutterInv, CleanStutter DEF ShInv, FsInv
<1>3. /\ pc' = pc /\ call' = call /\ total_inodes' = total_inodes /\ inode' = inode /\ i' = i
      /\ bytes_read' = bytes_read
  BY <1>1 DEF fsVars, localVars, copyVars
<1>4. added' = added /\ data' = data
  BY <1>1, NamesKept
<1>5. CommandTypes' /\ StageInv'
  BY <1>1, <1>3 DEF ShInv, CommandTypes, StageInv
<1>6. CatInv'
  <2>1. Leads(command.name, call.inode)' <=> Leads(command.name, call.inode)
    BY <1>1, <1>3, <1>4 DEF Leads, Reachable
  <2>2. CatCorrect' <=> CatCorrect
    BY <1>1, <1>3, <1>4 DEF CatCorrect, Reachable
  <2> QED BY <1>1, <1>3, <2>1, <2>2 DEF ShInv, CatInv
<1>7. LsInv'
  <2>1. FileNames' = FileNames
    BY <1>4 DEF FileNames
  <2> QED BY <1>1, <1>3, <1>4, <2>1 DEF ShInv, LsInv, LsCorrect
<1> QED BY <1>2, <1>5, <1>6, <1>7 DEF ShInv

(* The shell's invariant holds at first and is preserved.                  *)
LEMMA ShInvInductive == (ShInit => ShInv) /\ (ShInv /\ [ShNext]_shellVars => ShInv')
<1>1. ASSUME ShInit PROVE ShInv
  <2>1. FsInv
    BY <1>1, FsInvInductive DEF ShInit
  <2>2. /\ command = [fn |-> "none", name |-> NoName, stage |-> "done"] /\ pc = "boot" /\ call = NoCall
        /\ shown = Nothing /\ spoiled = FALSE
    BY <1>1 DEF ShInit, FsInit
  <2>3. command.fn = "none" /\ command.stage = "done" /\ call.fn = "none" /\ shown.kind = "none"
    BY <2>2 DEF NoCall, Nothing
  <2>4. CommandTypes
    <3>1. spoiled \in BOOLEAN
      BY <2>2, Zenon
    <3> QED BY <2>2, <2>3, <3>1 DEF CommandTypes
  <2>5. StageInv /\ CatInv /\ LsInv
    BY <2>2, <2>3 DEF StageInv, CatInv, LsInv, CatCorrect, LsCorrect
  <2> QED BY <2>1, <2>4, <2>5 DEF ShInv
<1>2. ASSUME ShInv, [ShNext]_shellVars PROVE ShInv'
  <2>1. CASE MkNext /\ UNCHANGED <<fsVars, command, shown, spoiled>>
    BY <1>2, <2>1, ShBooting
  <2>2. CASE fsso_mount /\ UNCHANGED <<command, shown, spoiled>>
    BY <1>2, <2>2, ShBooting
  <2>3. CASE Starting
    BY <1>2, <2>3, ShUsage, ShCatFind, ShLsBegin DEF Starting
  <2>4. CASE Executing
    BY <1>2, <2>4, ShCatNotFound, ShCatRead, ShCatShow, ShLsInode, ShLsBlock, ShLsDone, ShInCall DEF Executing
  <2>5. CASE UNCHANGED shellVars
    BY <1>2, <2>5, ShStutter
  <2> QED BY <1>2, <2>1, <2>2, <2>3, <2>4, <2>5 DEF ShNext
<1> QED BY <1>1, <1>2

---------------------------------------------------------------------------
(* The theorems about builder, driver and shell together.                  *)

(* Builder, driver and shell stay within their types.                      *)
THEOREM StorageTypes == ShSpec => []StorageTypeOK
<1>1. (ShInit => ShInv) /\ (ShInv /\ [ShNext]_shellVars => ShInv')
  BY ShInvInductive
<1>2. ShInv => StorageTypeOK
  <2> SUFFICES ASSUME ShInv PROVE StorageTypeOK
    OBVIOUS
  <2>1. MkTypeOK /\ FsTypeOK
    BY DEF ShInv, FsInv, DriverInv, DriverTypes, MkInv
  <2>2. pc # "component"
    BY DEF ShInv, FsInv, DriverInv, CallInv, StageInv
  <2>3. pc \in {"boot", "halted", "idle", "inode", "loop", "ls_inode", "ls_loop"}
    BY <2>2 DEF ShInv, FsInv, DriverInv, DriverTypes
  <2>4. /\ command.stage \in {"done", "find", "read", "list"}
        /\ shown.kind \in {"none", "usage", "not found", "error", "text", "names"}
    BY DEF ShInv, CommandTypes, StageInv
  <2> QED BY <2>1, <2>3, <2>4, Zenon DEF StorageTypeOK
<1> QED BY <1>1, <1>2, PTL DEF ShSpec

(* The kernel leaves the image as mkfsso wrote it.                         *)
THEOREM ImageUntouched == ShSpec => [](AllocationExact /\ ImageReadsBack /\ InodesLocatable)
<1>1. (ShInit => ShInv) /\ (ShInv /\ [ShNext]_shellVars => ShInv')
  BY ShInvInductive
<1>2. ShInv => AllocationExact /\ ImageReadsBack /\ InodesLocatable
  BY MkInvImplies DEF ShInv, FsInv, DriverInv
<1> QED BY <1>1, <1>2, PTL DEF ShSpec

(* With reads that deliver, cat prints the first file of its name, as far  *)
(* as its buffer reaches, or says that there is none.                      *)
THEOREM CatIsCorrect == ShSpec => []CatCorrect
<1>1. (ShInit => ShInv) /\ (ShInv /\ [ShNext]_shellVars => ShInv')
  BY ShInvInductive
<1>2. ShInv => CatCorrect
  BY Zenon DEF ShInv, CatInv, CatCorrect
<1> QED BY <1>1, <1>2, PTL DEF ShSpec

(* With reads that deliver, ls prints the name of every file once, in the  *)
(* order in which they were added.                                         *)
THEOREM LsIsCorrect == ShSpec => []LsCorrect
<1>1. (ShInit => ShInv) /\ (ShInv /\ [ShNext]_shellVars => ShInv')
  BY ShInvInductive
<1>2. ShInv => LsCorrect
  BY Zenon DEF ShInv, LsInv, LsCorrect
<1> QED BY <1>1, <1>2, PTL DEF ShSpec

=============================================================================
