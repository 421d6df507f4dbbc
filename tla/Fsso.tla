------------------------------- MODULE Fsso -------------------------------
(***************************************************************************)
(* The kernel's FSSO driver (kernel/fsso.c) reading an image that mkfsso   *)
(* wrote: fsso_mount at boot, then calls of fsso_find_in_dir,              *)
(* fsso_resolve_path (a search per component of the path) and              *)
(* fsso_read_file.  Searches and reads begin with an fsso_read_inode.      *)
(*                                                                         *)
(* read_block drops the result of ahci_read, so every read either fills    *)
(* the buffer with the block or leaves in it what was there, in whole or   *)
(* in part, and the caller cannot tell.  A buffer is represented by the    *)
(* number of the block whose content it holds; Garbage is any other        *)
(* content, an uninitialised stack buffer included, and whatever the code  *)
(* takes from it is an arbitrary choice.                                   *)
(***************************************************************************)
EXTENDS Mkfsso

CONSTANTS
  Garbage,       (* bytes of no particular block                           *)
  GarbageInode,  (* inodes that such bytes may spell                       *)
  GarbageWord,   (* 32-bit words that such bytes may spell                 *)
  MaxSize,       (* sizes of the buffers passed to fsso_read_file          *)
  Dot,           (* the separator of path components                       *)
  Path           (* paths to resolve: names without a dot, and Dots        *)

ASSUME GarbageAssumption ==
  /\ Garbage \notin Block
  /\ GarbageInode \subseteq [size : Nat, type : 0 .. 255, direct : [Index -> Nat]]
  /\ GarbageWord \subseteq Nat /\ MaxSize \subseteq Nat
  /\ Dot \notin Name /\ Path \subseteq Seq(Name \cup {Dot})

VARIABLES
  pc,            (* "boot", "halted", "idle" or a place inside a call      *)
  total_inodes,  (* fs.superblock.total_inodes                             *)
  call,          (* function and arguments of the current or last call     *)
  inode,         (* the local copy of the inode                            *)
  i,             (* loop index                                             *)
  block,         (* what the function's block buffer holds                 *)
  bytes_read,
  out,           (* out_buffer: the pieces copied, with their lengths      *)
  out_inode,
  result,        (* return value of the last call                          *)
  dirty          (* history: a block read of this call did not deliver     *)

localVars == <<inode, i, block>>
copyVars  == <<bytes_read, out>>
fsVars == <<pc, total_inodes, call, localVars, copyVars, out_inode, result, dirty>>

NotFound == -3
BadType  == -2
BadInode == -1

NoPath == -1

NoCall == [fn |-> "none", inode |-> 0, name |-> NoName, max |-> 0, path |-> <<>>, rest |-> <<>>]

---------------------------------------------------------------------------
(* read_block(b, buffer) into a buffer that holds old.                     *)
read_block(b, old) ==
  {[holds |-> h, failed |-> TRUE] : h \in {old, Garbage}}
    \cup (IF b \in Block THEN {[holds |-> b, failed |-> FALSE]} ELSE {})

(* The inode at a byte address of the disk: one that mkfsso put there, or  *)
(* parts of two.                                                           *)
InodeAt(address) ==
  IF \E n \in Inode : WriterOffset(n) = address
    THEN {inode_table[CHOOSE n \in Inode : WriterOffset(n) = address]}
    ELSE GarbageInode

(* table[offset] of a buffer filled from block b.                          *)
InodesIn(holds, b, offset) ==
  IF holds = b THEN InodeAt(b * BlockSize + offset * InodeSize) ELSE GarbageInode

(* Mutant: the last entry with the name wins.                              *)
SearchBlockLast(holds, name) ==
  IF holds # FirstDataBlock THEN GarbageWord \cup {0}
  ELSE IF \E s \in Slot : entries[s].inode # 0 /\ entries[s].name = name
    THEN {entries[CHOOSE s \in Slot :
            /\ entries[s].inode # 0 /\ entries[s].name = name
            /\ \A t \in Slot : t > s => entries[t].inode = 0 \/ entries[t].name # name].inode}
    ELSE {0}

(* The result of searching one block for a name: an inode, or 0.  In the   *)
(* root directory the first entry in use with that name wins.              *)
SearchBlock(holds, name) ==
  IF holds # FirstDataBlock THEN GarbageWord \cup {0}
  ELSE IF \E s \in Slot : entries[s].inode # 0 /\ entries[s].name = name
    THEN {entries[CHOOSE s \in Slot :
            /\ entries[s].inode # 0 /\ entries[s].name = name
            /\ \A t \in Slot : t < s => entries[t].inode = 0 \/ entries[t].name # name].inode}
    ELSE {0}

---------------------------------------------------------------------------
FsInit ==
  /\ Format
  /\ pc = "boot" /\ total_inodes = 0
  /\ call = NoCall /\ inode = ZeroInode /\ i = 0 /\ block = Garbage
  /\ bytes_read = 0 /\ out = <<>> /\ out_inode = 0 /\ result = 0 /\ dirty = FALSE

(* fsso_mount, as kernel_main calls it: the kernel stops if it fails.      *)
fsso_mount ==
  /\ pc = "boot" /\ status = "written"
  /\ \E r \in read_block(0, Garbage) :
       /\ \/ ~r.failed /\ pc' = "idle" /\ total_inodes' = TotalInodes
          \/ r.failed /\ pc' = "idle" /\ total_inodes' \in GarbageWord
          \/ r.failed /\ pc' = "halted" /\ UNCHANGED total_inodes
       /\ dirty' = r.failed
  /\ UNCHANGED <<mkVars, call, localVars, copyVars, out_inode, result>>

Enter(c) ==
  /\ pc = "idle"
  /\ pc' = (IF c.fn = "resolve" THEN "component" ELSE "inode") /\ call' = c
  /\ bytes_read' = 0 /\ out' = <<>> /\ dirty' = FALSE
  /\ UNCHANGED <<mkVars, total_inodes, localVars, out_inode, result>>

CallFind(n, name) == Enter([fn |-> "find", inode |-> n, name |-> name, max |-> 0, path |-> <<>>, rest |-> <<>>])
CallRead(n, max)  == Enter([fn |-> "read", inode |-> n, name |-> NoName, max |-> max, path |-> <<>>, rest |-> <<>>])

(* fsso_resolve_path starts at the root.                                   *)
CallResolve(path) ==
  Enter([fn |-> "resolve", inode |-> RootInode, name |-> NoName, max |-> 0,
         path |-> path, rest |-> path])

(* The locals of a function die when it returns.                           *)
LocalsDie == inode' = ZeroInode /\ i' = 0 /\ block' = Garbage

Return(value) == pc' = "idle" /\ result' = value /\ LocalsDie

(* A search or read that fails; fsso_resolve_path has one code for all.    *)
Fail(value) == Return(IF call.fn = "resolve" THEN NoPath ELSE value)

(* A search that succeeds hands its result to the caller, or the next      *)
(* component of the path is looked up there.                               *)
Found(n) ==
  IF call.fn = "resolve"
    THEN /\ pc' = "component" /\ call' = [call EXCEPT !.inode = n]
         /\ LocalsDie /\ UNCHANGED <<out_inode, result>>
    ELSE Return(0) /\ out_inode' = n /\ UNCHANGED call

---------------------------------------------------------------------------
(* One round of the loop of fsso_resolve_path: separators are skipped.     *)
SkipDot ==
  /\ pc = "component" /\ call.rest # <<>> /\ Head(call.rest) = Dot
  /\ call' = [call EXCEPT !.rest = Tail(call.rest)]
  /\ UNCHANGED <<mkVars, pc, total_inodes, localVars, copyVars, out_inode, result, dirty>>

LookUpComponent ==
  /\ pc = "component" /\ call.rest # <<>> /\ Head(call.rest) # Dot
  /\ pc' = "inode"
  /\ call' = [call EXCEPT !.name = Head(call.rest), !.rest = Tail(call.rest)]
  /\ UNCHANGED <<mkVars, total_inodes, localVars, copyVars, out_inode, result, dirty>>

Resolved ==
  /\ pc = "component" /\ call.rest = <<>>
  /\ Return(0) /\ out_inode' = call.inode
  /\ UNCHANGED <<mkVars, total_inodes, call, copyVars, dirty>>

---------------------------------------------------------------------------
(* fsso_read_inode fails its bound check and the caller passes that on.    *)
InodeOutOfRange ==
  /\ pc = "inode" /\ call.inode >= total_inodes
  /\ Fail(BadInode)
  /\ UNCHANGED <<mkVars, total_inodes, call, copyVars, out_inode, dirty>>

Searching == call.fn \in {"find", "resolve"}

WantedType == IF Searching THEN FSSO_TYPE_DIR ELSE FSSO_TYPE_FILE

(* Mutant: the type is not checked.                                        *)
AfterInodeUnchecked(ino) == pc' = "loop" /\ inode' = ino /\ UNCHANGED <<i, block, result>>

(* What the caller does with the inode: its type must be the wanted one.   *)
AfterInode(ino) ==
  IF ino.type # WantedType
    THEN Fail(BadType)
    ELSE pc' = "loop" /\ inode' = ino /\ UNCHANGED <<i, block, result>>

fsso_read_inode ==
  /\ pc = "inode" /\ call.inode < total_inodes
  /\ LET b == InodeTableBlock + (call.inode \div InodesPerBlock) IN
     \E r \in read_block(b, Garbage) :
       /\ \E ino \in InodesIn(r.holds, b, call.inode % InodesPerBlock) : AfterInode(ino)
       /\ dirty' = (dirty \/ r.failed)
  /\ UNCHANGED <<mkVars, total_inodes, call, copyVars, out_inode>>

(* Mutant: the last direct block is never used.                            *)
MoreBlocksShort == i < DirectBlocks - 1 /\ inode.direct[i] # 0

(* The loops stop at the end of the array of direct blocks or at a 0.      *)
MoreBlocks == i < DirectBlocks /\ inode.direct[i] # 0

(* Mutant: the loop does not advance.                                      *)
FindStepStuck ==
  /\ pc = "loop" /\ Searching /\ MoreBlocks
  /\ \E r \in read_block(inode.direct[i], block), n \in GarbageWord \cup Inode :
       /\ n \in SearchBlock(r.holds, call.name)
       /\ dirty' = (dirty \/ r.failed)
       /\ IF n # 0
            THEN Found(n)
            ELSE block' = r.holds /\ UNCHANGED <<i, pc, call, result, inode, out_inode>>
  /\ UNCHANGED <<mkVars, total_inodes, copyVars>>

(* One iteration of the loop of fsso_find_in_dir.                          *)
FindStep ==
  /\ pc = "loop" /\ Searching /\ MoreBlocks
  /\ \E r \in read_block(inode.direct[i], block), n \in GarbageWord \cup Inode :
       /\ n \in SearchBlock(r.holds, call.name)
       /\ dirty' = (dirty \/ r.failed)
       /\ IF n # 0
            THEN Found(n)
            ELSE /\ block' = r.holds /\ i' = i + 1
                 /\ UNCHANGED <<pc, call, result, inode, out_inode>>
  /\ UNCHANGED <<mkVars, total_inodes, copyVars>>

FindFails ==
  /\ pc = "loop" /\ Searching /\ ~MoreBlocks
  /\ Fail(NotFound)
  /\ UNCHANGED <<mkVars, total_inodes, call, copyVars, out_inode, dirty>>

(* Mutant: whole blocks are copied.                                        *)
ToCopyUnbounded == BlockSize

ToCopy == IF bytes_read + BlockSize > call.max THEN call.max - bytes_read ELSE BlockSize

(* One iteration of the loop of fsso_read_file.                            *)
ReadStep ==
  /\ pc = "loop" /\ call.fn = "read" /\ MoreBlocks /\ bytes_read < call.max
  /\ \E r \in read_block(inode.direct[i], block) :
       /\ block' = r.holds /\ dirty' = (dirty \/ r.failed)
       /\ out' = Append(out, [holds |-> r.holds, length |-> ToCopy])
  /\ bytes_read' = bytes_read + ToCopy
  /\ i' = i + 1
  /\ UNCHANGED <<mkVars, pc, total_inodes, call, inode, out_inode, result>>

(* inode.size plays no part in the result.                                 *)
ReadDone ==
  /\ pc = "loop" /\ call.fn = "read"
  /\ ~MoreBlocks \/ bytes_read >= call.max
  /\ Return(bytes_read)
  /\ UNCHANGED <<mkVars, total_inodes, call, copyVars, out_inode, dirty>>

---------------------------------------------------------------------------
(* The inodes callers pass: the root, what a search returned (cmd_cat,     *)
(* fsso_resolve_path), and, for the bound check, the first invalid one.    *)
Callable == {RootInode, out_inode, TotalInodes}

Caller ==
  \/ \E n \in Callable, name \in Name : CallFind(n, name)
  \/ \E n \in Callable, max \in MaxSize : CallRead(n, max)
  \/ \E path \in Path : CallResolve(path)

InCall ==
  \/ SkipDot \/ LookUpComponent \/ Resolved
  \/ InodeOutOfRange \/ fsso_read_inode
  \/ FindStep \/ FindFails
  \/ ReadStep \/ ReadDone

FsNext == (MkNext /\ UNCHANGED fsVars) \/ fsso_mount \/ Caller \/ InCall

FsSpec == FsInit /\ [][FsNext]_<<mkVars, fsVars>>

(* The kernel never stops in the middle of a call.                         *)
FsFairSpec == FsSpec /\ WF_<<mkVars, fsVars>>(InCall)

---------------------------------------------------------------------------
(* Type invariant. *)
FsTypeOK ==
  /\ total_inodes \in GarbageWord \cup {0, TotalInodes}
  /\ inode \in [size : Nat, type : 0 .. 255, direct : [Index -> Nat]]
  /\ i \in 0 .. DirectBlocks
  /\ block \in Block \cup {Garbage}
  /\ bytes_read \in 0 .. DirectBlocks * BlockSize
  /\ out_inode \in Inode \cup GarbageWord
  /\ result \in {NotFound, BadType, BadInode} \cup Nat
  /\ dirty \in BOOLEAN

(* File k of the image is the one its name leads to.                       *)
Reachable(k) == \A m \in 1 .. k - 1 : added[m].name # added[k].name

(* fsso_read_file never writes past the end of the caller's buffer, even   *)
(* when failed reads make it work on stale blocks and garbage inodes, and  *)
(* it returns exactly the number of bytes it wrote.                        *)
CopyBounded ==
  /\ call.fn = "read" /\ pc \in {"loop", "idle"} => bytes_read <= call.max
  /\ call.fn = "read" /\ pc = "idle" /\ result >= 0 => result = bytes_read
  /\ \A k \in DOMAIN out : out[k].length > 0

(* When no block read failed, searching the root directory for a name      *)
(* finds the first file added under that name, and nothing else.           *)
FindCorrect ==
  pc = "idle" /\ call.fn = "find" /\ call.inode = RootInode /\ ~dirty /\ total_inodes = TotalInodes =>
    IF result = 0
      THEN \E k \in DOMAIN added :
             /\ added[k].name = call.name /\ Reachable(k)
             /\ HoldsFile(out_inode, added[k])
      ELSE \A k \in DOMAIN added : added[k].name # call.name

(* The places in a path where a component is.                              *)
Components(path) == {p \in DOMAIN path : path[p] # Dot}

(* When no block read failed, fsso_resolve_path takes a path without       *)
(* components to the root, one with a single component to the first file   *)
(* of that name, and refuses all others: a file is never searched as if it *)
(* were a directory.                                                       *)
ResolveCorrect ==
  pc = "idle" /\ call.fn = "resolve" /\ ~dirty /\ total_inodes = TotalInodes =>
    LET cs == Components(call.path) IN
    IF result = 0
      THEN \/ cs = {} /\ out_inode = RootInode
           \/ \E p \in cs, k \in DOMAIN added :
                /\ cs = {p}
                /\ added[k].name = call.path[p] /\ Reachable(k) /\ HoldsFile(out_inode, added[k])
      ELSE /\ cs # {}
           /\ \A p \in cs, k \in DOMAIN added : cs = {p} => added[k].name # call.path[p]

SmallerOf(a, b) == IF a < b THEN a ELSE b

(* When no block read failed, reading the inode of a file copies the       *)
(* file's chunks in order, and returns the size of its blocks or of the    *)
(* buffer, whichever is less.                                              *)
ReadCorrect ==
  pc = "idle" /\ call.fn = "read" /\ ~dirty /\ total_inodes = TotalInodes =>
    \A k \in DOMAIN added, s \in Slot :
      FindsFirst(s, added[k].name) /\ Reachable(k) /\ call.inode = entries[s].inode =>
        /\ result = SmallerOf(call.max, BlockSize * BlocksNeeded(added[k].size))
        /\ \A j \in DOMAIN out : data[out[j].holds] = <<added[k].data, j - 1>>

(* Every call returns, whatever the blocks it read contain.                *)
CallReturns == pc \in {"component", "inode", "loop"} ~> pc = "idle"

(* cmd_cat prints "Error reading file" when fsso_read_file returns a       *)
(* negative value, as if a failed block read were reported that way.       *)
ReadErrorsReported == pc = "idle" /\ call.fn = "read" /\ dirty => result < 0

(* tools/test_fsso.c stores a terminator at file_buffer[bytes] after       *)
(* reading a file smaller than its one-block buffer.                       *)
TestTerminatorFits ==
  pc = "idle" /\ call.fn = "read" /\ ~dirty /\ result >= 0 /\ call.max = BlockSize =>
    (inode_table[call.inode].size < call.max => result < call.max)

===========================================================================
