--------------------------- MODULE ShellCommands ---------------------------
(***************************************************************************)
(* cmd_ls and cmd_cat (kernel/shell.c) on top of the FSSO driver.  cat is  *)
(* a search of the root directory followed by a read into a buffer of      *)
(* fixed size.  ls walks the blocks of the root directory itself: it       *)
(* ignores the result of fsso_read_inode and the type of the inode, and    *)
(* like the driver it cannot tell a failed block read.                     *)
(***************************************************************************)
EXTENDS Fsso

CONSTANT CatBuffer   (* sizeof(file_buf) [4096] *)

ASSUME CatAssumption == CatBuffer \in Nat

VARIABLES
  command,   (* the command being executed or executed last, and its stage *)
  shown,     (* what it printed                                            *)
  spoiled    (* history: a block read of this command did not deliver      *)

shellVars == <<mkVars, fsVars, command, shown, spoiled>>

Nothing == [kind |-> "none", body |-> <<>>]

ShInit ==
  /\ FsInit
  /\ command = [fn |-> "none", name |-> NoName, stage |-> "done"]
  /\ shown = Nothing /\ spoiled = FALSE

Begin(fn, name, stage) ==
  /\ command.stage = "done"
  /\ command' = [fn |-> fn, name |-> name, stage |-> stage]
  /\ shown' = Nothing /\ spoiled' = FALSE

Finish(kind, body) ==
  /\ command' = [command EXCEPT !.stage = "done"]
  /\ shown' = [kind |-> kind, body |-> body]

---------------------------------------------------------------------------
(* cmd_cat *)

CatUsage ==
  /\ pc = "idle" /\ command.stage = "done"
  /\ command' = [fn |-> "cat", name |-> NoName, stage |-> "done"]
  /\ shown' = [kind |-> "usage", body |-> <<>>] /\ spoiled' = FALSE
  /\ UNCHANGED <<mkVars, fsVars>>

CatFind(name) == Begin("cat", name, "find") /\ CallFind(RootInode, name)

CatNotFound ==
  /\ pc = "idle" /\ command.stage = "find" /\ result # 0
  /\ Finish("not found", <<>>) /\ spoiled' = (spoiled \/ dirty)
  /\ UNCHANGED <<mkVars, fsVars>>

(* Mutant: the slot of an earlier search is used when nothing was found.   *)
CatReadAnyway ==
  /\ pc = "idle" /\ command.stage = "find"
  /\ command' = [command EXCEPT !.stage = "read"] /\ spoiled' = (spoiled \/ dirty)
  /\ CallRead(out_inode, CatBuffer)
  /\ UNCHANGED shown

CatRead ==
  /\ pc = "idle" /\ command.stage = "find" /\ result = 0
  /\ command' = [command EXCEPT !.stage = "read"] /\ spoiled' = (spoiled \/ dirty)
  /\ CallRead(out_inode, CatBuffer)
  /\ UNCHANGED shown

CatShow ==
  /\ pc = "idle" /\ command.stage = "read"
  /\ IF result < 0 THEN Finish("error", <<>>) ELSE Finish("text", out)
  /\ spoiled' = (spoiled \/ dirty)
  /\ UNCHANGED <<mkVars, fsVars>>

---------------------------------------------------------------------------
(* cmd_ls *)

LsBegin ==
  /\ pc = "idle" /\ pc' = "ls_inode" /\ Begin("ls", NoName, "list")
  /\ UNCHANGED <<mkVars, total_inodes, call, localVars, copyVars, out_inode, result, dirty>>

(* Out of range, root stays uninitialised.                                 *)
LsInode ==
  /\ pc = "ls_inode" /\ pc' = "ls_loop"
  /\ IF RootInode < total_inodes
       THEN \E r \in read_block(InodeTableBlock, Garbage) :
              inode' \in InodesIn(r.holds, InodeTableBlock, RootInode) /\ spoiled' = r.failed
       ELSE inode' \in GarbageInode /\ UNCHANGED spoiled
  /\ i' = 0 /\ block' = Garbage
  /\ UNCHANGED <<mkVars, total_inodes, call, copyVars, out_inode, result, dirty, command, shown>>

(* Mutant: the last slot of a block is not looked at.                      *)
InUseButLast == {s \in Slot : s < EntriesPerBlock - 1 /\ entries[s].inode # 0}

(* The slots of the root directory that are listed.                        *)
InUse == {s \in Slot : entries[s].inode # 0}

NamesOfRoot == [k \in 1 .. Cardinality(InUse) |->
  entries[CHOOSE s \in InUse : Cardinality({t \in InUse : t <= s}) = k].name]

(* What one block adds to the list.  Other bytes than the root directory's *)
(* print nothing or something else, however long, which no property tells  *)
(* apart.                                                                  *)
NamesIn(holds) == IF holds = FirstDataBlock THEN {NamesOfRoot} ELSE {<<>>, <<NoName>>}

(* Mutant: the loop does not advance.                                      *)
LsBlockStuck ==
  /\ pc = "ls_loop" /\ MoreBlocks
  /\ \E r \in read_block(inode.direct[i], block) :
       \E names \in NamesIn(r.holds) :
         /\ block' = r.holds /\ spoiled' = (spoiled \/ r.failed)
         /\ shown' = [kind |-> "names", body |-> names]
  /\ UNCHANGED <<mkVars, pc, total_inodes, call, inode, i, copyVars, out_inode, result, dirty, command>>

LsBlock ==
  /\ pc = "ls_loop" /\ MoreBlocks
  /\ \E r \in read_block(inode.direct[i], block) :
       \E names \in NamesIn(r.holds) :
         /\ block' = r.holds /\ spoiled' = (spoiled \/ r.failed)
         /\ shown' = [kind |-> "names", body |-> shown.body \o names]
  /\ i' = i + 1
  /\ UNCHANGED <<mkVars, pc, total_inodes, call, inode, copyVars, out_inode, result, dirty, command>>

LsDone ==
  /\ pc = "ls_loop" /\ ~MoreBlocks /\ pc' = "idle"
  /\ Finish("names", shown.body) /\ LocalsDie
  /\ UNCHANGED <<mkVars, total_inodes, call, copyVars, out_inode, result, dirty, spoiled>>

---------------------------------------------------------------------------
Starting == CatUsage \/ (\E name \in Name : CatFind(name)) \/ LsBegin

Executing ==
  \/ CatNotFound \/ CatRead \/ CatShow
  \/ LsInode \/ LsBlock \/ LsDone
  \/ InCall /\ UNCHANGED <<command, shown, spoiled>>

ShNext ==
  \/ MkNext /\ UNCHANGED <<fsVars, command, shown, spoiled>>
  \/ fsso_mount /\ UNCHANGED <<command, shown, spoiled>>
  \/ Starting \/ Executing

ShSpec == ShInit /\ [][ShNext]_shellVars

(* The kernel never stops in the middle of a command.                      *)
ShFairSpec == ShSpec /\ WF_shellVars(Executing)

---------------------------------------------------------------------------
(* Type invariant of builder, driver and shell: in particular every block  *)
(* and inode number in the image is one of the disk's.                     *)
StorageTypeOK ==
  /\ MkTypeOK /\ FsTypeOK
  /\ pc \in {"boot", "halted", "idle", "inode", "loop", "ls_inode", "ls_loop"}
  /\ command.stage \in {"done", "find", "read", "list"}
  /\ shown.kind \in {"none", "usage", "not found", "error", "text", "names"}

(* When no block read failed, cat prints the chunks of the first file      *)
(* added under the name, as far as its buffer reaches, and "File not       *)
(* found" exactly for the names of no file; it never prints an error.      *)
CatCorrect ==
  command.fn = "cat" /\ command.stage = "done" /\ command.name # NoName
    /\ ~spoiled /\ total_inodes = TotalInodes =>
    \/ /\ shown.kind = "not found"
       /\ \A k \in DOMAIN added : added[k].name # command.name
    \/ /\ shown.kind = "text"
       /\ \E k \in DOMAIN added :
            /\ added[k].name = command.name /\ Reachable(k)
            /\ bytes_read = SmallerOf(CatBuffer, BlockSize * BlocksNeeded(added[k].size))
            /\ \A j \in DOMAIN shown.body : data[shown.body[j].holds] = <<added[k].data, j - 1>>

(* When no block read failed, ls prints the name of every file of the      *)
(* image once, in the order in which mkfsso added them.                    *)
LsCorrect ==
  command.fn = "ls" /\ command.stage = "done" /\ ~spoiled /\ total_inodes = TotalInodes =>
    shown.body = [k \in DOMAIN added |-> added[k].name]

(* Every command gets back to the prompt, whatever the blocks contain.     *)
CommandReturns == command.stage # "done" ~> command.stage = "done"

============================================================================
