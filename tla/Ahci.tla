------------------------------- MODULE Ahci -------------------------------
(***************************************************************************)
(* The SATA driver of kernel/ahci.c (ahci_init, port_rebase, ahci_read)    *)
(* running against the host bus adapter (HBA), an independent bus master.  *)
(*                                                                         *)
(* Two actors interleave:                                                  *)
(*   - the driver, one action per register access or group of stores whose *)
(*     order the HBA can observe (the kernel is built without optimisation *)
(*     and x86 keeps stores in order, so program order is memory order);   *)
(*   - the HBA, which fetches the command table of slot 0 while PORT_CI    *)
(*     bit 0 is set, moves data into the buffer the table names, and then  *)
(*     clears the bit or raises the task file error bit of PORT_IS.        *)
(*                                                                         *)
(* Only the registers of the selected port are kept.  A buffer's content   *)
(* is the LBA whose sectors it holds, or Garbage.                          *)
(***************************************************************************)
EXTENDS Integers

CONSTANTS
  NumPorts,   (* ports the scan looks at: 32 in the code                   *)
  MaxLba,     (* largest LBA a caller asks for                             *)
  Buffer,     (* destination buffers (stack frames of the callers)         *)
  NoBuffer,   (* a zeroed dba field                                        *)
  Garbage,    (* bytes that are not the content of any LBA                 *)
  PollLimit   (* iterations of the polling loop: 1000000 in the code       *)

ASSUME PortsAssumption  == NumPorts \in Nat
ASSUME LbaAssumption    == MaxLba \in Nat
ASSUME BufferAssumption == NoBuffer \notin Buffer
ASSUME PollAssumption   == PollLimit \in Nat \ {0}

Port == 0 .. NumPorts - 1
Lba  == 0 .. MaxLba

(* Return values of the driver; NotReturned marks a call that has not      *)
(* been made yet.                                                          *)
Ok          == 0
Failed      == -1
TimedOut    == -2
NotReturned == 1

(* What PI, SSTS and SIG say of a port: not implemented; det # 3; ipm # 1; *)
(* present but not an ATA disk; an active ATA disk.                        *)
LinkKind == {"unimplemented", "nodevice", "asleep", "atapi", "ata"}

VARIABLES
  pc,           (* where the driver is                                     *)
  link,         (* the hardware behind each port                           *)
  scan,         (* loop index of ahci_init                                 *)
  active_port,  (* static int active_port                                  *)
  init_ret,     (* what ahci_init returned                                 *)
  start,        (* PORT_CMD.ST and PORT_CMD.FRE, always written together   *)
  cr, fr,       (* PORT_CMD.CR and PORT_CMD.FR: engines still running      *)
  clb,          (* whose command list PORT_CLB points at                   *)
  ci,           (* PORT_CI bit 0                                           *)
  tfes,         (* PORT_IS bit 30                                          *)
  hba,          (* what the HBA is doing with slot 0                       *)
  latched,      (* the command table as the HBA fetched it                 *)
  cmd_tbl,      (* the command table in memory                             *)
  buf,          (* content of each buffer                                  *)
  req,          (* the arguments of the current or last ahci_read          *)
  timeout,      (* the polling counter                                     *)
  ret,          (* what the last ahci_read returned                        *)
  busyAtEntry   (* history: PORT_CI bit 0 was set when ahci_read began     *)

initVars == <<link, scan, active_port, init_ret>>
cmdVars  == <<start, cr, fr, clb>>
slotVars == <<ci, tfes, hba, latched>>
callVars == <<req, ret, busyAtEntry>>
vars == <<pc, initVars, cmdVars, slotVars, cmd_tbl, buf, timeout, callVars>>

NoPort == -1

(* prdt_entry[0].dba, "the FIS carries READ DMA EXT", and the FIS's LBA.   *)
CmdTbl    == [dba : Buffer \cup {NoBuffer}, read : BOOLEAN, lba : Lba]
ZeroTable == [dba |-> NoBuffer, read |-> FALSE, lba |-> 0]

InitPC == {"init", "scan", "stop", "bases", "start"}
ReadPC == {"clear", "prdt", "command", "lba", "ack", "issue", "poll_ci", "poll_is", "final"}

(* The HBA owns slot 0: it may still write to the latched buffer.          *)
HbaBusy == hba \in {"fetched", "moved"}

---------------------------------------------------------------------------
(* The firmware hands the port over with its engines running or stopped,   *)
(* and with no command outstanding.                                        *)
Init ==
  /\ pc = "init"
  /\ link \in [Port -> LinkKind]
  /\ scan = 0
  /\ active_port = NoPort
  /\ init_ret = NotReturned
  /\ start \in BOOLEAN /\ cr = start /\ fr = start
  /\ clb = "firmware"
  /\ ci = FALSE /\ tfes \in BOOLEAN /\ hba = "idle" /\ latched = ZeroTable
  /\ cmd_tbl = ZeroTable
  /\ buf = [b \in Buffer |-> Garbage]
  /\ req = [lba |-> 0, buffer |-> NoBuffer]
  /\ timeout = 0
  /\ ret = NotReturned
  /\ busyAtEntry = FALSE

---------------------------------------------------------------------------
(* ahci_init *)

(* pci_find_ahci returned 0. *)
InitNoController ==
  /\ pc = "init"
  /\ pc' = "idle" /\ init_ret' = Failed
  /\ UNCHANGED <<link, scan, active_port, cmdVars, slotVars, cmd_tbl, buf, timeout, callVars>>

(* It also sets the AHCI enable bit, which the HBA of the model has set.   *)
InitController ==
  /\ pc = "init"
  /\ pc' = "scan"
  /\ UNCHANGED <<initVars, cmdVars, slotVars, cmd_tbl, buf, timeout, callVars>>

(* Mutant: the first disk found is kept.                                   *)
SelectPortFirst ==
  IF link[scan] = "ata" /\ active_port = NoPort THEN scan ELSE active_port

(* A later disk replaces an earlier one.                                   *)
SelectPort == IF link[scan] = "ata" THEN scan ELSE active_port

(* One iteration of the port loop.                                         *)
ScanPort ==
  /\ pc = "scan" /\ scan < NumPorts
  /\ active_port' = SelectPort
  /\ scan' = scan + 1
  /\ UNCHANGED <<pc, link, init_ret, cmdVars, slotVars, cmd_tbl, buf, timeout, callVars>>

ScanDone ==
  /\ pc = "scan" /\ scan = NumPorts
  /\ IF active_port = NoPort
       THEN pc' = "idle" /\ init_ret' = Failed
       ELSE pc' = "stop" /\ UNCHANGED init_ret
  /\ UNCHANGED <<link, scan, active_port, cmdVars, slotVars, cmd_tbl, buf, timeout, callVars>>

(* Mutant: the cleared command word is not written back.                   *)
RebaseStopNotWritten ==
  /\ pc = "stop"
  /\ pc' = "bases"
  /\ UNCHANGED <<initVars, cmdVars, slotVars, cmd_tbl, buf, timeout, callVars>>

(* port_rebase: clear ST and FRE ...                                       *)
RebaseStop ==
  /\ pc = "stop"
  /\ start' = FALSE
  /\ pc' = "bases"
  /\ UNCHANGED <<initVars, cr, fr, clb, slotVars, cmd_tbl, buf, timeout, callVars>>

(* Mutant: the first loop waits for CR (mask 0x8000) only.                 *)
EnginesStoppedCrOnly == ~cr

EnginesStopped == ~cr /\ ~fr

(* ... spin until CR and FR are clear, then point the port at the driver's *)
(* own command list and FIS area and acknowledge old status bits ...       *)
RebaseBases ==
  /\ pc = "bases" /\ EnginesStopped
  /\ clb' = "driver" /\ tfes' = FALSE
  /\ pc' = "start"
  /\ UNCHANGED <<initVars, start, cr, fr, ci, hba, latched, cmd_tbl, buf, timeout, callVars>>

(* ... spin on CR once more and set FRE and ST.                            *)
RebaseStart ==
  /\ pc = "start" /\ ~cr
  /\ start' = TRUE
  /\ pc' = "idle" /\ init_ret' = Ok
  /\ UNCHANGED <<link, scan, active_port, cr, fr, clb, slotVars, cmd_tbl, buf, timeout, callVars>>

---------------------------------------------------------------------------
(* ahci_read(lba, 2, buffer) *)

CallUninitialised ==
  /\ pc = "idle" /\ active_port = NoPort
  /\ ret' = Failed
  /\ UNCHANGED <<pc, initVars, cmdVars, slotVars, cmd_tbl, buf, timeout, req, busyAtEntry>>

(* Mutant: PORT_CI is written before the command table.                    *)
CallIssueFirst(l, b) ==
  /\ pc = "idle" /\ active_port # NoPort
  /\ req' = [lba |-> l, buffer |-> b]
  /\ busyAtEntry' = ci
  /\ pc' = "clear" /\ ci' = TRUE
  /\ UNCHANGED <<initVars, cmdVars, tfes, hba, latched, cmd_tbl, buf, timeout, ret>>

(* The code goes on whatever PORT_CI says.                                 *)
Call(l, b) ==
  /\ pc = "idle" /\ active_port # NoPort
  /\ req' = [lba |-> l, buffer |-> b]
  /\ busyAtEntry' = ci
  /\ pc' = "clear"
  /\ UNCHANGED <<initVars, cmdVars, slotVars, cmd_tbl, buf, timeout, ret>>

(* The command header is rewritten with the same values at every call, so  *)
(* only the zeroing of the command table is visible to the HBA.  The bits  *)
(* of the header that are never written are taken to be 0.                 *)
ClearTable ==
  /\ pc = "clear"
  /\ cmd_tbl' = ZeroTable
  /\ pc' = "prdt"
  /\ UNCHANGED <<initVars, cmdVars, slotVars, buf, timeout, callVars>>

WritePrdt ==
  /\ pc = "prdt"
  /\ cmd_tbl' = [cmd_tbl EXCEPT !.dba = req.buffer]
  /\ pc' = "command"
  /\ UNCHANGED <<initVars, cmdVars, slotVars, buf, timeout, callVars>>

WriteFisCommand ==
  /\ pc = "command"
  /\ cmd_tbl' = [cmd_tbl EXCEPT !.read = TRUE]
  /\ pc' = "lba"
  /\ UNCHANGED <<initVars, cmdVars, slotVars, buf, timeout, callVars>>

WriteFisLba ==
  /\ pc = "lba"
  /\ cmd_tbl' = [cmd_tbl EXCEPT !.lba = req.lba]
  /\ pc' = "ack"
  /\ UNCHANGED <<initVars, cmdVars, slotVars, buf, timeout, callVars>>

AckStatus ==
  /\ pc = "ack"
  /\ tfes' = FALSE
  /\ pc' = "issue"
  /\ UNCHANGED <<initVars, cmdVars, ci, hba, latched, cmd_tbl, buf, timeout, callVars>>

Issue ==
  /\ pc = "issue"
  /\ ci' = TRUE
  /\ timeout' = 0
  /\ pc' = "poll_ci"
  /\ UNCHANGED <<initVars, cmdVars, tfes, hba, latched, cmd_tbl, buf, callVars>>

(* Mutant: one iteration too many.                                         *)
KeepPollingOnceMore == timeout <= PollLimit /\ ci

(* Top of the polling loop: its bound, then the first register read.       *)
KeepPolling == timeout < PollLimit /\ ci

PollCi ==
  /\ pc = "poll_ci"
  /\ pc' = IF KeepPolling THEN "poll_is" ELSE "final"
  /\ UNCHANGED <<initVars, cmdVars, slotVars, cmd_tbl, buf, timeout, callVars>>

(* Mutant: the iterations are not counted.                                 *)
PollIsUncounted ==
  /\ pc = "poll_is"
  /\ IF tfes THEN pc' = "idle" /\ ret' = Failed ELSE pc' = "poll_ci" /\ UNCHANGED ret
  /\ UNCHANGED <<initVars, cmdVars, slotVars, cmd_tbl, buf, timeout, req, busyAtEntry>>

PollIs ==
  /\ pc = "poll_is"
  /\ IF tfes
       THEN pc' = "idle" /\ ret' = Failed /\ UNCHANGED timeout
       ELSE pc' = "poll_ci" /\ timeout' = timeout + 1 /\ UNCHANGED ret
  /\ UNCHANGED <<initVars, cmdVars, slotVars, cmd_tbl, buf, req, busyAtEntry>>

(* Mutant: leaving the loop counts as success.                             *)
FinalResultUnchecked == Ok

(* The last look at PORT_CI decides between a timeout and success.         *)
FinalResult == IF ci THEN TimedOut ELSE Ok

ReadFinal ==
  /\ pc = "final"
  /\ ret' = FinalResult
  /\ pc' = "idle"
  /\ UNCHANGED <<initVars, cmdVars, slotVars, cmd_tbl, buf, timeout, req, busyAtEntry>>

---------------------------------------------------------------------------
(* The HBA (external hardware, as the driver relies on it). *)

HbaFollowsSt ==
  /\ cr # start
  /\ cr' = start
  /\ UNCHANGED <<pc, initVars, start, fr, clb, slotVars, cmd_tbl, buf, timeout, callVars>>

HbaFollowsFre ==
  /\ fr # start
  /\ fr' = start
  /\ UNCHANGED <<pc, initVars, start, cr, clb, slotVars, cmd_tbl, buf, timeout, callVars>>

(* Fetch the command table of slot 0 as it is in memory at this moment.    *)
HbaFetch ==
  /\ cr /\ ci /\ hba = "idle"
  /\ latched' = cmd_tbl /\ hba' = "fetched"
  /\ UNCHANGED <<pc, initVars, cmdVars, ci, tfes, cmd_tbl, buf, timeout, callVars>>

HbaMove ==
  /\ hba = "fetched" /\ latched.read /\ latched.dba \in Buffer
  /\ buf' = [buf EXCEPT ![latched.dba] = latched.lba]
  /\ hba' = "moved"
  /\ UNCHANGED <<pc, initVars, cmdVars, ci, tfes, latched, cmd_tbl, timeout, callVars>>

HbaComplete ==
  /\ hba = "moved"
  /\ ci' = FALSE /\ hba' = "idle"
  /\ UNCHANGED <<pc, initVars, cmdVars, tfes, latched, cmd_tbl, buf, timeout, callVars>>

(* A task file error: PORT_CI stays set and the port stays stopped until   *)
(* ST is cleared, which the driver never does again.  A transfer under way *)
(* may have written part of the buffer.                                    *)
HbaError ==
  /\ HbaBusy
  /\ tfes' = TRUE /\ hba' = "halted"
  /\ buf' \in {buf} \cup
       IF latched.read /\ latched.dba \in Buffer
         THEN {[buf EXCEPT ![latched.dba] = Garbage]} ELSE {}
  /\ UNCHANGED <<pc, initVars, cmdVars, ci, latched, cmd_tbl, timeout, callVars>>

---------------------------------------------------------------------------
AhciInit ==
  \/ InitNoController \/ InitController \/ ScanPort \/ ScanDone
  \/ RebaseStop \/ RebaseBases \/ RebaseStart

AhciRead ==
  \/ ClearTable \/ WritePrdt \/ WriteFisCommand \/ WriteFisLba \/ AckStatus
  \/ Issue \/ PollCi \/ PollIs \/ ReadFinal

Caller == CallUninitialised \/ \E l \in Lba, b \in Buffer : Call(l, b)

Hba == HbaFollowsSt \/ HbaFollowsFre \/ HbaFetch \/ HbaMove \/ HbaComplete \/ HbaError

Next == AhciInit \/ AhciRead \/ Caller \/ Hba

Spec == Init /\ [][Next]_vars

(* The CPU never stops executing the driver, and an HBA that is told to    *)
(* stop its engines does so.  Nothing is assumed about commands: a disk    *)
(* may never answer.                                                       *)
Fairness ==
  /\ WF_vars(AhciInit) /\ WF_vars(AhciRead)
  /\ WF_vars(HbaFollowsSt) /\ WF_vars(HbaFollowsFre)

FairSpec == Spec /\ Fairness

---------------------------------------------------------------------------
(* Type invariant. *)
TypeOK ==
  /\ pc \in InitPC \cup ReadPC \cup {"idle"}
  /\ link \in [Port -> LinkKind]
  /\ scan \in 0 .. NumPorts
  /\ active_port \in Port \cup {NoPort}
  /\ init_ret \in {NotReturned, Ok, Failed}
  /\ start \in BOOLEAN /\ cr \in BOOLEAN /\ fr \in BOOLEAN
  /\ clb \in {"firmware", "driver"}
  /\ ci \in BOOLEAN /\ tfes \in BOOLEAN
  /\ hba \in {"idle", "fetched", "moved", "halted"}
  /\ latched \in CmdTbl /\ cmd_tbl \in CmdTbl
  /\ buf \in [Buffer -> Lba \cup {Garbage}]
  /\ req \in [lba : Lba, buffer : Buffer \cup {NoBuffer}]
  /\ timeout \in 0 .. PollLimit
  /\ ret \in {NotReturned, Ok, Failed, TimedOut}
  /\ busyAtEntry \in BOOLEAN

(* A call of ahci_read that found slot 0 free and returned 0 has put the   *)
(* sectors that were asked for into the buffer that was passed, whatever   *)
(* earlier calls failed or timed out and however the HBA was scheduled.    *)
CleanReadDelivers ==
  pc = "idle" /\ ret = Ok /\ ~busyAtEntry => buf[req.buffer] = req.lba

(* Only a timeout leaves the HBA with a command in progress: after any     *)
(* other return no transfer can still reach the caller's stack frame, and  *)
(* after a 0 the slot is free again.                                       *)
NoOrphanTransfer ==
  pc = "idle" =>
    /\ HbaBusy => ret = TimedOut
    /\ ret = Ok => hba = "idle" /\ ~ci

(* As long as the last call began with slot 0 free, the HBA writes to no   *)
(* buffer but the one passed to it: never to one of an earlier call, never *)
(* through a half-written command table.                                   *)
TransfersOnlyToRequested ==
  [][~busyAtEntry => \A b \in Buffer : buf'[b] # buf[b] => b = req.buffer]_vars

(* ahci_read has no error recovery: once the port has stopped on a task    *)
(* file error no call returns 0 again, although each call acknowledges the *)
(* error bit and issues a new command.                                     *)
DeadAfterError ==
  [][hba = "halted" => hba' = "halted" /\ (ret' = ret \/ ret' # Ok)]_vars

(* From the moment port_rebase moves the command list until it restarts    *)
(* the port both engines stay stopped: the HBA never runs on half-moved    *)
(* bases, and the second wait loop never spins.                            *)
RebaseQuiescent == clb = "driver" /\ init_ret = NotReturned => ~cr /\ ~fr

(* ahci_init succeeds exactly with the highest numbered active ATA disk:   *)
(* run.sh attaches the boot disk to port 0 and the FSSO image to port 1.   *)
SelectsLastDisk ==
  init_ret = Ok =>
    /\ active_port \in Port /\ link[active_port] = "ata"
    /\ \A p \in Port : link[p] = "ata" => p <= active_port

(* Every ahci_read returns, even when the disk never answers.              *)
ReadReturns == pc \in ReadPC ~> pc = "idle"

(* ahci_init returns once the HBA stops its engines when told to.          *)
InitReturns == pc \in InitPC ~> pc = "idle"

---------------------------------------------------------------------------
Device == INSTANCE BlockDevice WITH
  calling <- pc \in ReadPC, tainted <- busyAtEntry, dead <- hba = "halted"

(* The driver together with the HBA is a block device as its callers see   *)
(* it: every step of either is a step of BlockDevice or invisible there.   *)
IsBlockDevice == Device!BDSpec

===========================================================================
