---------------------------- MODULE AhciProofs ----------------------------
(***************************************************************************)
(* Proofs about the AHCI driver, for every number of ports, LBAs, buffers  *)
(* and every polling bound.                                                *)
(***************************************************************************)
EXTENDS Ahci, TLAPS

(* The command table once ahci_read has filled it in.                      *)
Whole == [dba |-> req.buffer, read |-> TRUE, lba |-> req.lba]

Programming == {"clear", "prdt", "command", "lba", "ack", "issue"}
Issued      == {"poll_ci", "poll_is", "final"}

(* The HBA keeps PORT_CI set from the fetch to the completion, and for     *)
(* ever after an error; slot 0 is free until the first command.            *)
SlotInv ==
  /\ hba # "idle" => ci
  /\ pc \in InitPC \/ active_port = NoPort => ~ci
  /\ pc = "idle" /\ ret = NotReturned => ~ci
  /\ pc \in InitPC => ret = NotReturned

(* An error bit seen by the polling loop was raised by a port that has     *)
(* stopped, and a call that ended with an error leaves the port stopped.   *)
ErrorInv ==
  /\ pc \in {"issue", "poll_ci", "poll_is", "final"} /\ tfes => hba = "halted"
  /\ pc = "idle" /\ ret = Failed => hba = "halted" \/ ~ci

(* What the command table holds at each point of ahci_read.                *)
TableInv ==
  /\ pc \in ReadPC \/ ci => req.buffer \in Buffer
  /\ pc = "prdt" => cmd_tbl = ZeroTable
  /\ pc = "command" => cmd_tbl = [dba |-> req.buffer, read |-> FALSE, lba |-> 0]
  /\ pc = "lba" => cmd_tbl = [dba |-> req.buffer, read |-> TRUE, lba |-> 0]
  /\ pc \in {"ack", "issue"} \cup Issued => cmd_tbl = Whole
  /\ pc = "idle" /\ ci => cmd_tbl = Whole

(* A call that found slot 0 free: the HBA is idle while the command is     *)
(* being built, only ever sees the whole command, and has moved the data   *)
(* when PORT_CI is clear again.                                            *)
CleanInv ==
  ~busyAtEntry =>
    /\ pc \in Programming => ~ci
    /\ HbaBusy => latched = Whole
    /\ hba = "moved" => buf[req.buffer] = req.lba
    /\ pc \in Issued /\ ~ci => buf[req.buffer] = req.lba
    /\ pc = "idle" /\ ret = Ok => buf[req.buffer] = req.lba

(* The port loop of ahci_init: active_port is the last disk seen so far.   *)
ScanInv ==
  /\ pc = "init" => scan = 0 /\ active_port = NoPort
  /\ init_ret = Ok \/ pc \in {"stop", "bases", "start"}
       => scan = NumPorts /\ active_port # NoPort
  /\ active_port # NoPort =>
       /\ active_port \in Port
       /\ active_port < scan
       /\ link[active_port] = "ata"
  /\ \A p \in Port : p < scan /\ link[p] = "ata" => p <= active_port
  /\ pc \in ReadPC => active_port # NoPort

(* port_rebase: ST and FRE are clear while it works, and the engines have  *)
(* followed once the bases are written.                                    *)
RebaseInv ==
  /\ pc \in {"bases", "start"} => ~start
  /\ pc = "start" => ~cr /\ ~fr
  /\ clb = "driver" => pc = "start" \/ init_ret # NotReturned

IInv ==
  SlotInv /\ ErrorInv /\ TableInv /\ CleanInv /\ ScanInv /\ RebaseInv /\ NoOrphanTransfer
---------------------------------------------------------------------------
(* The variables a step names in its UNCHANGED clauses, and the constants  *)
(* of the driver.                                                          *)
USE PortsAssumption, LbaAssumption, BufferAssumption, PollAssumption
    DEF vars, initVars, cmdVars, slotVars, callVars,
        Ok, Failed, TimedOut, NotReturned, NoPort, InitPC, ReadPC

(* Every variable keeps its type: in particular the polling counter never  *)
(* passes its bound and no step leaves the set of program points.          *)
THEOREM TypeCorrect == Spec => []TypeOK
<1> DEFINE TInv == TypeOK /\ (pc = "poll_is" => timeout < PollLimit)
<1>1. Init => TInv
  <2> SUFFICES ASSUME Init PROVE TInv
    OBVIOUS
  <2>1. ZeroTable \in CmdTbl /\ [lba |-> 0, buffer |-> NoBuffer] \in [lba : Lba, buffer : Buffer \cup {NoBuffer}]
    BY DEF ZeroTable, CmdTbl, Lba
  <2>2. scan \in 0 .. NumPorts /\ timeout \in 0 .. PollLimit
    BY DEF Init
  <2>3. ci \in BOOLEAN /\ cr \in BOOLEAN /\ fr \in BOOLEAN /\ busyAtEntry \in BOOLEAN
    BY Zenon DEF Init
  <2> QED
    BY <2>1, <2>2, <2>3 DEF Init, TypeOK
<1>2. TInv /\ [Next]_vars => TInv'
  <2> SUFFICES ASSUME TInv, [Next]_vars
               PROVE  TInv'
    OBVIOUS
  <2> USE DEF TypeOK
  <2>1. CASE InitNoController
    BY <2>1 DEF InitNoController
  <2>2. CASE InitController
    BY <2>2 DEF InitController
  <2>3. CASE ScanPort
    BY <2>3 DEF ScanPort, SelectPort, Port
  <2>4. CASE ScanDone
    BY <2>4 DEF ScanDone
  <2>5. CASE RebaseStop
    <3>1. start' \in BOOLEAN
      BY <2>5, Zenon DEF RebaseStop
    <3> QED
      BY <2>5, <3>1 DEF RebaseStop
  <2>6. CASE RebaseBases
    BY <2>6, ZenonT(60) DEF RebaseBases, EnginesStopped
  <2>7. CASE RebaseStart
    BY <2>7 DEF RebaseStart
  <2>8. CASE CallUninitialised
    BY <2>8 DEF CallUninitialised
  <2>9. ASSUME NEW l \in Lba, NEW b \in Buffer, Call(l, b)
        PROVE  TInv'
    BY <2>9 DEF Call
  <2>10. CASE ClearTable
    BY <2>10 DEF ClearTable, ZeroTable, CmdTbl, Lba
  <2>11. CASE WritePrdt
    BY <2>11 DEF WritePrdt, CmdTbl
  <2>12. CASE WriteFisCommand
    <3>1. cmd_tbl' \in CmdTbl
      BY <2>12, Zenon DEF WriteFisCommand, CmdTbl
    <3> QED
      BY <2>12, <3>1 DEF WriteFisCommand
  <2>13. CASE WriteFisLba
    BY <2>13 DEF WriteFisLba, CmdTbl
  <2>14. CASE AckStatus
    <3>1. tfes' \in BOOLEAN
      BY <2>14, Zenon DEF AckStatus
    <3> QED
      BY <2>14, <3>1 DEF AckStatus
  <2>15. CASE Issue
    BY <2>15 DEF Issue
  <2>16. CASE PollCi
    BY <2>16 DEF PollCi, KeepPolling
  <2>17. CASE PollIs
    BY <2>17 DEF PollIs
  <2>18. CASE ReadFinal
    BY <2>18 DEF ReadFinal, FinalResult
  <2>19. CASE HbaFollowsSt
    BY <2>19 DEF HbaFollowsSt
  <2>20. CASE HbaFollowsFre
    BY <2>20 DEF HbaFollowsFre
  <2>21. CASE HbaFetch
    BY <2>21 DEF HbaFetch
  <2>22. CASE HbaMove
    BY <2>22 DEF HbaMove, CmdTbl
  <2>23. CASE HbaComplete
    <3>1. ci' \in BOOLEAN
      BY <2>23, Zenon DEF HbaComplete
    <3> QED
      BY <2>23, <3>1 DEF HbaComplete
  <2>24. CASE HbaError
    BY <2>24 DEF HbaError, HbaBusy, CmdTbl
  <2>25. CASE UNCHANGED vars
    BY <2>25
  <2> QED
    BY <2>1, <2>2, <2>3, <2>4, <2>5, <2>6, <2>7, <2>8, <2>9, <2>10, <2>11, <2>12, <2>13, <2>14, <2>15, <2>16, <2>17, <2>18, <2>19, <2>20, <2>21, <2>22, <2>23, <2>24, <2>25
    DEF Next, AhciInit, AhciRead, Caller, Hba
<1> QED
  BY <1>1, <1>2, PTL DEF Spec

(* Storing the data base address leaves the FIS fields of a command table. *)
LEMMA SetDba ==
  ASSUME NEW b, NEW l, NEW r, NEW z, NEW x, NEW y,
         x = [dba |-> z, read |-> r, lba |-> l], y = [x EXCEPT !.dba = b]
  PROVE  y = [dba |-> b, read |-> r, lba |-> l]
<1>1. y.dba = b /\ y.read = r /\ y.lba = l /\ DOMAIN y = {"dba", "read", "lba"}
  OBVIOUS
<1> QED
  BY <1>1, Zenon

(* Storing the command byte leaves the other fields of a command table.    *)
LEMMA SetRead ==
  ASSUME NEW b, NEW l, NEW r, NEW z, NEW x, NEW y,
         x = [dba |-> b, read |-> z, lba |-> l], y = [x EXCEPT !.read = r]
  PROVE  y = [dba |-> b, read |-> r, lba |-> l]
<1>1. y.dba = b /\ y.read = r /\ y.lba = l /\ DOMAIN y = {"dba", "read", "lba"}
  OBVIOUS
<1> QED
  BY <1>1, Zenon

(* Storing the LBA leaves the other fields of a command table.             *)
LEMMA SetLba ==
  ASSUME NEW b, NEW l, NEW r, NEW z, NEW x, NEW y,
         x = [dba |-> b, read |-> r, lba |-> z], y = [x EXCEPT !.lba = l]
  PROVE  y = [dba |-> b, read |-> r, lba |-> l]
<1>1. y.dba = b /\ y.read = r /\ y.lba = l /\ DOMAIN y = {"dba", "read", "lba"}
  OBVIOUS
<1> QED
  BY <1>1, Zenon

(* The command table after each store of ahci_read.                        *)
LEMMA TableStores ==
  ASSUME TableInv
  PROVE  /\ WritePrdt => cmd_tbl' = [dba |-> req.buffer, read |-> FALSE, lba |-> 0]
         /\ WriteFisCommand => cmd_tbl' = [dba |-> req.buffer, read |-> TRUE, lba |-> 0]
         /\ WriteFisLba => cmd_tbl' = Whole
<1>1. ASSUME WritePrdt PROVE cmd_tbl' = [dba |-> req.buffer, read |-> FALSE, lba |-> 0]
  <2>1. cmd_tbl = [dba |-> NoBuffer, read |-> FALSE, lba |-> 0]
    BY <1>1 DEF WritePrdt, TableInv, ZeroTable
  <2>2. cmd_tbl' = [cmd_tbl EXCEPT !.dba = req.buffer]
    BY <1>1 DEF WritePrdt
  <2> QED
    BY ONLY <2>1, <2>2, SetDba
<1>2. ASSUME WriteFisCommand PROVE cmd_tbl' = [dba |-> req.buffer, read |-> TRUE, lba |-> 0]
  <2>1. cmd_tbl = [dba |-> req.buffer, read |-> FALSE, lba |-> 0]
    BY <1>2 DEF WriteFisCommand, TableInv
  <2>2. cmd_tbl' = [cmd_tbl EXCEPT !.read = TRUE]
    BY <1>2 DEF WriteFisCommand
  <2> QED
    BY ONLY <2>1, <2>2, SetRead
<1>3. ASSUME WriteFisLba PROVE cmd_tbl' = Whole
  <2>1. cmd_tbl = [dba |-> req.buffer, read |-> TRUE, lba |-> 0]
    BY <1>3 DEF WriteFisLba, TableInv
  <2>2. cmd_tbl' = [cmd_tbl EXCEPT !.lba = req.lba]
    BY <1>3 DEF WriteFisLba
  <2> QED
    BY ONLY <2>1, <2>2, SetLba DEF Whole
<1> QED
  BY <1>1, <1>2, <1>3

(* The inductive step of the driver's invariant.                           *)
LEMMA IInvStep == TypeOK /\ TypeOK' /\ IInv /\ [Next]_vars => IInv'
<1> SUFFICES ASSUME TypeOK, TypeOK', IInv, [Next]_vars
             PROVE  IInv'
  OBVIOUS
<1> USE DEF TypeOK, IInv, SlotInv, ErrorInv, TableInv, CleanInv, ScanInv, RebaseInv, NoOrphanTransfer,
            HbaBusy, Whole, Programming, Issued, Port
<1>1. CASE InitNoController
  BY <1>1 DEF InitNoController
<1>2. CASE InitController
  BY <1>2 DEF InitController
<1>3. CASE ScanPort
  BY <1>3 DEF ScanPort, SelectPort
<1>4. CASE ScanDone
  BY <1>4 DEF ScanDone
<1>5. CASE RebaseStop
  BY <1>5 DEF RebaseStop
<1>6. CASE RebaseBases
  BY <1>6 DEF RebaseBases, EnginesStopped
<1>7. CASE RebaseStart
  BY <1>7 DEF RebaseStart
<1>8. CASE CallUninitialised
  BY <1>8 DEF CallUninitialised
<1>9. ASSUME NEW l \in Lba, NEW b \in Buffer, Call(l, b)
      PROVE  IInv'
  BY <1>9 DEF Call
<1>10. CASE ClearTable
  BY <1>10 DEF ClearTable
<1>11. CASE WritePrdt
  BY <1>11, TableStores DEF WritePrdt
<1>12. CASE WriteFisCommand
  BY <1>12, TableStores DEF WriteFisCommand
<1>13. CASE WriteFisLba
  BY <1>13, TableStores DEF WriteFisLba
<1>14. CASE AckStatus
  BY <1>14 DEF AckStatus
<1>15. CASE Issue
  BY <1>15 DEF Issue
<1>16. CASE PollCi
  BY <1>16 DEF PollCi, KeepPolling
<1>17. CASE PollIs
  BY <1>17 DEF PollIs
<1>18. CASE ReadFinal
  BY <1>18 DEF ReadFinal, FinalResult
<1>19. CASE HbaFollowsSt
  BY <1>19 DEF HbaFollowsSt
<1>20. CASE HbaFollowsFre
  BY <1>20 DEF HbaFollowsFre
<1>21. CASE HbaFetch
  BY <1>21 DEF HbaFetch
<1>22. CASE HbaMove
  BY <1>22 DEF HbaMove
<1>23. CASE HbaComplete
  BY <1>23 DEF HbaComplete
<1>24. CASE HbaError
  BY <1>24 DEF HbaError
<1>25. CASE UNCHANGED vars
  BY <1>25
<1> QED
  BY <1>1, <1>2, <1>3, <1>4, <1>5, <1>6, <1>7, <1>8, <1>9, <1>10, <1>11, <1>12, <1>13, <1>14, <1>15, <1>16, <1>17, <1>18, <1>19, <1>20, <1>21, <1>22, <1>23, <1>24, <1>25
  DEF Next, AhciInit, AhciRead, Caller, Hba

(* The driver's inductive invariant holds throughout.                      *)
LEMMA IInvInvariant == Spec => []IInv
<1>1. Init => IInv
  BY DEF Init, IInv, SlotInv, ErrorInv, TableInv, CleanInv, ScanInv, RebaseInv, NoOrphanTransfer,
         HbaBusy, Programming, Issued, Port
<1> QED
  BY <1>1, IInvStep, TypeCorrect, PTL DEF Spec

(* A call of ahci_read that found slot 0 free and returned 0 delivered the *)
(* sectors asked for, for every schedule of the HBA.                       *)
THEOREM ReadCorrect == Spec => []CleanReadDelivers
<1>1. IInv => CleanReadDelivers
  BY DEF IInv, CleanInv, CleanReadDelivers
<1> QED
  BY <1>1, IInvInvariant, PTL

(* Only a timeout leaves a command in the HBA's hands.                     *)
THEOREM NoOrphan == Spec => []NoOrphanTransfer
<1>1. IInv => NoOrphanTransfer
  BY DEF IInv
<1> QED
  BY <1>1, IInvInvariant, PTL

(* ahci_init returns 0 only with the last active ATA disk selected.        *)
THEOREM LastDisk == Spec => []SelectsLastDisk
<1>1. TypeOK /\ IInv => SelectsLastDisk
  BY DEF TypeOK, IInv, ScanInv, SelectsLastDisk, Port
<1> QED
  BY <1>1, TypeCorrect, IInvInvariant, PTL

(* The HBA writes only to the buffer of the last call, if that call began  *)
(* with slot 0 free.                                                       *)
THEOREM TransferTarget == Spec => TransfersOnlyToRequested
<1>1. TypeOK /\ IInv /\ [Next]_vars =>
        [~busyAtEntry => \A b \in Buffer : buf'[b] # buf[b] => b = req.buffer]_vars
  <2> SUFFICES ASSUME TypeOK, IInv, [Next]_vars, ~busyAtEntry,
                      NEW b \in Buffer, buf'[b] # buf[b]
               PROVE  b = req.buffer
    OBVIOUS
  <2>1. HbaMove \/ HbaError
    BY DEF Next, AhciInit, AhciRead, Caller, Hba, InitNoController, InitController, ScanPort,
           ScanDone, RebaseStop, RebaseBases, RebaseStart, CallUninitialised, Call, ClearTable,
           WritePrdt, WriteFisCommand, WriteFisLba, AckStatus, Issue, PollCi, PollIs, ReadFinal,
           HbaFollowsSt, HbaFollowsFre, HbaFetch, HbaComplete
  <2>2. latched = Whole
    BY <2>1 DEF HbaMove, HbaError, HbaBusy, IInv, CleanInv
  <2>3. latched.dba = req.buffer
    BY <2>2 DEF Whole
  <2>4. CASE HbaMove
    BY <2>3, <2>4 DEF HbaMove, TypeOK
  <2>5. CASE HbaError
    BY <2>3, <2>5 DEF HbaError, TypeOK
  <2> QED
    BY <2>1, <2>4, <2>5
<1> QED
  BY <1>1, TypeCorrect, IInvInvariant, PTL DEF Spec, TransfersOnlyToRequested

(* The engines stay stopped while port_rebase moves the bases.             *)
THEOREM RebaseSafe == Spec => []RebaseQuiescent
<1>1. IInv => RebaseQuiescent
  BY DEF IInv, RebaseInv, RebaseQuiescent
<1> QED
  BY <1>1, IInvInvariant, PTL

(* After a task file error no call of ahci_read returns 0.                 *)
THEOREM ErrorIsFinal == Spec => DeadAfterError
<1>1. TypeOK /\ IInv /\ [Next]_vars =>
        [hba = "halted" => hba' = "halted" /\ (ret' = ret \/ ret' # Ok)]_vars
  <2> SUFFICES ASSUME TypeOK, IInv, Next, hba = "halted"
               PROVE  hba' = "halted" /\ (ret' = ret \/ ret' # Ok)
    OBVIOUS
  <2>1. ci
    BY DEF IInv, SlotInv
  <2>2. CASE ReadFinal
    BY <2>1, <2>2 DEF ReadFinal, FinalResult
  <2>3. CASE ~ReadFinal
    BY <2>3 DEF Next, AhciInit, AhciRead, Caller, Hba, InitNoController, InitController, ScanPort,
           ScanDone, RebaseStop, RebaseBases, RebaseStart, CallUninitialised, Call, ClearTable,
           WritePrdt, WriteFisCommand, WriteFisLba, AckStatus, Issue, PollCi, PollIs,
           HbaFollowsSt, HbaFollowsFre, HbaFetch, HbaMove, HbaComplete, HbaError, HbaBusy
  <2> QED
    BY <2>2, <2>3
<1> QED
  BY <1>1, TypeCorrect, IInvInvariant, PTL DEF Spec, DeadAfterError

(* The driver and the HBA implement BlockDevice: the initial states map to *)
(* initial states, and every step maps to a step of the block device or    *)
(* leaves its state alone.                                                 *)
THEOREM ImplementsBlockDevice == Spec => IsBlockDevice
<1>1. Init => Device!BDInit
  BY DEF Init, Device!BDInit
<1>2. TypeOK /\ IInv /\ [Next]_vars => [Device!BDNext]_(Device!bdVars)
  <2> SUFFICES ASSUME TypeOK, IInv, [Next]_vars
               PROVE  Device!BDNext \/ UNCHANGED Device!bdVars
    OBVIOUS
  <2> USE DEF Device!bdVars, Device!BDNext
  <2>1. CASE InitNoController \/ InitController \/ ScanPort \/ ScanDone
    BY <2>1 DEF InitNoController, InitController, ScanPort, ScanDone
  <2>2. CASE RebaseStop \/ RebaseBases \/ RebaseStart
    BY <2>2 DEF RebaseStop, RebaseBases, RebaseStart
  <2>3. CASE CallUninitialised
    BY <2>3 DEF CallUninitialised, Device!Refuse
  <2>4. ASSUME NEW l \in Lba, NEW b \in Buffer, Call(l, b)
        PROVE  Device!Begin
    <3>1. busyAtEntry' \in BOOLEAN /\ req' \in [lba : Lba, buffer : Buffer]
      BY <2>4 DEF Call, TypeOK
    <3>2. busyAtEntry' => ret \in {-1, -2}
      BY <2>4 DEF Call, TypeOK, IInv, SlotInv, NoOrphanTransfer
    <3>3. hba = "halted" => busyAtEntry'
      BY <2>4 DEF Call, IInv, SlotInv
    <3> QED
      BY <2>4, <3>1, <3>2, <3>3 DEF Call, Device!Begin
  <2>5. CASE ClearTable \/ WritePrdt \/ WriteFisCommand \/ WriteFisLba \/ AckStatus \/ Issue
    BY <2>5 DEF ClearTable, WritePrdt, WriteFisCommand, WriteFisLba, AckStatus, Issue
  <2>6. CASE PollCi
    BY <2>6 DEF PollCi
  <2>7. CASE PollIs
    BY <2>7 DEF PollIs, IInv, ErrorInv, Device!GiveUp
  <2>8. CASE ReadFinal
    <3>1. CASE ci
      BY <2>8, <3>1 DEF ReadFinal, FinalResult, Device!GiveUp
    <3>2. CASE ~ci
      BY <2>8, <3>2 DEF ReadFinal, FinalResult, Device!Deliver, IInv, SlotInv, CleanInv, Issued
    <3> QED
      BY <3>1, <3>2
  <2>9. CASE HbaFollowsSt \/ HbaFollowsFre
    BY <2>9 DEF HbaFollowsSt, HbaFollowsFre
  <2>10. HbaBusy => /\ Device!MayWrite
                    /\ ~busyAtEntry => latched.dba = req.buffer /\ latched.lba = req.lba
    BY DEF TypeOK, HbaBusy, Device!MayWrite, IInv, SlotInv, CleanInv, NoOrphanTransfer, Whole
  <2>11. CASE HbaFetch
    BY <2>11 DEF HbaFetch
  <2>12. CASE HbaMove
    <3>1. Device!Write(latched.dba, latched.lba) /\ latched.lba \in Lba
      BY <2>10, <2>12 DEF HbaMove, HbaBusy, Device!Write, TypeOK, CmdTbl
    <3> QED
      BY <2>10, <2>12, <3>1 DEF HbaMove, HbaBusy, Device!Transfer
  <2>13. CASE HbaComplete
    BY <2>13 DEF HbaComplete
  <2>14. CASE HbaError
    <3>1. UNCHANGED buf \/ (latched.dba \in Buffer /\ Device!Write(latched.dba, Garbage))
      BY <2>10, <2>14 DEF HbaError, Device!Write
    <3> QED
      BY <2>10, <2>14, <3>1 DEF HbaError, Device!Break
  <2>15. CASE UNCHANGED vars
    BY <2>15
  <2> QED
    BY <2>1, <2>2, <2>3, <2>4, <2>5, <2>6, <2>7, <2>8, <2>9, <2>11, <2>12, <2>13, <2>14, <2>15
    DEF Next, AhciInit, AhciRead, Caller, Hba
<1> QED
  BY <1>1, <1>2, TypeCorrect, IInvInvariant, PTL DEF Spec, IsBlockDevice, Device!BDSpec

===========================================================================
