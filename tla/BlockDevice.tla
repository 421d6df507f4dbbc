--------------------------- MODULE BlockDevice ---------------------------
(***************************************************************************)
(* What ahci_read promises its callers, without registers, command tables  *)
(* or polling: a call delivers the sectors asked for and returns 0, or it  *)
(* returns a negative value.  The promise has two holes, which are the     *)
(* driver's: after a timeout the transfer may still happen, and the next   *)
(* call is tainted (it may return 0 with any content in any buffer); and a *)
(* device that failed once is dead.                                        *)
(***************************************************************************)
EXTENDS Integers

CONSTANTS Lba, Buffer, NoBuffer, Garbage

VARIABLES
  calling,  (* a call is in progress                                       *)
  tainted,  (* the current or last call began under an unfinished one      *)
  dead,     (* the device has failed                                       *)
  buf,      (* content of each buffer                                      *)
  req,      (* arguments of the current or last call                       *)
  ret       (* 0, -1 (failed), -2 (timed out), 1 (no call yet)             *)

bdVars == <<calling, tainted, dead, buf, req, ret>>

BDInit ==
  /\ calling = FALSE /\ tainted = FALSE /\ dead = FALSE
  /\ buf = [b \in Buffer |-> Garbage]
  /\ req = [lba |-> 0, buffer |-> NoBuffer]
  /\ ret = 1

(* Only an error or a timeout can taint the next call, and a dead device   *)
(* taints every call.                                                      *)
Begin ==
  /\ ~calling /\ calling' = TRUE
  /\ req' \in [lba : Lba, buffer : Buffer]
  /\ tainted' \in BOOLEAN
  /\ tainted' => ret \in {-1, -2}
  /\ dead => tainted'
  /\ UNCHANGED <<dead, buf, ret>>

(* A call before the device was set up.                                    *)
Refuse ==
  /\ ~calling /\ ret' = -1
  /\ UNCHANGED <<calling, tainted, dead, buf, req>>

(* The device writes memory during a call or, after a timeout, behind the  *)
(* caller's back; an untainted call's transfer stays in its own buffer.    *)
MayWrite == ~dead /\ (calling \/ ret = -2)

Write(b, v) ==
  /\ tainted \/ (b = req.buffer /\ v \in {req.lba, Garbage})
  /\ buf' = [buf EXCEPT ![b] = v]

Transfer ==
  /\ MayWrite
  /\ \E b \in Buffer, v \in Lba \cup {Garbage} : Write(b, v)
  /\ UNCHANGED <<calling, tainted, dead, req, ret>>

(* The device fails, perhaps in the middle of a transfer.                  *)
Break ==
  /\ MayWrite /\ dead' = TRUE
  /\ (UNCHANGED buf) \/ \E b \in Buffer : Write(b, Garbage)
  /\ UNCHANGED <<calling, tainted, req, ret>>

Deliver ==
  /\ calling /\ ~dead
  /\ ~tainted => buf[req.buffer] = req.lba
  /\ calling' = FALSE /\ ret' = 0
  /\ UNCHANGED <<tainted, dead, buf, req>>

GiveUp ==
  /\ calling
  /\ calling' = FALSE /\ (ret' = -2 \/ (dead /\ ret' = -1))
  /\ UNCHANGED <<tainted, dead, buf, req>>

BDNext == Begin \/ Refuse \/ Transfer \/ Break \/ Deliver \/ GiveUp

BDSpec == BDInit /\ [][BDNext]_bdVars

===========================================================================
