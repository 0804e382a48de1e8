------------------------------ MODULE EventLog ------------------------------
(***************************************************************************)
(* The event log of Disk driven by an arbitrary client, and the abstract   *)
(* log it implements.                                                      *)
(***************************************************************************)
EXTENDS Disk

CONSTANTS
  MaxEvents,   \* bound on the number of events ever planned
  MaxLen       \* bound on the length of a boot sequence and of a read

ASSUME BoundAssumption ==
  /\ MaxEvents \in Nat
  /\ MaxLen \in Nat

Plan ==
  /\ liv
  /\ meta = Len(MetaKeys)
  /\ 0 < sen
  /\ sen < MaxEvents
  /\ \E j \in Job : DiskPlan([eve |-> sen + 1, job |-> j])
  /\ UNCHANGED red

SaveMeta == liv /\ sen = 0 /\ DiskSaveMeta /\ UNCHANGED red

(* _pier_boot_plan(): a boot sequence, once the metadata is saved. *)
Boot ==
  /\ liv
  /\ sen = 0
  /\ meta = Len(MetaKeys)
  /\ \E n \in 1 .. MaxLen : \E s \in [1 .. n -> Job] :
       n <= MaxEvents /\ DiskBoot(s)
  /\ UNCHANGED red

CommitCb == liv /\ DiskCommitCb /\ UNCHANGED red

CommitDone == liv /\ DiskCommitDone /\ UNCHANGED red

(* Client reads name events the log has acknowledged, one at a time.       *)
Read ==
  /\ liv
  /\ red = <<>>
  /\ \E e \in 1 .. dun : \E len \in 1 .. MaxLen :
       red' = Asked(red, e, len)
  /\ UNCHANGED writeVars

ReadStart == liv /\ DiskReadStart /\ UNCHANGED writeVars

ReadDone == liv /\ Delivered /\ red' = Tail(red) /\ UNCHANGED writeVars

(* _disk_commit_done() of a failed write: write_bail_f is                  *)
(* _pier_on_disk_write_bail(), and u3_pier_bail() ends the process.        *)
CommitFail == liv /\ req.sat = "fail" /\ DiskGone

(* A crash, an orderly exit or a failed read (read_bail_f) at any time.    *)
Gone == liv /\ DiskGone

Open == ~liv /\ DiskOpen

DiskNext ==
  \/ Plan \/ SaveMeta \/ Boot \/ CommitCb \/ CommitDone
  \/ CommitFail \/ Read \/ ReadStart \/ ReadDone \/ Gone \/ Open

DiskInit == DiskStart

(* The write thread and the loop of a live process keep running.           *)
DiskFairness ==
  /\ WF_diskVars(CommitCb)
  /\ WF_diskVars(CommitDone)
  /\ WF_diskVars(CommitFail)
  /\ WF_diskVars(ReadStart)
  /\ WF_diskVars(ReadDone)

DiskSpec == DiskInit /\ [][DiskNext]_diskVars

DiskFairSpec == DiskSpec /\ DiskFairness

-----------------------------------------------------------------------------
(* Properties *)

(* Every planned event is acknowledged unless the process goes away, also  *)
(* the ones planned while a write is in flight, which only the trailing    *)
(* _disk_commit() of _disk_commit_done() picks up.                         *)
Drains == \A n \in 1 .. MaxEvents : (liv /\ sen >= n) ~> (~liv \/ dun >= n)

(* The log as the sequence of its events. *)
Events == [e \in 1 .. Gulf |-> db[e]]

DL == INSTANCE DurableLog WITH log <- Events, ack <- dun

(* The event log implements the durable log: batches are appended whole,   *)
(* nothing once in the table is lost or changed, and what was acknowledged *)
(* before a crash is found again after it.                                 *)
ImplementsDurableLog == DL!Spec
=============================================================================
