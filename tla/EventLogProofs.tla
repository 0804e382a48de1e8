--------------------------- MODULE EventLogProofs ---------------------------
(***************************************************************************)
(* Proofs about EventLog, for every set of payloads and all bounds.        *)
(***************************************************************************)
EXTENDS EventLog, DiskProofs

-----------------------------------------------------------------------------
(* The inductive invariant *)

IInv == Core /\ ReadsGood

(* A table only grows: no step of the log drops or changes an event. *)
LEMMA Grows ==
  ASSUME Core, [DiskNext]_diskVars
  PROVE  \A e \in DOMAIN db : e \in DOMAIN db' /\ db'[e] = db[e]
<1>1. CASE db' = db
  BY <1>1
<1>2. CASE CommitCb
  BY <1>2, CommitCbGrows DEF CommitCb
<1>3. db' = db \/ CommitCb
  BY DEF DiskNext, Plan, DiskPlan, SaveMeta, DiskSaveMeta, Boot, DiskBoot,
         CommitDone, DiskCommitDone, CommitFail, Read, ReadStart, ReadDone,
         Gone, DiskGone, Open, DiskOpen, diskVars, writeVars
<1>4. QED
  BY <1>1, <1>2, <1>3

(* Each step of a live log other than a read keeps the reads as they are,  *)
(* or drops them all.                                                      *)
LEMMA ReadsGoodStep ==
  ASSUME IInv, [DiskNext]_diskVars, red' = red \/ red' = <<>>
  PROVE  ReadsGood'
<1>1. CASE red' = <<>>
  BY <1>1 DEF ReadsGood
<1>2. CASE red' = red
  <2>1. SUFFICES ASSUME NEW i \in 1 .. Len(red) PROVE Good(db', red[i])
    BY <1>2 DEF ReadsGood
  <2>2. Good(db, red[i])
    BY DEF IInv, ReadsGood
  <2>3. \A e \in DOMAIN db : e \in DOMAIN db' /\ db'[e] = db[e]
    BY Grows DEF IInv
  <2>4. QED
    BY <2>2, <2>3 DEF Good
<1>3. QED
  BY <1>1, <1>2

(* u3_disk_read() asks for events that are in the table. *)
LEMMA ReadInv == IInv /\ Read => IInv'
<1>1. SUFFICES ASSUME IInv, liv, NEW e \in 1 .. dun, NEW len \in 1 .. MaxLen,
                      red = <<>>, red' = Asked(red, e, len),
                      UNCHANGED writeVars
               PROVE  IInv'
  BY DEF Read
<1> DEFINE r == [sat |-> "wait", eve |-> e, len |-> len, fac |-> <<>>]
<1>2. dun \in Nat /\ len \in Nat /\ e \in Nat
  BY <1>1, BoundAssumption DEF IInv, Core, DiskTypeOK
<1>3. r \in Reads
  <2>1. <<>> \in Seq(Fact)
    OBVIOUS
  <2>2. QED
    BY <1>2, <2>1 DEF Reads
<1>4. red' = <<r>>
  BY <1>1 DEF Asked
<1>5. Core'
  <2>1. red' \in Seq(Reads)
    BY <1>3, <1>4
  <2>2. QED
    BY <1>1, <2>1, ReadCore DEF IInv
<1>6. Good(db, r)
  <2>1. e \in DOMAIN db
    BY <1>1, <1>2 DEF IInv, Core, LogContiguous, AckIsDurable
  <2>2. QED
    BY <1>1, <1>2, <2>1 DEF Good
<1> HIDE DEF r
<1>7. ReadsGood'
  <2>1. db' = db
    BY <1>1 DEF writeVars
  <2>2. Len(red') = 1 /\ red'[1] = r
    BY <1>4
  <2>3. QED
    BY <1>6, <2>1, <2>2 DEF ReadsGood
<1>8. QED
  BY <1>5, <1>7 DEF IInv

(* u3_lmdb_read() collects what the table holds. *)
LEMMA ReadStartInv == IInv /\ ReadStart => IInv'
<1>1. SUFFICES ASSUME IInv, liv, DiskReadStart, UNCHANGED writeVars
               PROVE  IInv'
  BY DEF ReadStart
<1>2. red' \in Seq(Reads) /\ ReadsGood'
  BY <1>1, ReadStartGood DEF IInv, writeVars
<1>3. QED
  BY <1>1, <1>2, ReadCore DEF IInv

(* A delivered read leaves the others as they are. *)
LEMMA ReadDoneInv == IInv /\ ReadDone => IInv'
<1>1. SUFFICES ASSUME IInv, liv, red # <<>>, red' = Tail(red),
                      UNCHANGED writeVars
               PROVE  IInv'
  BY DEF ReadDone, Delivered
<1>2. red \in Seq(Reads)
  BY <1>1 DEF IInv, Core, DiskTypeOK
<1>3. /\ red' \in Seq(Reads) /\ Len(red') = Len(red) - 1 /\ Len(red) \in Nat
      /\ \A i \in 1 .. Len(red) - 1 : red'[i] = red[i + 1]
  BY <1>1, <1>2
<1>4. Core'
  BY <1>1, <1>3, ReadCore DEF IInv
<1>5. ReadsGood'
  <2>1. SUFFICES ASSUME NEW i \in 1 .. Len(red) - 1 PROVE Good(db', red'[i])
    BY <1>3 DEF ReadsGood
  <2>2. i + 1 \in 1 .. Len(red) /\ db' = db
    BY <1>1, <1>3 DEF writeVars
  <2>3. QED
    BY <1>1, <1>3, <2>2 DEF IInv, ReadsGood
<1>6. QED
  BY <1>4, <1>5 DEF IInv

(* The inductive invariant holds at first. *)
LEMMA InitInv == DiskInit => IInv
<1>1. SUFFICES ASSUME DiskInit PROVE ReadsGood
  BY InitCore DEF IInv, DiskInit
<1>2. Len(red) = 0
  BY <1>1 DEF DiskInit, DiskStart
<1>3. QED
  BY <1>2 DEF ReadsGood

(* A step that does nothing. *)
LEMMA StutterInv == IInv /\ UNCHANGED diskVars => IInv'
  BY StutterCore DEF IInv, ReadsGood, diskVars

(* The inductive invariant is kept by every step, one case per action. *)
LEMMA NextInv == IInv /\ [DiskNext]_diskVars => IInv'
<1>1. SUFFICES ASSUME IInv, [DiskNext]_diskVars PROVE IInv'
  OBVIOUS
<1>2. Core
  BY <1>1 DEF IInv
<1>3. ASSUME Core', red' = red \/ red' = <<>>
      PROVE  IInv'
  BY <1>1, <1>3, ReadsGoodStep DEF IInv
<1>4. red \in Seq(Reads)
  BY <1>2 DEF Core, DiskTypeOK
<1>5. CASE Plan
  BY <1>2, <1>3, <1>4, <1>5, PlanCore DEF Plan
<1>6. CASE SaveMeta
  BY <1>2, <1>3, <1>6, SaveMetaCore DEF SaveMeta
<1>7. CASE Boot
  <2>1. Core'
    BY <1>2, <1>4, <1>7, BootCore, BoundAssumption DEF Boot
  <2>2. QED
    BY <1>3, <1>7, <2>1 DEF Boot
<1>8. CASE CommitCb
  BY <1>2, <1>3, <1>8, CommitCbCore DEF CommitCb
<1>9. CASE CommitDone
  BY <1>2, <1>3, <1>4, <1>9, CommitDoneCore DEF CommitDone
<1>10. CASE CommitFail \/ Gone
  BY <1>2, <1>3, <1>10, GoneCore DEF CommitFail, Gone, DiskGone
<1>11. CASE Open
  BY <1>2, <1>3, <1>11, OpenCore DEF Open, DiskOpen
<1>12. CASE Read
  BY <1>1, <1>12, ReadInv
<1>13. CASE ReadStart
  BY <1>1, <1>13, ReadStartInv
<1>14. CASE ReadDone
  BY <1>1, <1>14, ReadDoneInv
<1>15. CASE UNCHANGED diskVars
  BY <1>1, <1>15, StutterInv
<1>16. QED
  BY <1>1, <1>4, <1>5, <1>6, <1>7, <1>8, <1>9, <1>10, <1>11, <1>12, <1>13,
     <1>14, <1>15 DEF DiskNext

(* The invariant holds in every reachable state. *)
LEMMA Invariance == DiskSpec => []IInv
  BY InitInv, NextInv, PTL DEF DiskSpec

-----------------------------------------------------------------------------
(* Theorems *)

(* Every variable of the log keeps its type, from any sequence of plans,   *)
(* writes, reads, deaths and restarts.                                     *)
THEOREM TypeCorrect == DiskSpec => []DiskTypeOK
<1>1. IInv => DiskTypeOK
  BY DEF IInv, Core
<1>2. QED
  BY <1>1, Invariance, PTL

(* The EVENTS table never has a gap, so the "read gap" of u3_lmdb_read()   *)
(* cannot occur and u3_lmdb_gulf() is the number of events.                *)
THEOREM Contiguous == DiskSpec => []LogContiguous
<1>1. IInv => LogContiguous
  BY DEF IInv, Core
<1>2. QED
  BY <1>1, Invariance, PTL

(* The assertions of u3_disk_plan() and _disk_batch() on the queue and on  *)
(* the write in flight hold, however plans and writes interleave.          *)
THEOREM Asserts == DiskSpec => []DiskAsserts
<1>1. IInv => DiskAsserts
  BY DEF IInv, Core
<1>2. QED
  BY <1>1, Invariance, PTL

(* The write thread is idle only when there is nothing to write: no wakeup *)
(* of _disk_commit() is lost.                                              *)
THEOREM IdleMeansEmpty == DiskSpec => []NoIdleBacklog
<1>1. IInv => NoIdleBacklog
  BY DEF IInv, Core
<1>2. QED
  BY <1>1, Invariance, PTL

(* dun_d never runs ahead of the table, in a process or across deaths of   *)
(* processes.                                                              *)
THEOREM Durable == DiskSpec => []AckIsDurable
<1>1. IInv => AckIsDurable
  BY DEF IInv, Core
<1>2. QED
  BY <1>1, Invariance, PTL

(* A log with events has all of its metadata, wherever the boot died. *)
THEOREM MetaFirst == DiskSpec => []MetaBeforeEvents
<1>1. IInv => MetaBeforeEvents
  BY DEF IInv, Core
<1>2. QED
  BY <1>1, Invariance, PTL

(* All of them together: the log is sound in every state. *)
THEOREM Sound == DiskSpec => []LogSound
<1>1. LogContiguous /\ DiskAsserts /\ NoIdleBacklog /\ AckIsDurable
        /\ MetaBeforeEvents => LogSound
  BY DEF LogSound
<1>2. QED
  BY <1>1, Contiguous, Asserts, IdleMeansEmpty, Durable, MetaFirst, PTL

(* Reads of acknowledged events succeed and return what was committed,     *)
(* whatever is written while they are under way.                           *)
THEOREM ReadsAreFaithful == DiskSpec => []ReadsFaithful
<1>1. ASSUME IInv PROVE ReadsFaithful
  <2>1. SUFFICES ASSUME NEW i \in 1 .. Len(red)
                 PROVE  /\ Readable(red[i].eve, red[i].len)
                        /\ red[i].sat = "held" =>
                             /\ 0 < Len(red[i].fac)
                             /\ Len(red[i].fac) <= red[i].len
                             /\ \A k \in 1 .. Len(red[i].fac) :
                                  /\ red[i].fac[k].eve = red[i].eve + k - 1
                                  /\ red[i].fac[k].job = db[red[i].eve + k - 1]
    BY DEF ReadsFaithful
  <2>2. Good(db, red[i])
    BY <1>1 DEF IInv, ReadsGood
  <2>3. Gulf \in Nat /\ DOMAIN db = 1 .. Gulf /\ red[i].eve \in DOMAIN db
    BY <1>1, <2>2 DEF IInv, Core, LogContiguous, Good
  <2>4. Readable(red[i].eve, red[i].len)
    BY <2>3 DEF Readable
  <2>5. QED
    BY <2>2, <2>4 DEF Good
<1>2. IInv => ReadsFaithful
  BY <1>1
<1>3. QED
  BY <1>2, Invariance, PTL

-----------------------------------------------------------------------------
(* Refinement *)

(* The abstract log of a table without gaps. *)
LEMMA EventsIs ==
  ASSUME IInv
  PROVE  Events \in Seq(Job) /\ Len(Events) = Gulf /\ Gulf \in Nat
<1>1. Gulf \in Nat /\ DOMAIN db = 1 .. Gulf /\ db \in [DOMAIN db -> Job]
  BY DEF IInv, Core, LogContiguous, DiskTypeOK
<1>2. Events \in [1 .. Gulf -> Job]
  BY <1>1 DEF Events
<1>3. QED
  BY <1>1, <1>2

(* The event log implements DurableLog: batches are appended whole, no     *)
(* event is lost or changed, an acknowledgement never recedes, across any  *)
(* number of failed writes, deaths and restarts.                           *)
THEOREM Refinement == DiskSpec => ImplementsDurableLog
<1>1. DiskInit => DL!Init
  <2>1. SUFFICES ASSUME DiskInit PROVE Events = <<>> /\ dun = 0
    BY DEF DL!Init
  <2>2. DOMAIN db = {} /\ dun = 0
    BY <2>1 DEF DiskInit, DiskStart
  <2>3. Gulf = 0
    BY <2>2 DEF Gulf, LastKey
  <2>4. QED
    BY <2>2, <2>3 DEF Events
<1>2. IInv /\ IInv' /\ [DiskNext]_diskVars => [DL!Next]_(DL!logVars)
  <2>1. SUFFICES ASSUME IInv, IInv', [DiskNext]_diskVars
                 PROVE  \/ DL!Extend \/ DL!Acknowledge
                        \/ Events' = Events /\ dun' = dun
    BY DEF DL!Next, DL!logVars
  <2>2. /\ Events \in Seq(Job) /\ Len(Events) = Gulf /\ Gulf \in Nat
        /\ DOMAIN db = 1 .. Gulf
    BY <2>1, EventsIs DEF IInv, Core, LogContiguous
  <2>3. /\ Events' \in Seq(Job) /\ Len(Events') = Gulf' /\ Gulf' \in Nat
        /\ DOMAIN db' = 1 .. Gulf'
    <3>1. (Events \in Seq(Job) /\ Len(Events) = Gulf /\ Gulf \in Nat)'
      BY <2>1, EventsIs, PTL
    <3>2. QED
      BY <2>1, <3>1 DEF IInv, Core, LogContiguous
  <2>4. CASE db' = db /\ dun' = dun
    BY <2>4 DEF Events, Gulf
  <2>5. CASE CommitCb /\ db' # db
    <3>1. \A e \in 1 .. Gulf : e \in 1 .. Gulf' /\ db'[e] = db[e]
      BY <2>1, <2>2, <2>3, Grows DEF IInv
    <3>2. dun' = dun /\ liv /\ liv' /\ req.sat = "wait" /\ req'.sat = "good"
          /\ req'.job = req.job
      BY <2>1, <2>5 DEF CommitCb, DiskCommitCb, IInv, Core, DiskTypeOK, Reqs
    <3>3. 0 < Len(req.job) /\ Len(req.job) \in Nat /\ dun \in Nat
      BY <2>1, <3>2
         DEF IInv, Core, DiskAsserts, WriteIsPrefix, DiskTypeOK, Reqs
    <3>4. Gulf = dun /\ Gulf' = dun + Len(req.job)
      BY <2>1, <3>2 DEF IInv, Core, AckIsDurable
    <3>5. \A e \in 1 .. Len(Events) : Events'[e] = Events[e]
      BY <2>2, <3>1 DEF Events
    <3>6. Len(Events') > Len(Events)
      BY <2>2, <2>3, <3>3, <3>4
    <3>7. QED
      BY <2>3, <3>2, <3>5, <3>6 DEF DL!Extend
  <2>6. CASE db' = db /\ dun' # dun /\ (CommitDone \/ Open)
    <3>1. Events' = Events /\ Gulf' = Gulf
      BY <2>6 DEF Events, Gulf
    <3>2. dun \in Nat /\ dun' \in Nat /\ dun <= Gulf /\ dun' <= Gulf
      BY <2>1, <3>1 DEF IInv, Core, DiskTypeOK, AckIsDurable
    <3>3. dun <= dun'
      <4>1. CASE Open
        BY <3>2, <4>1 DEF Open, DiskOpen
      <4>2. CASE CommitDone
        <5> DEFINE n == Len(req.job)
        <5>1. dun' = req.eve + n - 1 /\ req.sat = "good"
          BY <4>2 DEF CommitDone, DiskCommitDone
        <5>2. req.eve = dun + 1 /\ n \in Nat
          BY <2>1, <5>1
             DEF IInv, Core, DiskAsserts, WriteIsPrefix, DiskTypeOK, Reqs
        <5> HIDE DEF n
        <5>3. QED
          BY <3>2, <5>1, <5>2
      <4>3. QED
        BY <2>6, <4>1, <4>2
    <3>4. QED
      BY <2>2, <2>6, <3>1, <3>2, <3>3 DEF DL!Acknowledge
  <2>7. \/ db' = db /\ dun' = dun
        \/ CommitCb /\ db' # db
        \/ db' = db /\ (CommitDone \/ Open)
    BY <2>1
       DEF DiskNext, Plan, DiskPlan, SaveMeta, DiskSaveMeta, Boot, DiskBoot,
           CommitCb, DiskCommitCb, CommitDone, DiskCommitDone, CommitFail,
           Read, ReadStart, ReadDone, Gone, DiskGone, Open, DiskOpen,
           diskVars, writeVars
  <2>8. QED
    BY <2>4, <2>5, <2>6, <2>7
<1>3. QED
  BY <1>1, <1>2, Invariance, PTL DEF DiskSpec, ImplementsDurableLog, DL!Spec

-----------------------------------------------------------------------------
(* Planned events keep their place *)

(* A batch in completion stays in the table as it was queued. *)
LEMMA WrittenStep ==
  ASSUME IInv, Written, [DiskNext]_diskVars
  PROVE  Written'
<1>1. CASE CommitCb
  BY <1>1, CommitCbSeen DEF CommitCb, IInv
<1>2. CASE CommitDone
  BY <1>2, CommitDoneSeen DEF CommitDone, IInv
<1>3. CASE Plan \/ Boot
  <2>1. db' = db /\ dun' = dun /\ (req'.sat = "good" => req' = req)
    BY <1>3, CommitNotGood, ZenonT(60) DEF Plan, DiskPlan, Boot, DiskBoot
  <2>2. QED
    BY <2>1 DEF Written
<1>4. CASE CommitFail \/ Gone \/ Open
  BY <1>4 DEF CommitFail, Gone, DiskGone, Open, DiskOpen, Written, Idle
<1>5. CASE UNCHANGED <<db, dun, req>>
  BY <1>5 DEF Written
<1>6. QED
  BY <1>1, <1>2, <1>3, <1>4, <1>5
     DEF DiskNext, SaveMeta, DiskSaveMeta, Read, ReadStart, ReadDone,
         diskVars, writeVars

(* The queue and the table as one sequence of events. *)
LEMMA PlannedKeptStep ==
  ASSUME IInv, Written, [DiskNext]_diskVars, liv, liv'
  PROVE  sen <= sen' /\ \A e \in 1 .. sen : Seen(e)' = Seen(e)
<1>1. sen \in Nat /\ Core
  BY DEF IInv, Core, DiskTypeOK
<1>2. ASSUME UNCHANGED <<db, sen, dun, put>>
      PROVE  sen <= sen' /\ \A e \in 1 .. sen : Seen(e)' = Seen(e)
  BY <1>1, <1>2 DEF Seen
<1>3. CASE Plan
  <2>1. PICK j \in Job : DiskPlan([eve |-> sen + 1, job |-> j])
    BY <1>3 DEF Plan
  <2>2. [eve |-> sen + 1, job |-> j] \in Fact
    BY <1>1 DEF Fact
  <2>3. sen' = sen + 1
    BY <2>1 DEF DiskPlan
  <2>4. QED
    BY <1>1, <2>1, <2>2, <2>3, PlanSeen
<1>4. CASE Boot
  <2>1. sen = 0 /\ sen' \in Nat
    <3>1. DiskTypeOK'
      BY NextInv DEF IInv, Core
    <3>2. QED
      BY <1>4, <3>1 DEF Boot, DiskTypeOK
  <2>2. QED
    BY <2>1
<1>5. CASE CommitCb
  BY <1>1, <1>5, CommitCbSeen DEF CommitCb, DiskCommitCb
<1>6. CASE CommitDone
  BY <1>1, <1>6, CommitDoneSeen DEF CommitDone, DiskCommitDone
<1>7. QED
  BY <1>2, <1>3, <1>4, <1>5, <1>6
     DEF DiskNext, SaveMeta, DiskSaveMeta, CommitFail, Gone, DiskGone, Open,
         Read, ReadStart, ReadDone, diskVars, writeVars

(* An event keeps its number and its payload from the moment it is planned *)
(* until its process ends, across the batch that writes it and the         *)
(* acknowledgement that takes it out of the queue.                         *)
THEOREM Kept == DiskSpec => PlannedKept
<1>1. DiskInit => Written
  BY DEF DiskInit, DiskStart, Written, Idle
<1>2. IInv /\ Written /\ [DiskNext]_diskVars => Written'
  BY WrittenStep
<1>3. IInv /\ Written /\ [DiskNext]_diskVars =>
        [liv /\ liv' =>
           sen <= sen' /\ \A e \in 1 .. sen : Seen(e)' = Seen(e)]_diskVars
  BY PlannedKeptStep
<1>4. QED
  BY <1>1, <1>2, <1>3, Invariance, PTL DEF DiskSpec, PlannedKept
=============================================================================
