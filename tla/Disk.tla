------------------------------- MODULE Disk -------------------------------
(***************************************************************************)
(* The event log of a pier: pkg/vere/disk.c over the LMDB wrapper          *)
(* pkg/vere/db/lmdb.c.                                                     *)
(*                                                                         *)
(* Events are planned on the main thread, collected in the queue put_u,    *)
(* and written by one worker thread at a time, each time as one LMDB       *)
(* transaction holding every event planned so far.  Reads run off zero     *)
(* timers of the same loop.  The process may die between any two steps.    *)
(*                                                                         *)
(* This module holds the log's state and its operations; EventLog drives   *)
(* them with an arbitrary client and Pier with the callbacks of pier.c.    *)
(* The operations of the write side leave the reads alone, and those of    *)
(* the read side constrain nothing else, so that one handler can do both.  *)
(* An event's payload is a member of Job: jam/cue and the mug prefix of    *)
(* _disk_serialize_v1() are left out.                                      *)
(***************************************************************************)
EXTENDS Integers, Sequences

CONSTANT Job   \* event payloads

ASSUME JobAssumption == Job # {}

VARIABLES
  db,    \* the EVENTS table: a function from the keys present to payloads
  meta,  \* the keys present in the META table, in the order they are saved
  liv,   \* log_u->liv_o: this process has the log open
  sen,   \* log_u->sen_d: commit requested
  dun,   \* log_u->dun_d: committed
  put,   \* log_u->put_u: facts not yet known to be committed, exit first
  req,   \* log_u->ted_o with the struct _cd_save of the write thread
  red    \* log_u->red_u: outstanding reads, oldest first

writeVars == <<db, meta, liv, sen, dun, put, req>>

diskVars == <<db, meta, liv, sen, dun, put, req, red>>

MetaKeys == <<"version", "who", "fake", "life">>

Fact == [eve : Nat, job : Job]

Idle == [sat |-> "idle", eve |-> 0, job |-> <<>>]

Reqs == [sat : {"idle", "wait", "good", "fail"}, eve : Nat, job : Seq(Job)]

Reads == [sat : {"wait", "held"}, eve : Nat, len : Nat, fac : Seq(Fact)]

(* Types of the tables, the counters of u3_disk, its queue and requests. *)
DiskTypeOK ==
  /\ DOMAIN db \subseteq Nat
  /\ db \in [DOMAIN db -> Job]
  /\ meta \in 0 .. Len(MetaKeys)
  /\ liv \in BOOLEAN
  /\ sen \in Nat
  /\ dun \in Nat
  /\ put \in Seq(Fact)
  /\ req \in Reqs
  /\ red \in Seq(Reads)

-----------------------------------------------------------------------------
(* lmdb.c *)

(* u3_lmdb_gulf(): the last key of the table, 0 when it is empty.          *)
LastKey(f) ==
  IF DOMAIN f = {} THEN 0
  ELSE CHOOSE n \in DOMAIN f : \A m \in DOMAIN f : m <= n

Gulf == LastKey(db)

(* u3_lmdb_save(): the keys of a batch starting at e, which MDB_NOOVERWRITE *)
(* refuses as a whole when one of them is present.                         *)
Keys(e, s) == {e + i - 1 : i \in 1 .. Len(s)}

Saved(e, s) ==
  [k \in DOMAIN db \cup Keys(e, s) |->
     IF k \in Keys(e, s) THEN s[k - e + 1] ELSE db[k]]

(* u3_lmdb_read(): a contiguous run of keys from e, at most len of them.   *)
(* It ends early only at the end of the table; a gap is an error.          *)
Readable(e, len) ==
  /\ e \in DOMAIN db
  /\ \A k \in DOMAIN db :
       (e < k /\ k < e + len) => \A j \in e .. k : j \in DOMAIN db

(* Mutant of ReadFacts: facts numbered from the event after e. *)
ReadFactsAfter(e, len) ==
  LET n == CHOOSE n \in 0 .. len :
             /\ \A i \in 0 .. n - 1 : e + i \in DOMAIN db
             /\ n < len => e + n \notin DOMAIN db
  IN  [i \in 1 .. n |-> [eve |-> e + i, job |-> db[e + i - 1]]]

ReadFacts(e, len) ==
  LET n == CHOOSE n \in 0 .. len :
             /\ \A i \in 0 .. n - 1 : e + i \in DOMAIN db
             /\ n < len => e + n \notin DOMAIN db
  IN  [i \in 1 .. n |-> [eve |-> e + i - 1, job |-> db[e + i - 1]]]

-----------------------------------------------------------------------------
(* disk.c *)

(* Mutant of Batch: the queue walked from its entry, not from its exit. *)
BatchBackward(p, len) ==
  [sat |-> "wait", eve |-> p[1].eve,
   job |-> [i \in 1 .. len |-> p[len + 1 - i].job]]

(* _disk_batch(), _disk_commit_start(): a write of the first len facts.    *)
Batch(p, len) ==
  [sat |-> "wait", eve |-> p[1].eve, job |-> [i \in 1 .. len |-> p[i].job]]

(* _disk_commit(): the request after a call made with request r, queue p,  *)
(* s events planned and d committed: commit all available events, if idle. *)
Commit(r, p, s, d) ==
  IF r.sat = "idle" /\ s > d THEN Batch(p, s - d) ELSE r

(* The facts of a sequence of payloads that follow event number e.         *)
Facts(e, s) == [i \in 1 .. Len(s) |-> [eve |-> e + i, job |-> s[i]]]

(* u3_disk_plan(): enqueue completed event for persistence.                *)
DiskPlan(f) ==
  /\ sen' = sen + 1
  /\ put' = Append(put, f)
  /\ req' = Commit(req, put', sen', dun)
  /\ UNCHANGED <<db, meta, liv, dun>>

(* One LMDB transaction of u3_disk_save_meta().                            *)
DiskSaveMeta ==
  /\ meta < Len(MetaKeys)
  /\ meta' = meta + 1
  /\ UNCHANGED <<db, liv, sen, dun, put, req>>

(* u3_disk_boot_plan() of every event of a boot sequence, then             *)
(* u3_disk_boot_save().                                                    *)
DiskBoot(s) ==
  /\ sen' = sen + Len(s)
  /\ put' = put \o Facts(sen, s)
  /\ req' = Commit(req, put', sen', dun)
  /\ UNCHANGED <<db, meta, liv, dun>>

(* Mutant of DiskCommitCb: the result of u3_lmdb_save() is not looked at. *)
DiskCommitCbBlind ==
  /\ req.sat = "wait"
  /\ db' \in {db, Saved(req.eve, req.job)}
  /\ req' = [req EXCEPT !.sat = "good"]
  /\ UNCHANGED <<meta, liv, sen, dun, put>>

(* _disk_commit_cb(), on the write thread: one transaction, which commits  *)
(* as a whole or fails as a whole.                                         *)
DiskCommitCb ==
  /\ req.sat = "wait"
  /\ \/ /\ DOMAIN db \cap Keys(req.eve, req.job) = {}
        /\ db' = Saved(req.eve, req.job)
        /\ req' = [req EXCEPT !.sat = "good"]
     \/ /\ db' = db
        /\ req' = [req EXCEPT !.sat = "fail"]
  /\ UNCHANGED <<meta, liv, sen, dun, put>>

(* The loop of _disk_commit_done() that frees facts up to event d.         *)
Undone(p, d) ==
  LET k == CHOOSE k \in 0 .. Len(p) :
             /\ \A i \in 1 .. k : p[i].eve <= d
             /\ k < Len(p) => p[k + 1].eve > d
  IN  SubSeq(p, k + 1, Len(p))

(* Mutant of DiskCommitDone: no trailing _disk_commit(). *)
DiskCommitDoneOnly ==
  /\ req.sat = "good"
  /\ dun' = req.eve + Len(req.job) - 1
  /\ put' = Undone(put, dun')
  /\ req' = Idle
  /\ UNCHANGED <<db, meta, liv, sen>>

(* _disk_commit_after_cb() with _disk_commit_done() of a successful write: *)
(* acknowledge, drop what was written, commit what was planned meanwhile.  *)
DiskCommitDone ==
  /\ req.sat = "good"
  /\ dun' = req.eve + Len(req.job) - 1
  /\ put' = Undone(put, dun')
  /\ req' = Commit(Idle, put', sen, dun')
  /\ UNCHANGED <<db, meta, liv, sen>>

(* u3_disk_read(): the reads after a request of len events starting at e.  *)
Asked(r, e, len) ==
  Append(r, [sat |-> "wait", eve |-> e, len |-> len, fac |-> <<>>])

(* _disk_read_start_cb() of a successful u3_lmdb_read().                   *)
DiskReadStart ==
  /\ red # <<>>
  /\ red[1].sat = "wait"
  /\ Readable(red[1].eve, red[1].len)
  /\ red' = [red EXCEPT ![1] =
                [@ EXCEPT !.sat = "held",
                          !.fac = ReadFacts(red[1].eve, red[1].len)]]

(* _disk_read_done_cb(): the facts of the oldest read are there to deliver.*)
Delivered ==
  /\ red # <<>>
  /\ red[1].sat = "held"

(* The process goes away: u3_disk_exit() of a clean shutdown or of         *)
(* u3_pier_bail(), or a crash.  Memory and the write thread are gone; a    *)
(* transaction is in the table or it is not.  The counters keep the last   *)
(* value the dead process held, which no code reads.                       *)
DiskGone ==
  /\ liv' = FALSE
  /\ put' = <<>>
  /\ req' = Idle
  /\ red' = <<>>
  /\ UNCHANGED <<db, meta, sen, dun>>

(* Mutants of DiskOpen: the last event taken for the next one; the counter *)
(* not set from the table.                                                 *)
DiskOpenBehind ==
  /\ liv' = TRUE
  /\ dun' = Gulf - 1
  /\ sen' = dun'
  /\ put' = <<>>
  /\ req' = Idle
  /\ red' = <<>>
  /\ UNCHANGED <<db, meta>>

DiskOpenFresh ==
  /\ liv' = TRUE
  /\ dun' = 0
  /\ sen' = dun'
  /\ put' = <<>>
  /\ req' = Idle
  /\ red' = <<>>
  /\ UNCHANGED <<db, meta>>

(* u3_disk_init() of the next process.                                     *)
DiskOpen ==
  /\ liv' = TRUE
  /\ dun' = Gulf
  /\ sen' = dun'
  /\ put' = <<>>
  /\ req' = Idle
  /\ red' = <<>>
  /\ UNCHANGED <<db, meta>>

DiskStart ==
  /\ db = [k \in {} |-> 0]
  /\ meta = 0
  /\ liv = FALSE
  /\ sen = 0
  /\ dun = 0
  /\ put = <<>>
  /\ req = Idle
  /\ red = <<>>

-----------------------------------------------------------------------------
(* Properties *)

(* The table holds events 1 to n without a gap, whatever batches failed    *)
(* and wherever the process died, so that u3_lmdb_read() never meets the   *)
(* "read gap" it checks for and u3_lmdb_gulf() counts the events.          *)
LogContiguous == Gulf \in Nat /\ DOMAIN db = 1 .. Gulf

(* put_u holds exactly the events dun_d+1 to sen_d in order, and a write   *)
(* in flight is a prefix of it: the assertions of u3_disk_plan() and       *)
(* _disk_batch() hold even though events are planned while the write       *)
(* thread runs.                                                            *)
QueueIsGap ==
  liv =>
    /\ Len(put) = sen - dun
    /\ \A i \in 1 .. Len(put) : put[i].eve = dun + i

WriteIsPrefix ==
  req.sat # "idle" =>
    /\ req.eve = dun + 1
    /\ 0 < Len(req.job) /\ Len(req.job) <= Len(put)
    /\ \A i \in 1 .. Len(req.job) : req.job[i] = put[i].job

DiskAsserts == QueueIsGap /\ WriteIsPrefix

(* An idle log has nothing to write: whatever was planned while the thread *)
(* was writing is picked up when it is done, so that no event waits for    *)
(* the next one to be planned.                                             *)
NoIdleBacklog == (liv /\ req.sat = "idle") => put = <<>>

(* An acknowledged event is in the table: dun_d is never ahead of LMDB, in *)
(* this process or after any sequence of deaths and restarts; it is behind *)
(* by exactly the batch the thread has committed and the loop not yet      *)
(* heard of.                                                               *)
AckIsDurable ==
  /\ dun <= Gulf
  /\ liv => Gulf = IF req.sat = "good" THEN dun + Len(req.job) ELSE dun

(* The payload at position e of the log as this process sees it: committed *)
(* or still queued.                                                        *)
Seen(e) == IF e <= dun THEN db[e] ELSE put[e - dun].job

(* While a process lives, no event it has planned changes its number or    *)
(* its payload on the way from the queue to the table.                     *)
PlannedKept ==
  [][liv /\ liv' => sen <= sen' /\ \A e \in 1 .. sen : Seen(e)' = Seen(e)]_diskVars

(* A completed read holds what the table holds, from the event asked for,  *)
(* without a gap; and no read of an acknowledged event fails.              *)
ReadsFaithful ==
  \A i \in 1 .. Len(red) :
    /\ Readable(red[i].eve, red[i].len)
    /\ red[i].sat = "held" =>
         /\ 0 < Len(red[i].fac) /\ Len(red[i].fac) <= red[i].len
         /\ \A k \in 1 .. Len(red[i].fac) :
              /\ red[i].fac[k].eve = red[i].eve + k - 1
              /\ red[i].fac[k].job = db[red[i].eve + k - 1]

(* A pier with events has all of its metadata: wherever a first boot was   *)
(* interrupted, u3_disk_read_meta() cannot refuse a pier whose log is not  *)
(* empty.                                                                  *)
MetaBeforeEvents == DOMAIN db # {} => meta = Len(MetaKeys)

(* The log is sound in every state of any history of plans, failed writes  *)
(* and deaths: gapless, as its assertions expect, never idle with work to  *)
(* do, never ahead of the table, and complete in its metadata.             *)
LogSound ==
  /\ LogContiguous
  /\ DiskAsserts
  /\ NoIdleBacklog
  /\ AckIsDurable
  /\ MetaBeforeEvents
=============================================================================
