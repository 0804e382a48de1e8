----------------------------- MODULE DiskProofs -----------------------------
(***************************************************************************)
(* What every operation of Disk keeps, for every set of payloads, whatever *)
(* client calls it: the lemmas that the proofs about EventLog and about    *)
(* Pier rest on.                                                           *)
(***************************************************************************)
EXTENDS Disk, SequenceTheorems, TLAPS

-----------------------------------------------------------------------------
(* Lemmas about the operators of Disk *)

(* The last key of a table without gaps is the number of its keys. *)
LEMMA LastKeyIs ==
  ASSUME NEW f, NEW n \in Nat, DOMAIN f = 1 .. n
  PROVE  LastKey(f) = n
<1>1. CASE n = 0
  BY <1>1 DEF LastKey
<1>2. CASE n > 0
  <2>1. n \in DOMAIN f /\ \A m \in DOMAIN f : m <= n
    BY <1>2
  <2>2. /\ LastKey(f) \in DOMAIN f
        /\ \A m \in DOMAIN f : m <= LastKey(f)
    BY <2>1 DEF LastKey
  <2>3. QED
    BY <2>1, <2>2
<1>3. QED
  BY <1>1, <1>2

(* The facts left of a contiguous queue that starts after event b, once    *)
(* its first n are committed.                                              *)
LEMMA UndoneIs ==
  ASSUME NEW p \in Seq(Fact), NEW b \in Nat, NEW n \in 0 .. Len(p),
         \A i \in 1 .. Len(p) : p[i].eve = b + i
  PROVE  Undone(p, b + n) = SubSeq(p, n + 1, Len(p))
<1> DEFINE Q(k) == /\ \A i \in 1 .. k : p[i].eve <= b + n
                   /\ k < Len(p) => p[k + 1].eve > b + n
<1>1. Q(n)
  <2>1. Len(p) \in Nat
    OBVIOUS
  <2>2. \A i \in 1 .. n : p[i].eve <= b + n
    <3>1. TAKE i \in 1 .. n
    <3>2. i \in 1 .. Len(p)
      BY <2>1
    <3>3. p[i].eve = b + i
      BY <3>2
    <3>4. QED
      BY <3>3, <2>1
  <2>3. n < Len(p) => p[n + 1].eve > b + n
    <3>1. HAVE n < Len(p)
    <3>2. n + 1 \in 1 .. Len(p)
      BY <2>1, <3>1
    <3>3. p[n + 1].eve = b + (n + 1)
      BY <3>2
    <3>4. QED
      BY <3>3
  <2>4. QED
    BY <2>2, <2>3
<1>2. ASSUME NEW k \in 0 .. Len(p), Q(k)
      PROVE  k = n
  <2>1. CASE k < n
    BY <1>2, <2>1
  <2>2. CASE k > n
    <3>1. p[k].eve <= b + n /\ p[k].eve = b + k
      BY <1>2, <2>2
    <3>2. QED
      BY <3>1, <2>2
  <2>3. QED
    BY <2>1, <2>2
<1>3. (CHOOSE k \in 0 .. Len(p) : Q(k)) = n
  BY <1>1, <1>2
<1>4. QED
  BY <1>3 DEF Undone

(* The events of queue p from event d + 1 on, and a write r of its first   *)
(* events, if there is one.                                                *)
Gap(p, d) == \A i \in 1 .. Len(p) : p[i].eve = d + i

Prefix(r, p, d) ==
  r.sat # "idle" =>
    /\ r.eve = d + 1
    /\ 0 < Len(r.job) /\ Len(r.job) <= Len(p)
    /\ \A i \in 1 .. Len(r.job) : r.job[i] = p[i].job

(* What is left of the queue after its first n facts is again contiguous.  *)
LEMMA RestIs ==
  ASSUME NEW p \in Seq(Fact), NEW b \in Nat, NEW n \in 0 .. Len(p), Gap(p, b)
  PROVE  /\ Undone(p, b + n) \in Seq(Fact)
         /\ Len(Undone(p, b + n)) = Len(p) - n
         /\ \A i \in 1 .. Len(p) - n : Undone(p, b + n)[i] = p[n + i]
         /\ Gap(Undone(p, b + n), b + n)
<1> DEFINE q == SubSeq(p, n + 1, Len(p))
<1>1. Undone(p, b + n) = q
  BY UndoneIs DEF Gap
<1>2. Len(p) \in Nat /\ n \in Nat /\ n <= Len(p)
  OBVIOUS
<1>3. /\ q \in Seq(Fact)
      /\ Len(q) = Len(p) - n
      /\ \A i \in 1 .. Len(p) - n : q[i] = p[n + i]
  <2>1. q \in Seq(Fact)
    BY <1>2
  <2>2. Len(q) = Len(p) - n
    BY <1>2
  <2>3. ASSUME NEW i \in 1 .. Len(p) - n
        PROVE  q[i] = p[n + i]
    BY <1>2
  <2>4. QED
    BY <2>1, <2>2, <2>3
<1> HIDE DEF q
<1>4. ASSUME NEW i \in 1 .. Len(q)
      PROVE  q[i].eve = (b + n) + i
  <2>1. n + i \in 1 .. Len(p) /\ i \in 1 .. Len(p) - n
    BY <1>2, <1>3
  <2>2. p[n + i].eve = b + (n + i) /\ q[i] = p[n + i]
    BY <1>3, <2>1 DEF Gap
  <2>3. QED
    BY <1>2, <2>2
<1>5. QED
  BY <1>1, <1>3, <1>4 DEF Gap

(* _disk_commit() starts a write of the whole queue if none is running,    *)
(* and leaves a running one alone: it stays a prefix of the queue, and is  *)
(* idle only when the queue is empty.                                      *)
LEMMA CommitIs ==
  ASSUME NEW p \in Seq(Fact), NEW d \in Nat, NEW r \in Reqs,
         Gap(p, d), Prefix(r, p, d)
  PROVE  /\ Commit(r, p, d + Len(p), d) \in Reqs
         /\ Prefix(Commit(r, p, d + Len(p), d), p, d)
         /\ Commit(r, p, d + Len(p), d).sat = "idle" => p = <<>>
         /\ r.sat # "idle" => Commit(r, p, d + Len(p), d) = r
         /\ r.sat = "idle" => Commit(r, p, d + Len(p), d).sat # "good"
<1>1. Len(p) \in Nat
  OBVIOUS
<1>2. CASE r.sat = "idle" /\ Len(p) > 0
  <2> DEFINE c == Batch(p, Len(p))
  <2>1. Commit(r, p, d + Len(p), d) = c
    <3>1. d + Len(p) > d /\ (d + Len(p)) - d = Len(p)
      BY <1>1, <1>2
    <3>2. QED
      BY <1>2, <3>1 DEF Commit
  <2>2. \A i \in 1 .. Len(p) : p[i] \in Fact
    OBVIOUS
  <2>3. [i \in 1 .. Len(p) |-> p[i].job] \in Seq(Job)
    BY <1>1, <2>2 DEF Fact
  <2>4. p[1].eve = d + 1
    BY <1>1, <1>2 DEF Gap
  <2>5. /\ c.sat = "wait"
        /\ c.eve = d + 1
        /\ Len(c.job) = Len(p)
        /\ \A i \in 1 .. Len(p) : c.job[i] = p[i].job
        /\ c \in Reqs
    BY <1>1, <2>3, <2>4 DEF Batch, Reqs
  <2>6. QED
    BY <1>1, <1>2, <2>1, <2>5 DEF Prefix
<1>3. CASE ~(r.sat = "idle" /\ Len(p) > 0)
  <2>1. Commit(r, p, d + Len(p), d) = r
    BY <1>1, <1>3 DEF Commit
  <2>2. r.sat = "idle" => p = <<>>
    BY <1>1, <1>3
  <2>3. QED
    BY <2>1, <2>2
<1>4. QED
  BY <1>2, <1>3

(* A committed batch extends a table without gaps. *)
LEMMA SavedIs ==
  ASSUME NEW n \in Nat, NEW s \in Seq(Job), DOMAIN db = 1 .. n,
         db \in [1 .. n -> Job]
  PROVE  /\ Keys(n + 1, s) = (n + 1) .. (n + Len(s))
         /\ Saved(n + 1, s) \in [1 .. (n + Len(s)) -> Job]
         /\ \A e \in 1 .. n : Saved(n + 1, s)[e] = db[e]
         /\ \A i \in 1 .. Len(s) : Saved(n + 1, s)[n + i] = s[i]
<1>1. Len(s) \in Nat /\ \A i \in 1 .. Len(s) : s[i] \in Job
  OBVIOUS
<1>2. Keys(n + 1, s) = (n + 1) .. (n + Len(s))
  <2>1. ASSUME NEW k \in (n + 1) .. (n + Len(s))
        PROVE  k \in Keys(n + 1, s)
    <3>1. k - n \in 1 .. Len(s) /\ k = (n + 1) + (k - n) - 1
      BY <1>1
    <3>2. QED
      BY <3>1 DEF Keys
  <2>2. Keys(n + 1, s) \subseteq (n + 1) .. (n + Len(s))
    BY <1>1 DEF Keys
  <2>3. QED
    BY <2>1, <2>2
<1>3. DOMAIN db \cup Keys(n + 1, s) = 1 .. (n + Len(s))
  BY <1>1, <1>2
<1>4. Saved(n + 1, s) =
        [k \in 1 .. (n + Len(s)) |->
           IF k \in (n + 1) .. (n + Len(s)) THEN s[k - (n + 1) + 1] ELSE db[k]]
  BY <1>2, <1>3 DEF Saved
<1>5. ASSUME NEW k \in 1 .. (n + Len(s))
      PROVE  Saved(n + 1, s)[k] \in Job
  <2>1. CASE k \in (n + 1) .. (n + Len(s))
    <3>1. k - (n + 1) + 1 \in 1 .. Len(s)
      BY <1>1, <2>1
    <3>2. QED
      BY <1>1, <1>4, <2>1, <3>1
  <2>2. CASE k \notin (n + 1) .. (n + Len(s))
    <3>1. k \in 1 .. n
      BY <1>1, <2>2
    <3>2. QED
      BY <1>4, <2>2, <3>1
  <2>3. QED
    BY <2>1, <2>2
<1>6. \A e \in 1 .. n : Saved(n + 1, s)[e] = db[e]
  BY <1>1, <1>4
<1>7. \A i \in 1 .. Len(s) : Saved(n + 1, s)[n + i] = s[i]
  <2>1. TAKE i \in 1 .. Len(s)
  <2>2. /\ n + i \in 1 .. (n + Len(s))
        /\ n + i \in (n + 1) .. (n + Len(s))
        /\ (n + i) - (n + 1) + 1 = i
    BY <1>1
  <2>3. QED
    BY <1>4, <2>2
<1>8. QED
  BY <1>2, <1>4, <1>5, <1>6, <1>7

-----------------------------------------------------------------------------
(* The inductive invariant *)

(* A process that is gone leaves nothing in memory. *)
Dead == ~liv => (req = Idle /\ put = <<>> /\ red = <<>>)

(* Events are planned only in a log that has all of its metadata. *)
MetaBeforePlan == (liv /\ 0 < sen) => meta = Len(MetaKeys)

Core ==
  /\ DiskTypeOK
  /\ LogContiguous
  /\ DiskAsserts
  /\ NoIdleBacklog
  /\ AckIsDurable
  /\ MetaBeforeEvents
  /\ Dead
  /\ MetaBeforePlan

(* The empty log of a new pier satisfies the invariant. *)
LEMMA InitCore == DiskStart => Core
<1>1. HAVE DiskStart
<1> USE <1>1 DEF DiskStart
<1>2. db = [k \in {} |-> 0] /\ DOMAIN db = {}
  OBVIOUS
<1>3. Gulf = 0
  BY <1>2 DEF Gulf, LastKey
<1>4. DiskTypeOK
  <2>1. db \in [DOMAIN db -> Job]
    BY <1>2
  <2>2. Idle \in Reqs
    BY DEF Idle, Reqs
  <2>3. 0 \in 0 .. Len(MetaKeys)
    BY DEF MetaKeys
  <2>4. /\ DOMAIN db \subseteq Nat
        /\ <<>> \in Seq(Fact) /\ <<>> \in Seq(Reads)
    BY <1>2
  <2>5. QED
    BY <2>1, <2>2, <2>3, <2>4 DEF DiskTypeOK
<1>5. LogContiguous /\ MetaBeforeEvents
  BY <1>2, <1>3 DEF LogContiguous, MetaBeforeEvents
<1>6. DiskAsserts /\ NoIdleBacklog
  BY DEF DiskAsserts, QueueIsGap, WriteIsPrefix, NoIdleBacklog, Idle
<1>7. AckIsDurable /\ Dead /\ MetaBeforePlan
  BY <1>3 DEF AckIsDurable, Dead, MetaBeforePlan
<1>8. QED
  BY <1>4, <1>5, <1>6, <1>7 DEF Core

(* Planning: u3_disk_plan() and u3_disk_boot_plan() put facts p in the     *)
(* place of the queue, which is a prefix of them.                          *)
LEMMA EnqueueCore ==
  ASSUME Core, liv, meta = Len(MetaKeys),
         NEW p \in Seq(Fact), Gap(p, dun), Len(put) <= Len(p),
         \A i \in 1 .. Len(put) : p[i] = put[i],
         put' = p, sen' = dun + Len(p), req' = Commit(req, p, sen', dun),
         UNCHANGED <<db, meta, liv, dun>>, red' \in Seq(Reads)
  PROVE  Core'
<1> USE DEF Core
<1>1. Len(p) \in Nat /\ Len(put) \in Nat /\ dun \in Nat /\ req \in Reqs
  BY DEF DiskTypeOK
<1>2. Prefix(req, p, dun)
  <2>1. CASE req.sat = "idle"
    BY <2>1 DEF Prefix
  <2>2. CASE req.sat # "idle"
    <3>1. /\ req.eve = dun + 1
          /\ 0 < Len(req.job) /\ Len(req.job) <= Len(put)
          /\ \A i \in 1 .. Len(req.job) : req.job[i] = put[i].job
          /\ Len(req.job) \in Nat
      BY <1>1, <2>2 DEF DiskAsserts, WriteIsPrefix, Reqs
    <3>2. ASSUME NEW i \in 1 .. Len(req.job)
          PROVE  req.job[i] = p[i].job
      <4>1. i \in 1 .. Len(put)
        BY <1>1, <3>1
      <4>2. p[i] = put[i]
        BY <4>1
      <4>3. QED
        BY <3>1, <4>2
    <3>3. Len(req.job) <= Len(p)
      BY <1>1, <3>1
    <3>4. QED
      BY <3>1, <3>2, <3>3 DEF Prefix
  <2>3. QED
    BY <2>1, <2>2
<1>3. /\ req' \in Reqs
      /\ Prefix(req', p, dun)
      /\ req'.sat = "idle" => p = <<>>
      /\ req.sat # "idle" => req' = req
      /\ req.sat = "idle" => req'.sat # "good"
  BY <1>1, <1>2, CommitIs
<1>4. Gulf' = Gulf
  BY DEF Gulf
<1>5. DiskTypeOK'
  BY <1>1, <1>3 DEF DiskTypeOK
<1>6. LogContiguous' /\ MetaBeforeEvents'
  BY <1>4 DEF LogContiguous, MetaBeforeEvents
<1>7. DiskAsserts'
  <2>1. QueueIsGap'
    BY <1>1 DEF QueueIsGap, Gap
  <2>2. WriteIsPrefix'
    BY <1>3 DEF WriteIsPrefix, Prefix
  <2>3. QED
    BY <2>1, <2>2 DEF DiskAsserts
<1>8. NoIdleBacklog'
  BY <1>3 DEF NoIdleBacklog
<1>9. AckIsDurable'
  BY <1>3, <1>4 DEF AckIsDurable
<1>10. Dead' /\ MetaBeforePlan'
  BY DEF Dead, MetaBeforePlan
<1>11. QED
  BY <1>5, <1>6, <1>7, <1>8, <1>9, <1>10

(* u3_disk_plan() keeps the queue the gap between the counters. *)
LEMMA PlanCore ==
  ASSUME Core, liv, meta = Len(MetaKeys), NEW j \in Job,
         DiskPlan([eve |-> sen + 1, job |-> j]), red' \in Seq(Reads)
  PROVE  Core'
<1> DEFINE f == [eve |-> sen + 1, job |-> j]
           p == Append(put, f)
<1>1. sen \in Nat /\ dun \in Nat /\ put \in Seq(Fact) /\ Len(put) = sen - dun
      /\ Len(put) \in Nat /\ \A i \in 1 .. Len(put) : put[i].eve = dun + i
  BY DEF Core, DiskTypeOK, DiskAsserts, QueueIsGap
<1>2. f \in Fact
  BY <1>1 DEF Fact
<1>3. p \in Seq(Fact) /\ Len(p) = Len(put) + 1 /\ p[Len(put) + 1] = f
      /\ \A i \in 1 .. Len(put) : p[i] = put[i]
  BY <1>1, <1>2, SMTT(30)
<1>4. Gap(p, dun)
  <2>1. SUFFICES ASSUME NEW i \in 1 .. Len(p) PROVE p[i].eve = dun + i
    BY DEF Gap
  <2>2. CASE i \in 1 .. Len(put)
    BY <1>1, <1>3, <2>2
  <2>3. CASE i = Len(put) + 1
    BY <1>1, <1>3, <2>3
  <2>4. QED
    BY <1>1, <1>3, <2>2, <2>3, SMTT(30)
<1>5. put' = p /\ sen' = sen + 1 /\ req' = Commit(req, p, sen', dun)
      /\ UNCHANGED <<db, meta, liv, dun>>
  BY DEF DiskPlan
<1>6. sen' = dun + Len(p)
  BY <1>1, <1>3, <1>5
<1> HIDE DEF p, f
<1>7. Len(put) <= Len(p)
  BY <1>1, <1>3
<1>8. QED
  BY <1>3, <1>4, <1>5, <1>6, <1>7, EnqueueCore

(* So does the boot sequence of _pier_boot_plan(), all of it at once. *)
LEMMA BootCore ==
  ASSUME Core, liv, meta = Len(MetaKeys), NEW m \in Nat,
         NEW s \in [1 .. m -> Job], DiskBoot(s), red' \in Seq(Reads)
  PROVE  Core'
<1> DEFINE g == Facts(sen, s)
           p == put \o g
<1>1. sen \in Nat /\ dun \in Nat /\ put \in Seq(Fact) /\ Len(put) = sen - dun
      /\ Len(put) \in Nat /\ \A i \in 1 .. Len(put) : put[i].eve = dun + i
  BY DEF Core, DiskTypeOK, DiskAsserts, QueueIsGap
<1>2. Len(s) = m /\ \A i \in 1 .. m : s[i] \in Job
  OBVIOUS
<1>3. g \in Seq(Fact) /\ Len(g) = m /\ \A i \in 1 .. m : g[i].eve = sen + i
  BY <1>1, <1>2 DEF Facts, Fact
<1> HIDE DEF g
<1>4. /\ p \in Seq(Fact)
      /\ Len(p) = Len(put) + m
      /\ \A i \in 1 .. Len(put) : p[i] = put[i]
      /\ \A i \in 1 .. m : p[Len(put) + i] = g[i]
  <2>1. /\ p \in Seq(Fact)
        /\ Len(p) = Len(put) + Len(g)
        /\ \A i \in 1 .. Len(put) + Len(g) :
             p[i] = IF i <= Len(put) THEN put[i] ELSE g[i - Len(put)]
    BY <1>1, <1>3, ConcatProperties
  <2> HIDE DEF p
  <2>2. ASSUME NEW i \in 1 .. m
        PROVE  p[Len(put) + i] = g[i]
    <3>1. /\ Len(put) + i \in 1 .. Len(put) + Len(g)
          /\ ~(Len(put) + i <= Len(put))
          /\ (Len(put) + i) - Len(put) = i
      BY <1>1, <1>3
    <3>2. QED
      BY <2>1, <3>1
  <2>3. QED
    BY <1>1, <1>3, <2>1, <2>2, SMTT(30)
<1>5. put' = p /\ sen' = sen + m /\ req' = Commit(req, p, sen', dun)
      /\ UNCHANGED <<db, meta, liv, dun>>
  BY <1>2 DEF DiskBoot, g
<1> HIDE DEF p
<1>6. Gap(p, dun)
  <2>1. SUFFICES ASSUME NEW i \in 1 .. Len(p) PROVE p[i].eve = dun + i
    BY DEF Gap
  <2>2. CASE i \in 1 .. Len(put)
    BY <1>1, <1>4, <2>2
  <2>3. CASE i \notin 1 .. Len(put)
    <3>1. i - Len(put) \in 1 .. m /\ i = Len(put) + (i - Len(put))
      BY <1>1, <1>4, <2>3
    <3>2. p[i] = g[i - Len(put)] /\ g[i - Len(put)].eve = sen + (i - Len(put))
      BY <1>3, <1>4, <3>1
    <3>3. QED
      BY <1>1, <3>1, <3>2
  <2>4. QED
    BY <2>2, <2>3
<1>7. sen' = dun + Len(p) /\ Len(put) <= Len(p)
  BY <1>1, <1>4, <1>5
<1>8. QED
  BY <1>4, <1>5, <1>6, <1>7, EnqueueCore

(* A metadata transaction touches neither queue nor table. *)
LEMMA SaveMetaCore ==
  ASSUME Core, sen = 0, DiskSaveMeta, red' = red
  PROVE  Core'
<1>1. UNCHANGED <<db, liv, sen, dun, put, req, red>>
  BY DEF DiskSaveMeta
<1>2. meta' \in 0 .. Len(MetaKeys)
  <2>1. Len(MetaKeys) = 4
    BY DEF MetaKeys
  <2>2. meta \in 0 .. Len(MetaKeys) /\ meta < Len(MetaKeys) /\ meta' = meta + 1
    BY DEF Core, DiskTypeOK, DiskSaveMeta
  <2>3. QED
    BY <2>1, <2>2
<1>3. Gulf' = Gulf
  BY <1>1 DEF Gulf
<1>4. DiskTypeOK'
  BY <1>1, <1>2 DEF Core, DiskTypeOK
<1>5. MetaBeforeEvents'
  <2>1. meta # Len(MetaKeys)
    BY DEF DiskSaveMeta, Core, DiskTypeOK, MetaKeys
  <2>2. DOMAIN db = {}
    BY <2>1 DEF Core, MetaBeforeEvents
  <2>3. QED
    BY <1>1, <2>2 DEF MetaBeforeEvents
<1>6. (LogContiguous /\ DiskAsserts /\ NoIdleBacklog /\ AckIsDurable /\ Dead)'
  BY <1>1, <1>3
     DEF Core, LogContiguous, DiskAsserts, QueueIsGap, WriteIsPrefix,
         NoIdleBacklog, AckIsDurable, Dead
<1>7. MetaBeforePlan'
  BY <1>1 DEF MetaBeforePlan
<1>8. QED
  BY <1>4, <1>5, <1>6, <1>7 DEF Core

(* The write thread: the table grows by the batch, which starts right      *)
(* after its last key.                                                     *)
LEMMA CommitCbCore ==
  ASSUME Core, DiskCommitCb, red' = red
  PROVE  Core'
<1> DEFINE n == dun
           s == req.job
<1>1. liv
  BY DEF DiskCommitCb, Core, Dead, Idle
<1>2. /\ req.sat = "wait" /\ req \in Reqs
      /\ UNCHANGED <<meta, liv, sen, dun, put, red>>
      /\ n \in Nat /\ sen \in Nat /\ put \in Seq(Fact)
  BY DEF DiskCommitCb, Core, DiskTypeOK
<1>3. /\ req.eve = n + 1
      /\ 0 < Len(s) /\ Len(s) <= Len(put)
      /\ \A i \in 1 .. Len(s) : s[i] = put[i].job
  BY <1>2 DEF Core, DiskAsserts, WriteIsPrefix
<1>4. s \in Seq(Job) /\ Len(s) \in Nat /\ Len(put) = sen - dun
  BY <1>1, <1>2 DEF Reqs, Core, DiskAsserts, QueueIsGap
<1>5. Gulf = n /\ DOMAIN db = 1 .. n /\ db \in [1 .. n -> Job]
  BY <1>1, <1>2 DEF Core, AckIsDurable, LogContiguous, DiskTypeOK
<1>6. (Dead /\ MetaBeforePlan /\ QueueIsGap)'
  BY <1>1, <1>2 DEF Core, Dead, MetaBeforePlan, DiskAsserts, QueueIsGap
<1>7. CASE /\ db' = Saved(req.eve, req.job)
           /\ req' = [req EXCEPT !.sat = "good"]
  <2>1. db' \in [1 .. (n + Len(s)) -> Job]
    BY <1>2, <1>3, <1>4, <1>5, <1>7, SavedIs
  <2>2. DOMAIN db' = 1 .. (n + Len(s)) /\ n + Len(s) \in Nat
    BY <1>2, <1>4, <2>1
  <2>3. Gulf' = n + Len(s)
    BY <2>2, LastKeyIs DEF Gulf
  <2>4. /\ req' \in Reqs /\ req'.sat = "good"
        /\ req'.eve = req.eve /\ req'.job = req.job
    BY <1>2, <1>7 DEF Reqs
  <2>5. DiskTypeOK'
    BY <1>2, <2>1, <2>2, <2>4 DEF Core, DiskTypeOK
  <2>6. LogContiguous' /\ AckIsDurable'
    BY <1>2, <1>4, <2>2, <2>3, <2>4 DEF LogContiguous, AckIsDurable
  <2>7. (WriteIsPrefix /\ NoIdleBacklog)'
    BY <1>2, <1>3, <2>4 DEF WriteIsPrefix, NoIdleBacklog
  <2>8. MetaBeforeEvents'
    <3>1. 0 < sen
      BY <1>2, <1>3, <1>4
    <3>2. QED
      BY <1>1, <1>2, <3>1 DEF Core, MetaBeforePlan, MetaBeforeEvents
  <2>9. QED
    BY <1>6, <2>5, <2>6, <2>7, <2>8 DEF Core, DiskAsserts
<1>8. CASE db' = db /\ req' = [req EXCEPT !.sat = "fail"]
  <2>1. /\ req' \in Reqs /\ req'.sat = "fail"
        /\ req'.eve = req.eve /\ req'.job = req.job
    BY <1>2, <1>8 DEF Reqs
  <2>2. Gulf' = Gulf
    BY <1>8 DEF Gulf
  <2>3. DiskTypeOK'
    BY <1>2, <1>8, <2>1 DEF Core, DiskTypeOK
  <2>4. (LogContiguous /\ AckIsDurable /\ MetaBeforeEvents)'
    BY <1>2, <1>5, <1>8, <2>1, <2>2
       DEF Core, LogContiguous, AckIsDurable, MetaBeforeEvents
  <2>5. (WriteIsPrefix /\ NoIdleBacklog)'
    BY <1>2, <1>3, <2>1 DEF WriteIsPrefix, NoIdleBacklog
  <2>6. QED
    BY <1>6, <2>3, <2>4, <2>5 DEF Core, DiskAsserts
<1>9. QED
  BY <1>7, <1>8 DEF DiskCommitCb

(* The acknowledgement: the batch leaves the queue, what was planned       *)
(* behind it is written next.                                              *)
LEMMA CommitDoneCore ==
  ASSUME Core, DiskCommitDone, red' \in Seq(Reads)
  PROVE  Core'
<1> DEFINE n == Len(req.job)
           d == dun + n
           p == Undone(put, d)
<1>1. /\ req.sat = "good" /\ req \in Reqs
      /\ dun \in Nat /\ sen \in Nat /\ put \in Seq(Fact)
  BY DEF DiskCommitDone, Core, DiskTypeOK
<1>2. UNCHANGED <<db, meta, liv, sen>> /\ liv
  BY DEF DiskCommitDone, Core, Dead, Idle
<1>3. /\ req.eve = dun + 1
      /\ 0 < n /\ n <= Len(put) /\ n \in Nat /\ Len(put) \in Nat
      /\ Len(put) = sen - dun
      /\ Gap(put, dun)
  BY <1>1, <1>2, SMTT(30) DEF Core, DiskAsserts, QueueIsGap, WriteIsPrefix, Reqs, Gap
<1>4. dun' = d /\ d \in Nat
  <2>1. dun' = req.eve + n - 1
    BY DEF DiskCommitDone
  <2>2. n \in Nat /\ dun \in Nat /\ req.eve = dun + 1
    BY <1>1, <1>3
  <2> HIDE DEF n
  <2>3. QED
    BY <2>1, <2>2
<1>5. put' = p /\ req' = Commit(Idle, p, sen, d)
  BY <1>4 DEF DiskCommitDone
<1>6. /\ p \in Seq(Fact)
      /\ Len(p) = Len(put) - n
      /\ Gap(p, d)
  <2>1. n \in 0 .. Len(put)
    BY <1>3
  <2> HIDE DEF n
  <2>2. QED
    BY <1>1, <1>3, <2>1, RestIs
<1>7. Gulf' = Gulf /\ Gulf = d
  BY <1>1, <1>2 DEF Gulf, Core, AckIsDurable
<1> HIDE DEF p
<1>8. sen = d + Len(p) /\ Len(p) \in Nat
  BY <1>1, <1>3, <1>6
<1> HIDE DEF d, n
<1>9. Idle \in Reqs /\ Idle.sat = "idle" /\ Prefix(Idle, p, d)
  BY DEF Idle, Reqs, Prefix
<1>10. /\ req' \in Reqs
       /\ Prefix(req', p, d)
       /\ req'.sat = "idle" => p = <<>>
       /\ req'.sat # "good"
  <2>1. req' = Commit(Idle, p, d + Len(p), d)
    BY <1>5, <1>8
  <2>2. QED
    BY <2>1, <1>4, <1>6, <1>9, CommitIs
<1>11. DiskTypeOK'
  BY <1>2, <1>4, <1>5, <1>6, <1>10 DEF Core, DiskTypeOK
<1>12. (LogContiguous /\ MetaBeforeEvents /\ Dead /\ MetaBeforePlan)'
  BY <1>2, <1>7
     DEF Core, LogContiguous, MetaBeforeEvents, Dead, MetaBeforePlan
<1>13. AckIsDurable'
  BY <1>4, <1>7, <1>10 DEF AckIsDurable
<1>14. QueueIsGap'
  BY <1>2, <1>4, <1>5, <1>6, <1>8 DEF QueueIsGap, Gap
<1>15. (WriteIsPrefix /\ NoIdleBacklog)'
  BY <1>4, <1>5, <1>10 DEF WriteIsPrefix, NoIdleBacklog, Prefix
<1>16. QED
  BY <1>11, <1>12, <1>13, <1>14, <1>15 DEF Core, DiskAsserts

(* An end of the process at any point leaves the table as it is. *)
LEMMA GoneCore ==
  ASSUME Core, DiskGone
  PROVE  Core'
<1>1. liv' = FALSE /\ put' = <<>> /\ req' = Idle /\ red' = <<>>
      /\ UNCHANGED <<db, meta, sen, dun>>
  BY DEF DiskGone
<1>2. Idle \in Reqs /\ Idle.sat = "idle"
  BY DEF Idle, Reqs
<1>3. Gulf' = Gulf
  BY <1>1 DEF Gulf
<1>4. DiskTypeOK'
  <2>1. <<>> \in Seq(Fact) /\ <<>> \in Seq(Reads)
    OBVIOUS
  <2>2. QED
    BY <1>1, <1>2, <2>1 DEF Core, DiskTypeOK
<1>5. (LogContiguous /\ MetaBeforeEvents /\ AckIsDurable)'
  BY <1>1, <1>3 DEF Core, LogContiguous, MetaBeforeEvents, AckIsDurable
<1>6. (DiskAsserts /\ NoIdleBacklog /\ Dead /\ MetaBeforePlan)'
  BY <1>1, <1>2
     DEF DiskAsserts, QueueIsGap, WriteIsPrefix, NoIdleBacklog, Dead,
         MetaBeforePlan
<1>7. QED
  BY <1>4, <1>5, <1>6 DEF Core

(* u3_disk_init() finds the counters in a table without gaps. *)
LEMMA OpenCore ==
  ASSUME Core, DiskOpen
  PROVE  Core'
<1>1. liv' = TRUE /\ dun' = Gulf /\ sen' = Gulf /\ put' = <<>> /\ req' = Idle
      /\ red' = <<>> /\ UNCHANGED <<db, meta>>
  BY DEF DiskOpen
<1>2. Idle \in Reqs /\ Idle.sat = "idle"
  BY DEF Idle, Reqs
<1>3. Gulf' = Gulf /\ Gulf \in Nat /\ DOMAIN db = 1 .. Gulf
  BY <1>1 DEF Gulf, Core, LogContiguous
<1>4. DiskTypeOK'
  <2>1. <<>> \in Seq(Fact) /\ <<>> \in Seq(Reads)
    OBVIOUS
  <2>2. QED
    BY <1>1, <1>2, <1>3, <2>1 DEF Core, DiskTypeOK
<1>5. (LogContiguous /\ MetaBeforeEvents /\ AckIsDurable)'
  BY <1>1, <1>2, <1>3
     DEF Core, LogContiguous, MetaBeforeEvents, AckIsDurable
<1>6. MetaBeforePlan'
  <2>1. 0 < Gulf => 1 \in DOMAIN db
    BY <1>3
  <2>2. QED
    BY <1>1, <2>1 DEF Core, MetaBeforeEvents, MetaBeforePlan
<1>7. (DiskAsserts /\ NoIdleBacklog /\ Dead)'
  BY <1>1, <1>2, <1>3
     DEF DiskAsserts, QueueIsGap, WriteIsPrefix, NoIdleBacklog, Dead
<1>8. QED
  BY <1>4, <1>5, <1>6, <1>7 DEF Core

(* The reads leave the write side alone. *)
LEMMA ReadCore ==
  ASSUME Core, liv, UNCHANGED writeVars, red' \in Seq(Reads)
  PROVE  Core'
<1>1. UNCHANGED <<db, meta, liv, sen, dun, put, req>>
  BY DEF writeVars
<1>2. Gulf' = Gulf
  BY <1>1 DEF Gulf
<1>3. DiskTypeOK'
  BY <1>1 DEF Core, DiskTypeOK
<1>4. (LogContiguous /\ DiskAsserts /\ NoIdleBacklog /\ AckIsDurable)'
  BY <1>1, <1>2
     DEF Core, LogContiguous, DiskAsserts, QueueIsGap, WriteIsPrefix,
         NoIdleBacklog, AckIsDurable
<1>5. (MetaBeforeEvents /\ Dead /\ MetaBeforePlan)'
  BY <1>1 DEF Core, MetaBeforeEvents, Dead, MetaBeforePlan
<1>6. QED
  BY <1>3, <1>4, <1>5 DEF Core

(* A step that leaves the log alone. *)
LEMMA StutterCore ==
  ASSUME Core, UNCHANGED <<db, meta, liv, sen, dun, put, req, red>>
  PROVE  Core'
<1>1. Gulf' = Gulf
  BY DEF Gulf
<1>2. (DiskTypeOK /\ LogContiguous /\ DiskAsserts /\ NoIdleBacklog)'
  BY <1>1 DEF Core, DiskTypeOK, LogContiguous, DiskAsserts, QueueIsGap,
              WriteIsPrefix, NoIdleBacklog
<1>3. (AckIsDurable /\ MetaBeforeEvents /\ Dead /\ MetaBeforePlan)'
  BY <1>1 DEF Core, AckIsDurable, MetaBeforeEvents, Dead, MetaBeforePlan
<1>4. QED
  BY <1>2, <1>3 DEF Core

(* What u3_lmdb_read() returns from a table without gaps. *)
LEMMA ReadFactsIs ==
  ASSUME NEW n \in Nat, DOMAIN db = 1 .. n, db \in [1 .. n -> Job],
         NEW e \in 1 .. n, NEW len \in Nat
  PROVE  /\ ReadFacts(e, len) \in Seq(Fact)
         /\ Len(ReadFacts(e, len)) <= len
         /\ 0 < len => 0 < Len(ReadFacts(e, len))
         /\ \A k \in 1 .. Len(ReadFacts(e, len)) :
              /\ ReadFacts(e, len)[k].eve = e + k - 1
              /\ e + k - 1 \in DOMAIN db
              /\ ReadFacts(e, len)[k].job = db[e + k - 1]
<1> DEFINE P(c) == /\ \A i \in 0 .. c - 1 : e + i \in DOMAIN db
                   /\ c < len => e + c \notin DOMAIN db
           c == CHOOSE c \in 0 .. len : P(c)
           m == IF len <= n - e + 1 THEN len ELSE n - e + 1
<1>1. m \in 0 .. len /\ P(m)
  OBVIOUS
<1>2. c \in 0 .. len /\ P(c)
  <2>1. \E x \in 0 .. len : P(x)
    BY <1>1
  <2> HIDE DEF P
  <2>2. QED
    BY <2>1
<1>3. ReadFacts(e, len) =
        [i \in 1 .. c |-> [eve |-> e + i - 1, job |-> db[e + i - 1]]]
  BY DEF ReadFacts
<1> HIDE DEF c
<1>4. ASSUME NEW i \in 1 .. c
      PROVE  e + i - 1 \in DOMAIN db
  <2>1. i - 1 \in 0 .. c - 1 /\ e + (i - 1) = e + i - 1
    BY <1>2
  <2>2. QED
    BY <1>2, <2>1
<1>5. \A i \in 1 .. c : [eve |-> e + i - 1, job |-> db[e + i - 1]] \in Fact
  BY <1>4 DEF Fact
<1>6. ReadFacts(e, len) \in Seq(Fact) /\ Len(ReadFacts(e, len)) = c
  <2>1. c \in Nat
    BY <1>2
  <2>2. ReadFacts(e, len) \in [1 .. c -> Fact]
    BY <1>3, <1>5
  <2> HIDE DEF P, m
  <2>3. QED
    BY <2>1, <2>2
<1>7. 0 < len => 0 < c
  <2>1. SUFFICES ASSUME 0 < len, c = 0 PROVE FALSE
    BY <1>2
  <2>2. QED
    BY <1>2, <2>1
<1>8. c <= len
  BY <1>2
<1>9. ASSUME NEW k \in 1 .. c
      PROVE  /\ ReadFacts(e, len)[k].eve = e + k - 1
             /\ ReadFacts(e, len)[k].job = db[e + k - 1]
  BY <1>3
<1> HIDE DEF P, m
<1>10. QED
  BY <1>4, <1>6, <1>7, <1>8, <1>9

-----------------------------------------------------------------------------
(* The table only grows, and the queue keeps its events *)

(* The write thread drops or changes no event of the table. *)
LEMMA CommitCbGrows ==
  ASSUME Core, DiskCommitCb
  PROVE  \A e \in DOMAIN db : e \in DOMAIN db' /\ db'[e] = db[e]
<1>1. CASE db' = db
  BY <1>1
<1>2. CASE db' = Saved(req.eve, req.job)
  <2>1. req.sat = "wait" /\ liv
    BY DEF DiskCommitCb, Core, Dead, Idle
  <2>2. req \in Reqs /\ req.eve = dun + 1 /\ Gulf = dun /\ dun \in Nat
    BY <2>1 DEF Core, DiskTypeOK, DiskAsserts, WriteIsPrefix, AckIsDurable
  <2>3. req.job \in Seq(Job)
    BY <2>2 DEF Reqs
  <2>4. DOMAIN db = 1 .. dun /\ db \in [1 .. dun -> Job]
    BY <2>2 DEF Core, LogContiguous, DiskTypeOK
  <2>5. /\ db' \in [1 .. (dun + Len(req.job)) -> Job]
        /\ \A e \in 1 .. dun : db'[e] = db[e]
    BY <1>2, <2>2, <2>3, <2>4, SavedIs
  <2>6. Len(req.job) \in Nat
    BY <2>3
  <2>7. QED
    BY <2>2, <2>4, <2>5, <2>6
<1>3. QED
  BY <1>1, <1>2 DEF DiskCommitCb

(* A batch the thread has committed is in the table as it was planned. *)
Written ==
  req.sat = "good" => \A i \in 1 .. Len(req.job) : db[dun + i] = req.job[i]

(* _disk_commit() never makes a completed write. *)
LEMMA CommitNotGood ==
  ASSUME NEW r, NEW p, NEW s, NEW d, Commit(r, p, s, d).sat = "good"
  PROVE  Commit(r, p, s, d) = r
  BY DEF Commit, Batch

(* A batch in completion is in the table as it was queued, and no event    *)
(* changes on its way.                                                     *)
LEMMA CommitCbSeen ==
  ASSUME Core, DiskCommitCb
  PROVE  Written' /\ \A e \in 1 .. sen : Seen(e)' = Seen(e)
<1>1. /\ liv /\ dun' = dun /\ req.sat = "wait" /\ put' = put
      /\ req \in Reqs /\ dun \in Nat
  BY DEF DiskCommitCb, Core, DiskTypeOK, Dead, Idle
<1>2. Written'
  <2>1. CASE db' = Saved(req.eve, req.job) /\ req' = [req EXCEPT !.sat = "good"]
    <3>1. req'.job = req.job /\ req.job \in Seq(Job)
      BY <1>1, <2>1 DEF Reqs
    <3>2. req.eve = dun + 1 /\ Gulf = dun
      BY <1>1 DEF Core, DiskAsserts, WriteIsPrefix, AckIsDurable
    <3>3. DOMAIN db = 1 .. dun /\ db \in [1 .. dun -> Job]
      BY <3>2 DEF Core, LogContiguous, DiskTypeOK
    <3>4. \A i \in 1 .. Len(req.job) : db'[dun + i] = req.job[i]
      BY <1>1, <2>1, <3>1, <3>2, <3>3, SavedIs, SMTT(30)
    <3>5. QED
      BY <1>1, <3>1, <3>4 DEF Written
  <2>2. CASE req' = [req EXCEPT !.sat = "fail"]
    BY <1>1, <2>2 DEF Written, Reqs
  <2>3. QED
    BY <2>1, <2>2 DEF DiskCommitCb
<1>3. ASSUME NEW e \in 1 .. sen
      PROVE  Seen(e)' = Seen(e)
  <2>1. CASE e <= dun
    <3>1. e \in DOMAIN db
      BY <1>1, <2>1 DEF Core, LogContiguous, AckIsDurable
    <3>2. db'[e] = db[e]
      BY <3>1, CommitCbGrows
    <3>3. QED
      BY <1>1, <2>1, <3>2 DEF Seen
  <2>2. CASE ~(e <= dun)
    BY <1>1, <2>2 DEF Seen
  <2>3. QED
    BY <2>1, <2>2
<1>4. QED
  BY <1>2, <1>3

(* A new event follows the ones planned before it. *)
LEMMA PlanSeen ==
  ASSUME Core, Written, liv, NEW f \in Fact, DiskPlan(f)
  PROVE  /\ Written'
         /\ \A e \in 1 .. sen : Seen(e)' = Seen(e)
         /\ Seen(sen)' = f.job
<1> DEFINE n == Len(put)
<1>1. /\ sen \in Nat /\ dun \in Nat /\ put \in Seq(Fact) /\ n \in Nat
      /\ n = sen - dun
  BY DEF Core, DiskTypeOK, DiskAsserts, QueueIsGap
<1>2. /\ UNCHANGED <<db, dun>> /\ put' = Append(put, f)
      /\ req'.sat = "good" => req' = req
  BY CommitNotGood DEF DiskPlan
<1>3. put'[n + 1] = f /\ \A i \in 1 .. n : put'[i] = put[i]
  BY <1>1, <1>2
<1>4. ASSUME NEW e \in 1 .. sen
      PROVE  Seen(e)' = Seen(e)
  <2>1. CASE e <= dun
    BY <1>2, <2>1 DEF Seen
  <2>2. CASE ~(e <= dun)
    <3>1. e - dun \in 1 .. n
      BY <1>1, <2>2
    <3>2. QED
      BY <1>2, <1>3, <2>2, <3>1 DEF Seen
  <2>3. QED
    BY <2>1, <2>2
<1>5. Seen(sen)' = f.job
  <2>1. ~(sen' <= dun) /\ sen' - dun = n + 1
    BY <1>1 DEF DiskPlan
  <2>2. QED
    BY <1>2, <1>3, <2>1 DEF Seen
<1>6. Written'
  BY <1>2 DEF Written
<1>7. QED
  BY <1>4, <1>5, <1>6

(* An acknowledged event moves from the queue to the table as it is. *)
LEMMA CommitDoneSeen ==
  ASSUME Core, Written, DiskCommitDone
  PROVE  Written' /\ \A e \in 1 .. sen : Seen(e)' = Seen(e)
<1> DEFINE n == Len(put)
           m == Len(req.job)
<1>1. req.sat = "good" /\ UNCHANGED <<db, sen>> /\ liv
      /\ dun' = req.eve + m - 1 /\ put' = Undone(put, dun')
  BY DEF DiskCommitDone, Core, Dead, Idle
<1>2. /\ sen \in Nat /\ dun \in Nat /\ put \in Seq(Fact) /\ n \in Nat
      /\ n = sen - dun /\ req \in Reqs /\ Gap(put, dun)
  BY <1>1 DEF Core, DiskTypeOK, DiskAsserts, QueueIsGap, Gap
<1>3. /\ req.eve = dun + 1 /\ m \in Nat /\ m \in 0 .. n
      /\ \A i \in 1 .. m : req.job[i] = put[i].job
  BY <1>1, <1>2, SMTT(30) DEF Core, DiskAsserts, WriteIsPrefix, Reqs
<1>4. \A i \in 1 .. m : db[dun + i] = put[i].job
  BY <1>1, <1>3 DEF Written
<1> HIDE DEF m
<1>5. dun' = dun + m
  BY <1>1, <1>2, <1>3
<1>6. \A i \in 1 .. n - m : put'[i] = put[m + i]
  <2>1. put \in Seq(Fact) /\ dun \in Nat /\ m \in 0 .. Len(put) /\ Gap(put, dun)
    BY <1>2, <1>3
  <2>2. \A i \in 1 .. Len(put) - m : Undone(put, dun + m)[i] = put[m + i]
    BY <2>1, RestIs
  <2>3. QED
    BY <1>1, <1>5, <2>2
<1>7. ASSUME NEW e \in 1 .. sen
      PROVE  Seen(e)' = Seen(e)
  <2>1. CASE e <= dun
    <3>1. e <= dun'
      BY <1>2, <1>3, <1>5, <2>1
    <3>2. QED
      BY <1>1, <2>1, <3>1 DEF Seen
  <2>2. CASE ~(e <= dun) /\ e <= dun'
    <3>1. e - dun \in 1 .. m /\ dun + (e - dun) = e
      BY <1>2, <1>3, <1>5, <2>2
    <3>2. db[e] = put[e - dun].job
      BY <1>4, <3>1
    <3>3. QED
      BY <1>1, <2>2, <3>2 DEF Seen
  <2>3. CASE ~(e <= dun')
    <3>1. /\ e - dun' \in 1 .. n - m /\ m + (e - dun') = e - dun
          /\ ~(e <= dun)
      <4> HIDE DEF n
      <4>1. QED
        BY <1>2, <1>3, <1>5, <2>3
    <3>2. put'[e - dun'] = put[e - dun]
      BY <1>6, <3>1
    <3>3. QED
      BY <2>3, <3>1, <3>2 DEF Seen
  <2>4. QED
    BY <2>1, <2>2, <2>3
<1>8. Written'
  <2>1. req'.sat = "good" => req' = Idle
    BY CommitNotGood DEF DiskCommitDone
  <2>2. QED
    BY <2>1 DEF Written, Idle
<1>9. QED
  BY <1>7, <1>8

(* A live log knows every event of its table as the table holds it. *)
TableSeen == Gulf <= sen /\ dun <= sen /\ \A e \in 1 .. Gulf : Seen(e) = db[e]

LEMMA SeenTable == Core /\ Written /\ liv => TableSeen
<1> SUFFICES ASSUME Core, Written, liv PROVE TableSeen
  OBVIOUS
<1>1. /\ sen \in Nat /\ dun \in Nat /\ put \in Seq(Fact) /\ Len(put) \in Nat
      /\ Len(put) = sen - dun /\ req \in Reqs
  BY DEF Core, DiskTypeOK, DiskAsserts, QueueIsGap
<1>2. CASE req.sat = "good"
  <2>1. /\ Gulf = dun + Len(req.job) /\ Len(req.job) <= Len(put)
        /\ Len(req.job) \in Nat
        /\ \A i \in 1 .. Len(req.job) : db[dun + i] = put[i].job
    BY <1>1, <1>2, SMTT(30) DEF Core, AckIsDurable, DiskAsserts, WriteIsPrefix, Written, Reqs
  <2>2. ASSUME NEW e \in 1 .. Gulf
        PROVE  Seen(e) = db[e]
    <3>1. CASE e <= dun
      BY <3>1 DEF Seen
    <3>2. CASE ~(e <= dun)
      <4>1. e - dun \in 1 .. Len(req.job) /\ dun + (e - dun) = e
        BY <1>1, <2>1, <3>2
      <4>2. QED
        BY <2>1, <3>2, <4>1 DEF Seen
    <3>3. QED
      BY <3>1, <3>2
  <2>3. QED
    BY <1>1, <2>1, <2>2 DEF TableSeen
<1>3. CASE req.sat # "good"
  <2>1. Gulf = dun
    BY <1>3 DEF Core, AckIsDurable
  <2>2. QED
    BY <1>1, <2>1 DEF Seen, TableSeen
<1>4. QED
  BY <1>2, <1>3

(* The same of the log after a step. *)
LEMMA SeenTableNext == Core' /\ Written' /\ liv' => TableSeen'
  BY SeenTable, PTL

-----------------------------------------------------------------------------
(* Reads *)

(* A read r of table f: it starts at an event of the table, and what it    *)
(* holds is what the table holds.                                          *)
Good(f, r) ==
  /\ r.eve \in DOMAIN f
  /\ 0 < r.len
  /\ r.sat = "held" =>
       /\ 0 < Len(r.fac) /\ Len(r.fac) <= r.len
       /\ \A k \in 1 .. Len(r.fac) :
            /\ r.fac[k].eve = r.eve + k - 1
            /\ r.eve + k - 1 \in DOMAIN f
            /\ r.fac[k].job = f[r.eve + k - 1]

ReadsGood == \A i \in 1 .. Len(red) : Good(db, red[i])

(* u3_lmdb_read() collects what the table holds. *)
LEMMA ReadStartGood ==
  ASSUME Core, ReadsGood, DiskReadStart, db' = db
  PROVE  /\ red' \in Seq(Reads) /\ Len(red') = Len(red)
         /\ \A i \in 1 .. Len(red) :
              red'[i].eve = red[i].eve /\ red'[i].len = red[i].len
         /\ ReadsGood'
<1> DEFINE e == red[1].eve
           len == red[1].len
           r == [red[1] EXCEPT !.sat = "held", !.fac = ReadFacts(e, len)]
<1>1. red \in Seq(Reads) /\ red # <<>> /\ red' = [red EXCEPT ![1] = r]
  BY DEF DiskReadStart, Core, DiskTypeOK
<1>2. Len(red) \in Nat /\ 1 \in 1 .. Len(red) /\ red[1] \in Reads
  BY <1>1
<1>3. Good(db, red[1]) /\ e \in DOMAIN db /\ 0 < len /\ len \in Nat /\ e \in Nat
  BY <1>2 DEF ReadsGood, Good, Reads
<1>4. Gulf \in Nat /\ DOMAIN db = 1 .. Gulf /\ db \in [1 .. Gulf -> Job]
  BY DEF Core, LogContiguous, DiskTypeOK
<1>5. /\ ReadFacts(e, len) \in Seq(Fact)
      /\ Len(ReadFacts(e, len)) <= len
      /\ 0 < Len(ReadFacts(e, len))
      /\ \A k \in 1 .. Len(ReadFacts(e, len)) :
           /\ ReadFacts(e, len)[k].eve = e + k - 1
           /\ e + k - 1 \in DOMAIN db
           /\ ReadFacts(e, len)[k].job = db[e + k - 1]
  <2>1. e \in 1 .. Gulf
    BY <1>3, <1>4
  <2> HIDE DEF e, len
  <2>2. QED
    BY <1>3, <1>4, <2>1, ReadFactsIs
<1>6. /\ r \in Reads
      /\ r.eve = e /\ r.len = len /\ r.fac = ReadFacts(e, len)
  BY <1>2, <1>5 DEF Reads
<1> HIDE DEF r
<1>7. Good(db, r)
  BY <1>3, <1>5, <1>6 DEF Good
<1>8. /\ red' \in Seq(Reads) /\ Len(red') = Len(red)
      /\ \A i \in 1 .. Len(red) : red'[i] = IF i = 1 THEN r ELSE red[i]
  BY <1>1, <1>2, <1>6, ExceptSeq
<1>9. ReadsGood'
  BY <1>7, <1>8 DEF ReadsGood
<1>10. \A i \in 1 .. Len(red) :
         red'[i].eve = red[i].eve /\ red'[i].len = red[i].len
  BY <1>6, <1>8
<1>11. QED
  BY <1>8, <1>9, <1>10
=============================================================================
