---------------------------- MODULE PierAsserts -----------------------------
(***************************************************************************)
(* What king and worker assert of each other, and what a shutdown leaves   *)
(* behind: AssertsHold, ExitSaved and ExitIsOk of Pier, for every set of   *)
(* constants in which a shutdown is requested in the work state only.      *)
(***************************************************************************)
EXTENDS PierProofs, SequenceTheorems

-----------------------------------------------------------------------------
(* The inductive invariant, on top of PInv *)

(* A plea is of the kind that the handler of writ w sends. *)
Answering(q, w) ==
  /\ q.typ \in {"done", "swap", "bail"} => w.typ = "work"
  /\ q.typ \in {"played", "stuck"} => w.typ = "play"
  /\ q.typ = "peek" => w.typ = "peek"
  /\ q.typ = "live" => w.typ \in {"save", "cram", "pack"}

(* From a events before plea q, the answer to writ w, to b events after it.*)
Counted(q, w, a, b) ==
  /\ q.typ \in {"done", "swap"} => 0 < a /\ b = a + 1 /\ q.eve = b
  /\ q.typ = "played" => b = w.eve + Len(w.job) - 1
  /\ q.typ \in {"bail", "peek", "live"} => b = a

(* The pleas o, answers to the writs w, lead from e to n events. *)
CountedBy(f, o, w) ==
  \A i \in 1 .. Len(o) : Counted(o[i], w[i], f[i - 1], f[i])

Counts(e, n, o, w) ==
  \E f \in [0 .. Len(o) -> Nat] : f[0] = e /\ f[Len(o)] = n /\ CountedBy(f, o, w)

(* The pleas in the pipe lead from the king's count to the worker's. *)
AnswersGood(p, o) ==
  (p.sat # "down" /\ p.liv) =>
    /\ \A i \in 1 .. Len(o) : Answering(o[i], p.wri[i])
    /\ Counts(p.eve, Len(hst), o, p.wri)

(* Before its %ripe is heard the worker is as it came up. *)
RipeGood ==
  (pir.sat # "down" /\ ~pir.liv) =>
    pir.sat \in {"init", "boot"} /\ hst = chk /\ out[1].eve = Len(hst)

(* Writ w may be the i-th of the queue: a snapshot is the first and of     *)
(* the events the king has counted, batches belong to a replay and the     *)
(* first is long enough, and the spinner runs while there is work.         *)
Placed(p, t, w, i) ==
  /\ w.typ \in {"save", "cram"} => i = 1 /\ w.eve = p.eve
  /\ w.typ = "cram" => p.sat = "play" /\ p.eve = t
  /\ w.typ = "play" =>
       p.sat = "play" /\ 0 < Len(w.job) /\ (w.eve = 1 => Lif <= Len(w.job))
  /\ w.typ = "work" => p.pin

OrdersGood(p, y) == \A i \in 1 .. Len(p.wri) : Placed(p, y.eve, p.wri[i], i)

(* The batches in s follow each other from event e to event n. *)
End(w) == w.eve + Len(w.job)

Chained(s, e, n) ==
  /\ s = <<>> => n = e
  /\ \A i \in 1 .. Len(s) :
       /\ s[i].typ \in {"play", "cram"}
       /\ s[i].typ = "play" =>
            /\ i = 1 => s[i].eve = e + 1
            /\ 1 < i => s[i - 1].typ = "play" /\ s[i].eve = End(s[i - 1])
            /\ i = Len(s) => End(s[i]) = n + 1

(* A read of the first events has the lifecycle sequence. *)
FirstRead(x) ==
  x.eve = 1 => Lif <= x.len /\ (x.sat = "held" => Lif <= Len(x.fac))

BatchesGood(p, y, r) ==
  p.sat = "play" =>
    /\ Chained(p.wri, p.eve, y.sen)
    /\ Lif <= y.eve
    /\ y.sen = 0 => y.que = <<>>
    /\ r # <<>> => FirstRead(r[1])

(* The exit barrier runs next or has run. *)
Told(p) == \E i \in 1 .. Len(p.wri) : p.wri[i].typ = "exit"

Leaving(p) == (p.wal # <<>> /\ p.wal[1] = "exit") \/ Told(p)

(* Then everything is in the log, nothing more comes, and the snapshot has *)
(* it all or is about to.                                                  *)
LeavingGood(p, o) ==
  Leaving(p) =>
    /\ p.sat = "done" /\ sen = dun /\ p.eve = Gulf
    /\ \A i \in 1 .. Len(p.wri) : p.wri[i].typ \notin {"work", "play"}
    /\ \/ Len(chk) = Gulf
       \/ o = <<>> /\ p.wri # <<>> /\ p.wri[1].typ = "save"

(* The exit barrier is the last and comes right after a snapshot. *)
ExitLast(s) ==
  \A i \in 1 .. Len(s) : s[i] = "exit" => i = Len(s) /\ (1 < i => s[i - 1] = "save")

WallsGood(p) ==
  /\ ExitLast(p.wal)
  /\ p.wal # <<>> => p.wok
  /\ p.sat = "done" => p.liv /\ (p.wok \/ Told(p))

(* The boot sequence is in the log whole or not at all. *)
BootGood ==
  /\ Gulf # 0 => BootLen <= Gulf
  /\ pir.sat = "boot" => sen \in {0, BootLen} /\ ~pir.pep
  /\ pir.wok => Gulf # 0

(* A request that is idle is empty. *)
IdleGood == req.sat = "idle" => req = Idle

KingRight ==
  /\ AnswersGood(pir, out)
  /\ OrdersGood(pir, pay)
  /\ BatchesGood(pir, pay, red)
  /\ LeavingGood(pir, out)
  /\ WallsGood(pir)

AInv == KingRight /\ RipeGood /\ BootGood /\ IdleGood

-----------------------------------------------------------------------------
(* What follows from it *)

(* A log that has written everything is idle. *)
LEMMA AllWritten ==
  ASSUME PInv, IdleGood, liv => sen = dun
  PROVE  req = Idle /\ put = <<>> /\ (liv => Gulf = dun)
<1>1. Core
  BY DEF PInv, LogGood
<1>2. CASE ~liv
  BY <1>1, <1>2 DEF Core, Dead
<1>3. CASE liv
  <2>1. put \in Seq(Fact) /\ sen \in Nat /\ dun \in Nat /\ req \in Reqs
    BY <1>1 DEF Core, DiskTypeOK
  <2>2. Len(put) = 0
    BY <1>1, <1>3, <2>1 DEF Core, DiskAsserts, QueueIsGap
  <2>3. put = <<>>
    BY <2>1, <2>2
  <2>4. req.sat = "idle"
    <3>1. Len(req.job) \in Nat
      BY <2>1 DEF Reqs
    <3>2. QED
      BY <1>1, <2>2, <3>1 DEF Core, DiskAsserts, WriteIsPrefix
  <2>5. QED
    BY <1>1, <1>3, <2>3, <2>4 DEF IdleGood, Core, AckIsDurable
<1>4. QED
  BY <1>2, <1>3

(* The king and the worker after the answers in the pipe. *)
LEMMA FirstCount ==
  ASSUME NEW e, NEW n, NEW o, NEW w, Len(o) \in Nat, Len(o) # 0, Counts(e, n, o, w)
  PROVE  \E b \in Nat : Counted(o[1], w[1], e, b)
<1>1. PICK f \in [0 .. Len(o) -> Nat] : f[0] = e /\ CountedBy(f, o, w)
  BY DEF Counts
<1>2. 1 \in 1 .. Len(o) /\ 1 \in 0 .. Len(o) /\ 1 - 1 = 0
  OBVIOUS
<1>3. Counted(o[1], w[1], f[1 - 1], f[1])
  BY <1>1, <1>2 DEF CountedBy
<1>4. QED
  BY <1>1, <1>2, <1>3

(* No callback for the worker meets a failed assertion. *)
LEMMA PleasRight == PInv /\ AInv => PleasExpected
<1> SUFFICES ASSUME PInv, AInv, Heeds PROVE PleaExpected(out[1])
  BY DEF PleasExpected
<1>1. /\ out \in Seq(Pleas) /\ Len(out) \in Nat /\ Len(pir.wri) \in Nat
      /\ out # <<>> /\ pir.sat # "down"
  BY KingFacts DEF Heeds
<1>2. 1 \in 1 .. Len(out) /\ out[1] \in Pleas
  BY <1>1
<1>3. out[1].typ \in PleaType
  BY <1>2 DEF Pleas
<1>4. CASE ~pir.liv
  <2>1. out[1].typ = "ripe" /\ pir.sat \in {"init", "boot"} /\ hst = chk /\ out[1].eve = Len(hst)
    BY <1>1, <1>4 DEF PInv, Pipes, AInv, RipeGood
  <2>2. liv /\ (pir.sat = "init" => sen = dun) /\ (pir.sat = "boot" => hst = <<>>)
    BY <2>1 DEF PInv, KingGood
  <2>3. Len(chk) <= Gulf
    BY DEF PInv, WorkerGood, SnapshotInLog
  <2>4. pir.sat = "init" => Gulf = dun
    BY <2>2, AllWritten DEF AInv
  <2>5. out[1].eve <= dun
    <3>1. CASE pir.sat = "init"
      BY <2>1, <2>3, <2>4, <3>1
    <3>2. CASE pir.sat = "boot"
      BY <2>1, <2>2, <3>2, KingFacts
    <3>3. QED
      BY <2>1, <3>1, <3>2
  <2>6. QED
    BY <1>4, <2>1, <2>2, <2>5 DEF PleaExpected
<1>5. CASE pir.liv
  <2>1. /\ Len(out) <= Len(pir.wri) /\ PleaFits(out[1], pir.wri[1])
    BY <1>1, <1>2, <1>5 DEF PInv, Pipes
  <2>2. Answering(out[1], pir.wri[1]) /\ Counts(pir.eve, Len(hst), out, pir.wri)
    BY <1>1, <1>2, <1>5 DEF AInv, KingRight, AnswersGood
  <2>3. PICK b \in Nat : Counted(out[1], pir.wri[1], pir.eve, b)
    <3>1. Len(out) # 0
      BY <1>2
    <3>2. QED
      BY <1>1, <2>2, <3>1, FirstCount
  <2>4. 1 \in 1 .. Len(pir.wri) /\ pir.wri # <<>>
    BY <1>1, <1>2, <2>1
  <2>5. Placed(pir, pay.eve, pir.wri[1], 1)
    BY <2>4 DEF AInv, KingRight, OrdersGood
  <2>6. pir.wri[1].typ = "work" => pir.pin /\ (pir.sat = "wyrd" \/ pir.wok) /\ pir.eve = sen
    BY <2>4, <2>5 DEF Placed, PInv, QueuesGood, KingGood
  <2>7. pir.wri[1].typ = "play" => pir.sat = "play"
    BY <2>5 DEF Placed
  <2>8. out[1].typ \in {"done", "swap"} => out[1].eve = sen + 1
    BY <2>2, <2>3, <2>6 DEF Counted, Answering
  <2>9. QED
    BY <2>1, <2>2, <2>4, <2>6, <2>7, <2>8 DEF PleaExpected, Answering, PleaFits
<1>6. QED
  BY <1>4, <1>5

(* A write is under way only while the pier boots or works. *)
LEMMA WritesWhen ==
  ASSUME PInv, AInv, req.sat # "idle"
  PROVE  liv /\ sen # dun /\ (pir.sat = "boot" \/ pir.wok) /\ ~Leaving(pir)
<1>1. req # Idle
  BY DEF Idle
<1>2. liv /\ sen # dun
  BY <1>1, AllWritten DEF AInv
<1>3. ~Leaving(pir) /\ ~Told(pir)
  BY <1>2 DEF AInv, KingRight, LeavingGood, Leaving
<1>4. pir.sat \in States \cup {"down"}
  BY DEF PInv, TypeOK, Piers
<1>5. pir.sat \in {"boot", "work", "done"}
  BY <1>2, <1>4 DEF States, PInv, KingGood
<1>6. pir.sat = "done" => pir.wok
  BY <1>3 DEF AInv, KingRight, WallsGood
<1>7. QED
  BY <1>2, <1>3, <1>5, <1>6 DEF PInv, KingGood

(* The log calls back into a state that can take it. *)
LEMMA CallbacksRight == PInv /\ AInv => CallbacksExpected
<1> SUFFICES ASSUME PInv, AInv PROVE CallbacksExpected
  OBVIOUS
<1>1. ASSUME req.sat \in {"good", "fail"} PROVE pir.sat = "boot" \/ pir.wok
  BY <1>1, WritesWhen
<1>2. ASSUME red # <<>> PROVE pir.sat = "play" /\ red[1].eve = PlayLast(pay) + 1
  <2>1. pir.sat = "play"
    BY <1>2 DEF PInv, KingGood
  <2>2. pay \in Plays /\ QueGood(pay) /\ red[1].eve = pay.sen + Len(pay.que) + 1
    BY <1>2, <2>1, PlayNow DEF PInv, PlayGood
  <2>3. QED
    BY <2>1, <2>2, PlayLastIs
<1>3. QED
  BY <1>1, <1>2 DEF CallbacksExpected

(* The last answer in the pipe, and the count it leaves. *)
LEMMA LastCount ==
  ASSUME NEW e, NEW n, NEW o, NEW w, Len(o) \in Nat, Counts(e, n, o, w)
  PROVE  /\ Len(o) = 0 => n = e
         /\ Len(o) # 0 => \E a \in Nat : Counted(o[Len(o)], w[Len(o)], a, n)
<1>1. PICK f \in [0 .. Len(o) -> Nat] : f[0] = e /\ f[Len(o)] = n /\ CountedBy(f, o, w)
  BY DEF Counts
<1>2. ASSUME Len(o) # 0 PROVE \E a \in Nat : Counted(o[Len(o)], w[Len(o)], a, n)
  <2>1. Len(o) \in 1 .. Len(o) /\ Len(o) - 1 \in 0 .. Len(o)
    BY <1>2
  <2>2. Counted(o[Len(o)], w[Len(o)], f[Len(o) - 1], f[Len(o)])
    BY <1>1, <2>1 DEF CountedBy
  <2>3. QED
    BY <1>1, <2>1, <2>2
<1>3. QED
  BY <1>1, <1>2

(* The writ the worker takes next is the first one that is not answered. *)
LEMMA NextWrit ==
  ASSUME PInv, AInv, srf, inn # <<>>, pir.sat # "down"
  PROVE  /\ pir.liv /\ Len(out) + 1 \in 1 .. Len(pir.wri)
         /\ inn[1] = pir.wri[Len(out) + 1] /\ inn[1] \in Writs
         /\ Placed(pir, pay.eve, inn[1], Len(out) + 1)
         /\ Counts(pir.eve, Len(hst), out, pir.wri)
         /\ \A i \in 1 .. Len(out) : Answering(out[i], pir.wri[i])
<1>1. /\ pir.wri \in Seq(Writs) /\ inn \in Seq(Writs) /\ Len(pir.wri) \in Nat
      /\ Len(inn) \in Nat /\ Len(out) \in Nat
  BY KingFacts, SMTT(30)
<1>2. pir.liv
  <2>1. SUFFICES ASSUME ~pir.liv PROVE FALSE
    OBVIOUS
  <2>2. pir.sat \in {"init", "boot"} /\ inn = pir.wri
    BY <2>1 DEF PInv, Pipes, AInv, RipeGood
  <2>3. pir.wri = <<>>
    BY <2>2 DEF PInv, KingGood
  <2>4. QED
    BY <2>2, <2>3
<1>3. 1 \in 1 .. Len(inn) /\ inn[1] \in Writs
  BY <1>1
<1>4. Len(inn) = Len(pir.wri) - Len(out) /\ inn[1] = pir.wri[Len(out) + 1]
  BY <1>2, <1>3 DEF PInv, Pipes
<1>5. Len(out) + 1 \in 1 .. Len(pir.wri)
  BY <1>1, <1>3, <1>4
<1>6. QED
  BY <1>2, <1>3, <1>4, <1>5 DEF AInv, KingRight, OrdersGood, AnswersGood

(* The worker finds every writ consistent with its own count. *)
LEMMA WritsRight == PInv /\ AInv => WritsExpected
<1> SUFFICES ASSUME PInv, AInv, srf, inn # <<>>, pir.sat # "down", ~PlayFailed
             PROVE  /\ inn[1].typ = "play" => inn[1].eve = Len(hst) + 1
                    /\ inn[1].typ \in {"save", "cram"} => inn[1].eve = Len(hst)
                    /\ (inn[1].typ = "play" /\ hst = <<>>) => Len(inn[1].job) >= Lif
  BY DEF WritsExpected
<1>1. /\ pir.liv /\ Len(out) + 1 \in 1 .. Len(pir.wri)
      /\ inn[1] = pir.wri[Len(out) + 1] /\ inn[1] \in Writs
      /\ Placed(pir, pay.eve, inn[1], Len(out) + 1)
      /\ Counts(pir.eve, Len(hst), out, pir.wri)
      /\ \A i \in 1 .. Len(out) : Answering(out[i], pir.wri[i])
  BY NextWrit
<1>2. /\ out \in Seq(Pleas) /\ Len(out) \in Nat /\ pir.wri \in Seq(Writs)
      /\ Len(pir.wri) \in Nat /\ Len(hst) \in Nat /\ pir.eve \in Nat
  BY KingFacts
<1>3. inn[1].typ \in {"save", "cram"} => inn[1].eve = Len(hst)
  <2>1. SUFFICES ASSUME inn[1].typ \in {"save", "cram"} PROVE inn[1].eve = Len(hst)
    OBVIOUS
  <2>2. Len(out) = 0 /\ inn[1].eve = pir.eve
    BY <1>1, <1>2, <2>1 DEF Placed
  <2>3. QED
    BY <1>1, <1>2, <2>2, LastCount
<1>4. ASSUME inn[1].typ = "play" PROVE inn[1].eve = Len(hst) + 1
  <2>1. pir.sat = "play"
    BY <1>1, <1>4 DEF Placed
  <2>2. Chained(pir.wri, pir.eve, pay.sen)
    BY <2>1 DEF AInv, KingRight, BatchesGood
  <2>3. CASE Len(out) = 0
    <3>1. Len(hst) = pir.eve
      BY <1>1, <1>2, <2>3, LastCount
    <3>2. 1 \in 1 .. Len(pir.wri) /\ inn[1] = pir.wri[1]
      BY <1>1, <1>2, <2>3
    <3>3. pir.wri[1].eve = pir.eve + 1
      BY <1>4, <2>2, <3>2 DEF Chained
    <3>4. QED
      BY <3>1, <3>2, <3>3
  <2>4. CASE Len(out) # 0
    <3>1. Len(out) \in 1 .. Len(out) /\ 1 < Len(out) + 1 /\ (Len(out) + 1) - 1 = Len(out)
      BY <1>2, <2>4
    <3>2. pir.wri[Len(out)].typ = "play" /\ inn[1].eve = End(pir.wri[Len(out)])
      BY <1>1, <1>4, <2>2, <3>1 DEF Chained
    <3>3. out[Len(out)].typ \in PleaType /\ Answering(out[Len(out)], pir.wri[Len(out)])
      <4>1. out[Len(out)] \in Pleas
        BY <1>2, <3>1
      <4>2. out[Len(out)].typ \in PleaType
        BY <4>1 DEF Pleas
      <4>3. QED
        BY <1>1, <3>1, <4>2
    <3>4. out[Len(out)].typ = "played"
      <4>1. out[Len(out)].typ # "stuck"
        BY <3>1 DEF PlayFailed
      <4>2. out[Len(out)].typ # "ripe"
        BY <1>1, <3>1 DEF PInv, Pipes, PleaFits
      <4>3. QED
        BY <3>2, <3>3, <4>1, <4>2 DEF Answering, PleaType
    <3>5. PICK a \in Nat : Counted(out[Len(out)], pir.wri[Len(out)], a, Len(hst))
      BY <1>1, <1>2, <2>4, LastCount
    <3>6. Len(hst) = pir.wri[Len(out)].eve + Len(pir.wri[Len(out)].job) - 1
      BY <3>4, <3>5 DEF Counted
    <3>7. pir.wri[Len(out)] \in Writs
      BY <1>1, <1>2, <3>1
    <3>8. pir.wri[Len(out)].eve \in Nat /\ Len(pir.wri[Len(out)].job) \in Nat
      BY <3>7 DEF Writs
    <3>9. QED
      BY <3>2, <3>6, <3>8, SMTT(30) DEF End
  <2>5. QED
    BY <2>3, <2>4
<1>5. ASSUME inn[1].typ = "play", hst = <<>> PROVE Len(inn[1].job) >= Lif
  <2>1. inn[1].eve = 1
    BY <1>4, <1>5
  <2>2. Lif <= Len(inn[1].job)
    BY <1>1, <1>5, <2>1 DEF Placed
  <2>3. Len(inn[1].job) \in Nat /\ Lif \in Nat
    BY <1>1, PierAssumption, SMTT(30) DEF Writs
  <2>4. QED
    BY <2>2, <2>3
<1>6. QED
  BY <1>3, <1>4, <1>5

(* A graceful exit loses nothing. *)
LEMMA ExitRight == PInv /\ AInv => ExitSaved
<1> SUFFICES ASSUME PInv, AInv PROVE ExitSaved
  OBVIOUS
<1>1. ASSUME ExitSent PROVE Len(chk) = Gulf
  <2>1. pir.wri \in Seq(Writs) /\ pir.wri # <<>> /\ pir.wri[1].typ = "exit"
    BY <1>1, KingFacts, SMTT(30) DEF ExitSent
  <2>2. 1 \in 1 .. Len(pir.wri)
    BY <2>1
  <2>3. Leaving(pir)
    BY <2>1, <2>2 DEF Leaving, Told
  <2>4. QED
    BY <2>1, <2>3 DEF AInv, KingRight, LeavingGood
<1>2. ASSUME pir.wal # <<>>, pir.wal[1] = "exit" PROVE req = Idle /\ put = <<>>
  <2>1. sen = dun
    BY <1>2 DEF AInv, KingRight, LeavingGood, Leaving
  <2>2. QED
    BY <2>1, AllWritten DEF AInv
<1>3. QED
  BY <1>1, <1>2 DEF ExitSaved, ExitOutsideWrite

-----------------------------------------------------------------------------
(* Steps that leave the king alone, or end it *)

(* A king that is not running has nothing to answer for. *)
LEMMA DownRight ==
  ASSUME NEW p, p.sat = "down", p.wri = <<>>, p.wal = <<>>
  PROVE  /\ \A o : AnswersGood(p, o) /\ LeavingGood(p, o)
         /\ \A y : OrdersGood(p, y)
         /\ \A y, r : BatchesGood(p, y, r)
         /\ WallsGood(p)
<1>1. ~Told(p) /\ ~Leaving(p)
  BY DEF Told, Leaving
<1>2. QED
  BY <1>1 DEF AnswersGood, LeavingGood, OrdersGood, BatchesGood, WallsGood, ExitLast

(* The empty pier. *)
LEMMA InitAInv == Init => AInv
<1> SUFFICES ASSUME Init PROVE AInv
  OBVIOUS
<1>1. pir = Down /\ req = Idle /\ Gulf = 0
  BY DEF Init, DiskStart, Gulf, LastKey
<1>2. QED
  BY <1>1, DownIs, DownRight DEF AInv, KingRight, RipeGood, BootGood, IdleGood

(* The end of the king. *)
LEMMA EndAInv ==
  ASSUME AInv, DiskGone, pir' = Down
  PROVE  AInv'
<1>1. req' = Idle /\ Gulf' = Gulf
  BY DEF DiskGone, Gulf
<1>2. KingRight'
  <2>1. pir'.sat = "down" /\ pir'.wri = <<>> /\ pir'.wal = <<>> /\ pir'.wok = FALSE
    BY DownIs
  <2>2. AnswersGood(pir, out)' /\ LeavingGood(pir, out)'
    BY <2>1 DEF AnswersGood, LeavingGood, Leaving, Told
  <2>3. OrdersGood(pir, pay)' /\ BatchesGood(pir, pay, red)' /\ WallsGood(pir)'
    BY <2>1 DEF OrdersGood, BatchesGood, WallsGood, ExitLast
  <2>4. QED
    BY <2>2, <2>3 DEF KingRight
<1>3. QED
  BY <1>1, <1>2, DownIs DEF AInv, RipeGood, BootGood, IdleGood

(* The start of a king. *)
LEMMA StartAInv ==
  ASSUME PInv, AInv, DiskOpen, Spawn, pir'.sat \in {"boot", "init"}, pir'.liv = FALSE,
         pir'.wok = FALSE, pir'.wri = <<>>, pir'.wal = <<>>, chk' = chk,
         pir'.sat = "boot" => DOMAIN db = {} /\ ~pir'.pep
  PROVE  AInv'
<1>1. req' = Idle /\ Gulf' = Gulf /\ sen' = Gulf
  BY DEF DiskOpen, Gulf
<1>2. KingRight'
  <2>2. AnswersGood(pir, out)' /\ LeavingGood(pir, out)'
    BY DEF AnswersGood, LeavingGood, Leaving, Told
  <2>3. OrdersGood(pir, pay)' /\ BatchesGood(pir, pay, red)' /\ WallsGood(pir)'
    BY DEF OrdersGood, BatchesGood, WallsGood, ExitLast
  <2>4. QED
    BY <2>2, <2>3 DEF KingRight
<1>3. RipeGood'
  BY DEF RipeGood, Spawn, Plea
<1>4. BootGood'
  <2>1. pir'.sat = "boot" => Gulf = 0
    BY DEF Gulf, LastKey
  <2>2. QED
    BY <1>1, <2>1 DEF AInv, BootGood
<1>5. QED
  BY <1>1, <1>2, <1>3, <1>4 DEF AInv, IdleGood

(* u3_pier_boot(), u3_pier_stay(). *)
LEMMA StartsAInv == PInv /\ AInv /\ (StartBoot \/ Stay) => AInv'
<1> SUFFICES ASSUME PInv, AInv, StartBoot \/ Stay PROVE AInv'
  OBVIOUS
<1>1. CASE StartBoot
  <2>1. pir' = [Down EXCEPT !.sat = "boot"] /\ DiskOpen /\ Spawn /\ chk' = chk /\ env.new
    BY <1>1 DEF StartBoot
  <2>2. DOMAIN db = {}
    BY <2>1 DEF PInv, NewGood
  <2>3. /\ pir'.sat = "boot" /\ pir'.liv = FALSE /\ pir'.wok = FALSE /\ pir'.wri = <<>>
        /\ pir'.wal = <<>> /\ pir'.pep = FALSE
    BY <2>1 DEF Down
  <2>4. QED
    BY <2>1, <2>2, <2>3, StartAInv
<1>2. CASE Stay
  <2>1. PICK b \in Peps : pir' = [Down EXCEPT !.sat = "init", !.pep = b]
    BY <1>2 DEF Stay
  <2>2. DiskOpen /\ Spawn /\ chk' = chk
    BY <1>2 DEF Stay
  <2>3. /\ pir'.sat = "init" /\ pir'.liv = FALSE /\ pir'.wok = FALSE /\ pir'.wri = <<>>
        /\ pir'.wal = <<>>
    BY <2>1 DEF Down
  <2>4. QED
    BY <2>2, <2>3, StartAInv
<1>3. QED
  BY <1>1, <1>2

(* Nothing it speaks of changes. *)
LEMMA SameAInv ==
  ASSUME AInv, UNCHANGED <<pir, pay, out, hst, chk, red>>, UNCHANGED <<db, sen, dun, req>>
  PROVE  AInv'
<1>1. Gulf' = Gulf
  BY DEF Gulf
<1>2. KingRight'
  BY <1>1 DEF AInv, KingRight, AnswersGood, OrdersGood, BatchesGood, LeavingGood, WallsGood
<1>3. QED
  BY <1>1, <1>2 DEF AInv, RipeGood, BootGood, IdleGood

(* The worker ends; the king writes metadata. *)
LEMMA QuietAInv == AInv /\ (SerfDies \/ SerfExit \/ BootMeta \/ UNCHANGED vars) => AInv'
<1> SUFFICES ASSUME AInv, SerfDies \/ SerfExit \/ BootMeta \/ UNCHANGED vars PROVE AInv'
  OBVIOUS
<1>1. CASE SerfDies
  BY <1>1, SameAInv DEF SerfDies, diskVars, writeVars
<1>2. CASE SerfExit
  BY <1>2, SameAInv DEF SerfExit, diskVars, writeVars
<1>3. CASE BootMeta
  BY <1>3, SameAInv DEF BootMeta, DiskSaveMeta, pierVars
<1>4. CASE UNCHANGED vars
  BY <1>4, SameAInv DEF vars, diskVars, writeVars, pierVars
<1>5. QED
  BY <1>1, <1>2, <1>3, <1>4

(* _disk_commit() leaves an idle request empty. *)
LEMMA CommitIdle ==
  ASSUME NEW r, NEW p, NEW s, NEW d, r.sat = "idle" => r = Idle
  PROVE  Commit(r, p, s, d).sat = "idle" => Commit(r, p, s, d) = Idle
  BY DEF Commit, Batch

(* u3_disk_boot_save(): the boot sequence is planned. *)
LEMMA BootPlanAInv == AInv /\ BootPlan => AInv'
<1> SUFFICES ASSUME AInv, BootPlan PROVE AInv'
  OBVIOUS
<1>1. /\ pir.sat = "boot" /\ sen = 0 /\ DiskBoot(BootSeq) /\ red' = red
      /\ UNCHANGED <<pir, pay, out, hst, chk>>
  BY DEF BootPlan, Booting, pierVars
<1>2. /\ sen' = sen + Len(BootSeq) /\ Gulf' = Gulf /\ dun' = dun
      /\ req' = Commit(req, put', sen', dun)
  BY <1>1 DEF DiskBoot, Gulf
<1>3. sen' = BootLen
  <2>1. BootLen \in Nat
    BY PierAssumption
  <2>2. Len(BootSeq) = BootLen
    BY <2>1 DEF BootSeq
  <2>3. QED
    BY <1>1, <1>2, <2>1, <2>2
<1>4. ~Leaving(pir)
  BY <1>1 DEF AInv, KingRight, LeavingGood
<1>5. KingRight'
  BY <1>1, <1>4 DEF AInv, KingRight, AnswersGood, OrdersGood, BatchesGood, LeavingGood, WallsGood, Leaving, Told
<1>6. IdleGood'
  BY <1>2, CommitIdle DEF AInv, IdleGood
<1>7. QED
  BY <1>1, <1>2, <1>3, <1>5, <1>6 DEF AInv, RipeGood, BootGood

(* The write thread: the boot sequence is written as a whole. *)
LEMMA WriteThreadAInv == PInv /\ PInv' /\ AInv /\ WriteThread => AInv'
<1> SUFFICES ASSUME PInv, PInv', AInv, WriteThread PROVE AInv'
  OBVIOUS
<1>1. /\ req.sat = "wait" /\ req'.sat # "idle" /\ UNCHANGED <<pir, pay, out, hst, chk, red>>
      /\ UNCHANGED <<sen, dun, liv>> /\ DiskCommitCb
  <2>1. req \in Reqs
    BY DEF PInv, TypeOK, DiskTypeOK
  <2>2. QED
    BY <2>1 DEF WriteThread, DiskCommitCb, pierVars, Reqs
<1>2. liv /\ sen # dun /\ (pir.sat = "boot" \/ pir.wok) /\ ~Leaving(pir)
  BY <1>1, WritesWhen
<1>3. KingRight'
  BY <1>1, <1>2 DEF AInv, KingRight, AnswersGood, OrdersGood, BatchesGood, LeavingGood, WallsGood, Leaving, Told
<1>4. BootGood'
  <2>1. Gulf \in Nat /\ Gulf' \in Nat /\ dun \in Nat /\ BootLen \in Nat /\ BootLen > 0
    <3>1. Gulf \in Nat /\ dun \in Nat
      BY DEF PInv, LogGood, Core, LogContiguous, DiskTypeOK
    <3>2. Gulf' \in Nat
      BY DEF PInv, LogGood, Core, LogContiguous
    <3>3. BootLen \in Nat \ {0}
      BY PierAssumption
    <3>4. QED
      BY <3>1, <3>2, <3>3
  <2>2. CASE db' = db
    BY <1>1, <2>2 DEF AInv, BootGood, Gulf
  <2>3. CASE db' # db
    <3>1. req'.sat = "good" /\ req'.job = req.job
      <4>1. req' = [req EXCEPT !.sat = "good"] /\ req \in Reqs
        BY <1>1, <2>3 DEF DiskCommitCb, PInv, TypeOK, DiskTypeOK
      <4>2. QED
        BY <4>1 DEF Reqs
    <3>2. Gulf' = dun + Len(req.job) /\ Gulf = dun /\ 0 < Len(req.job) /\ Len(req.job) \in Nat
      <4>1. Gulf' = dun + Len(req.job)
        BY <1>1, <1>2, <3>1 DEF PInv, LogGood, Core, AckIsDurable
      <4>2. Gulf = dun /\ 0 < Len(req.job)
        BY <1>1, <1>2 DEF PInv, LogGood, Core, AckIsDurable, DiskAsserts, WriteIsPrefix
      <4>3. Len(req.job) \in Nat
        BY DEF PInv, TypeOK, DiskTypeOK, Reqs
      <4>4. QED
        BY <4>1, <4>2, <4>3
    <3>3. CASE Gulf # 0
      BY <1>1, <2>1, <3>2, <3>3 DEF AInv, BootGood
    <3>4. CASE Gulf = 0
      <4>1. pir.sat = "boot" /\ sen \in {0, BootLen}
        BY <1>2, <3>4 DEF AInv, BootGood
      <4>2. Len(req.job) = sen /\ sen = BootLen
        BY <1>2, <3>2, <3>4, <4>1 DEF PInv, KingGood
      <4>3. Gulf' = BootLen
        BY <2>1, <3>2, <3>4, <4>2
      <4>4. QED
        BY <1>1, <2>1, <4>1, <4>3 DEF AInv, BootGood
    <3>5. QED
      BY <3>3, <3>4
  <2>4. QED
    BY <2>2, <2>3
<1>5. QED
  BY <1>1, <1>3, <1>4 DEF AInv, RipeGood, IdleGood

(* A read of events that the log has returns all of them. *)
LEMMA ReadFactsWhole ==
  ASSUME NEW n \in Nat, DOMAIN db = 1 .. n, NEW e \in Nat \ {0}, NEW len \in Nat,
         e + len - 1 <= n
  PROVE  Len(ReadFacts(e, len)) = len
<1> DEFINE P(c) == /\ \A i \in 0 .. c - 1 : e + i \in DOMAIN db
                   /\ c < len => e + c \notin DOMAIN db
           c == CHOOSE c \in 0 .. len : P(c)
<1>1. len \in 0 .. len /\ P(len)
  OBVIOUS
<1>2. c \in 0 .. len /\ P(c)
  <2>1. \E x \in 0 .. len : P(x)
    BY <1>1
  <2> HIDE DEF P
  <2>2. QED
    BY <2>1
<1>3. c = len
  BY <1>2, SMTT(30)
<1>4. ReadFacts(e, len) =
        [i \in 1 .. c |-> [eve |-> e + i - 1, job |-> db[e + i - 1]]]
  BY DEF ReadFacts
<1> HIDE DEF c
<1>5. QED
  BY <1>3, <1>4

(* _disk_read_start_cb(). *)
LEMMA ReadLogAInv == PInv /\ AInv /\ ReadLog => AInv'
<1> SUFFICES ASSUME PInv, AInv, ReadLog PROVE AInv'
  OBVIOUS
<1>1. /\ DiskReadStart /\ UNCHANGED <<pir, pay, out, hst, chk>>
      /\ UNCHANGED <<db, sen, dun, req>> /\ Gulf' = Gulf
  BY DEF ReadLog, writeVars, pierVars, Gulf
<1>2. red # <<>> /\ red \in Seq(Reads)
  BY <1>1 DEF DiskReadStart, PInv, TypeOK, DiskTypeOK
<1>3. pir.sat = "play"
  BY <1>2 DEF PInv, KingGood
<1>4. PICK x \in Reads : x = red[1]
  BY <1>2
<1>5. /\ FirstRead(x) /\ x.eve + x.len - 1 <= pay.eve /\ pay.eve <= dun
  BY <1>2, <1>3, <1>4 DEF AInv, KingRight, BatchesGood, PInv, PlayGood
<1>6. red'[1] = [x EXCEPT !.sat = "held", !.fac = ReadFacts(x.eve, x.len)]
  <2>1. 1 \in DOMAIN red
    BY <1>2
  <2>2. red' = [red EXCEPT ![1] = [red[1] EXCEPT !.sat = "held",
                                                 !.fac = ReadFacts(red[1].eve, red[1].len)]]
    BY <1>1 DEF DiskReadStart
  <2>3. QED
    BY <1>4, <2>1, <2>2
<1>7. red'[1].eve = x.eve /\ red'[1].len = x.len /\ red'[1].fac = ReadFacts(x.eve, x.len)
  BY <1>6 DEF Reads
<1>8. x.eve = 1 => Len(ReadFacts(x.eve, x.len)) = x.len
  <2>1. SUFFICES ASSUME x.eve = 1 PROVE Len(ReadFacts(1, x.len)) = x.len
    OBVIOUS
  <2>2. x.len \in Nat /\ pay.eve \in Nat
    BY DEF Reads, PInv, TypeOK, Plays
  <2>3. 1 + x.len - 1 <= Gulf /\ DOMAIN db = 1 .. Gulf /\ Gulf \in Nat
    BY <1>5, <2>1, <2>2, KingFacts, SMTT(30)
  <2>4. QED
    BY <2>2, <2>3, ReadFactsWhole, SMTT(30)
<1>9. FirstRead(red'[1])
  BY <1>5, <1>7, <1>8 DEF FirstRead
<1>10. BatchesGood(pir, pay, red)'
  BY <1>1, <1>9 DEF AInv, KingRight, BatchesGood
<1>11. KingRight'
  BY <1>1, <1>10 DEF AInv, KingRight, AnswersGood, OrdersGood, LeavingGood, WallsGood
<1>12. QED
  BY <1>1, <1>11 DEF AInv, RipeGood, BootGood, IdleGood

-----------------------------------------------------------------------------
(* The worker *)

(* One more answer. *)
LEMMA CountsOn ==
  ASSUME NEW e, NEW n \in Nat, NEW m \in Nat, NEW o \in Seq(Pleas), NEW w, NEW q \in Pleas,
         Counts(e, n, o, w), Counted(q, w[Len(o) + 1], n, m)
  PROVE  Counts(e, m, Append(o, q), w)
<1>1. PICK l \in Nat : l = Len(o)
  OBVIOUS
<1>2. PICK f \in [0 .. l -> Nat] : f[0] = e /\ f[l] = n /\ CountedBy(f, o, w)
  BY <1>1 DEF Counts
<1>3. PICK t \in Seq(Pleas) : /\ t = Append(o, q) /\ Len(t) = l + 1 /\ t[l + 1] = q
                              /\ \A i \in 1 .. l : t[i] = o[i]
  BY <1>1, AppendProperties
<1>4. PICK g \in [0 .. l + 1 -> Nat] : \A i \in 0 .. l + 1 : g[i] = IF i <= l THEN f[i] ELSE m
  <2>1. \A i \in 0 .. l + 1 : (IF i <= l THEN f[i] ELSE m) \in Nat
    BY <1>1, <1>2, SMTT(30)
  <2>2. [i \in 0 .. l + 1 |-> IF i <= l THEN f[i] ELSE m] \in [0 .. l + 1 -> Nat]
    BY <2>1
  <2>3. QED
    BY <2>2
<1>5. g[0] = e /\ g[l] = n /\ g[l + 1] = m /\ \A i \in 0 .. l : g[i] = f[i]
  BY <1>1, <1>2, <1>4, SMTT(30)
<1>6. ASSUME NEW i \in 1 .. l + 1 PROVE Counted(t[i], w[i], g[i - 1], g[i])
  <2>1. CASE i = l + 1
    <3>1. Counted(q, w[l + 1], n, m) /\ i - 1 = l
      BY <1>1, <2>1
    <3>2. QED
      BY <1>3, <1>5, <2>1, <3>1
  <2>2. CASE i # l + 1
    <3>1. i \in 1 .. l /\ i - 1 \in 0 .. l /\ i \in 0 .. l
      BY <1>1, <2>2
    <3>2. Counted(o[i], w[i], f[i - 1], f[i])
      BY <1>1, <1>2, <3>1 DEF CountedBy
    <3>3. QED
      BY <1>3, <1>5, <3>1, <3>2
  <2>3. QED
    BY <2>1, <2>2
<1>7. CountedBy(g, t, w)
  BY <1>3, <1>6 DEF CountedBy
<1>8. QED
  BY <1>3, <1>5, <1>7 DEF Counts

(* What the worker does with a writ: it answers in kind, counts, and takes *)
(* a snapshot when it is told to.                                          *)
Handles(q) ==
  /\ srf /\ inn # <<>> /\ q \in Pleas /\ Answering(q, inn[1])
  /\ Counted(q, inn[1], Len(hst), Len(hst'))
  /\ IF inn[1].typ \in {"save", "cram"}
     THEN chk' = hst /\ inn[1].eve = Len(hst) ELSE chk' = chk
  /\ Answers(q)

LEMMA HandlesAInv ==
  ASSUME PInv, AInv, Len(hst') \in Nat, NEW q, Handles(q)
  PROVE  AInv'
<1>1. /\ srf /\ inn # <<>> /\ q \in Pleas /\ Answering(q, inn[1])
      /\ Counted(q, inn[1], Len(hst), Len(hst'))
      /\ UNCHANGED <<db, sen, dun, req, red, pir, pay>> /\ Gulf' = Gulf
      /\ out' = IF pir.sat = "down" THEN out ELSE Append(out, q)
  BY DEF Handles, Answers, diskVars, Gulf
<1>2. CASE pir.sat = "down"
  <2>1. pir.wri = <<>> /\ pir.wal = <<>>
    BY <1>2, DownIs DEF PInv, KingGood
  <2>2. ~Leaving(pir)
    BY <2>1 DEF Leaving, Told
  <2>3. KingRight'
    BY <1>1, <1>2, <2>2 DEF AInv, KingRight, AnswersGood, OrdersGood, BatchesGood, LeavingGood, WallsGood, Leaving, Told
  <2>4. QED
    BY <1>1, <1>2, <2>3 DEF AInv, RipeGood, BootGood, IdleGood
<1>3. CASE pir.sat # "down"
  <2>1. /\ pir.liv /\ Len(out) + 1 \in 1 .. Len(pir.wri)
        /\ inn[1] = pir.wri[Len(out) + 1] /\ inn[1] \in Writs
        /\ Placed(pir, pay.eve, inn[1], Len(out) + 1)
        /\ Counts(pir.eve, Len(hst), out, pir.wri)
        /\ \A i \in 1 .. Len(out) : Answering(out[i], pir.wri[i])
    BY <1>1, <1>3, NextWrit
  <2>2. /\ out \in Seq(Pleas) /\ Len(out) \in Nat /\ Len(hst) \in Nat /\ pir.wri \in Seq(Writs)
    BY KingFacts
  <2>3. out' = Append(out, q)
    BY <1>1, <1>3
  <2>4. Counts(pir.eve, Len(hst'), Append(out, q), pir.wri)
    BY <1>1, <2>1, <2>2, CountsOn
  <2>5. ASSUME NEW i \in 1 .. Len(out') PROVE Answering(out'[i], pir.wri[i])
    <3>1. /\ Len(out') = Len(out) + 1 /\ out'[Len(out) + 1] = q
          /\ \A k \in 1 .. Len(out) : out'[k] = out[k]
      BY <1>1, <2>2, <2>3
    <3>2. i = Len(out) + 1 \/ i \in 1 .. Len(out)
      BY <2>2, <3>1
    <3>3. QED
      BY <1>1, <2>1, <3>1, <3>2
  <2>6. AnswersGood(pir, out)'
    BY <1>1, <2>3, <2>4, <2>5 DEF AnswersGood
  <2>7. LeavingGood(pir, out)'
    <3>1. SUFFICES ASSUME Leaving(pir) PROVE Len(chk') = Gulf
      BY <1>1, SMTT(30) DEF AInv, KingRight, LeavingGood, Leaving, Told
    <3>2. /\ pir.eve = Gulf
          /\ Len(chk) = Gulf \/ (out = <<>> /\ pir.wri[1].typ = "save")
      BY <3>1 DEF AInv, KingRight, LeavingGood
    <3>3. CASE inn[1].typ \in {"save", "cram"}
      BY <2>1, <3>2, <3>3 DEF Handles, Placed
    <3>4. CASE inn[1].typ \notin {"save", "cram"}
      <4>1. chk' = chk
        BY <3>4 DEF Handles
      <4>2. out = <<>> => inn[1] = pir.wri[1]
        BY <2>1
      <4>3. QED
        BY <3>2, <3>4, <4>1, <4>2
    <3>5. QED
      BY <3>3, <3>4
  <2>8. KingRight'
    BY <1>1, <2>6, <2>7 DEF AInv, KingRight, OrdersGood, BatchesGood, WallsGood, Told
  <2>9. QED
    BY <1>1, <2>1, <2>8 DEF AInv, RipeGood, BootGood, IdleGood
<1>4. QED
  BY <1>2, <1>3

(* u3_serf_writ(), writ by writ. *)
LEMMA SerfAInv == PInv /\ PInv' /\ AInv /\ Serf => AInv'
<1> SUFFICES ASSUME PInv, PInv', AInv, Serf PROVE AInv'
  OBVIOUS
<1>1. Len(hst) \in Nat /\ hst \in Seq(Job) /\ inn \in Seq(Writs)
  BY KingFacts
<1>2. Len(hst') \in Nat
  BY DEF PInv, TypeOK
<1>3. <<>> \in Seq(Job)
  OBVIOUS
<1>4. CASE SerfWork
  <2>1. srf /\ inn # <<>> /\ inn[1].typ = "work" /\ hst # <<>> /\ chk' = chk
    BY <1>4 DEF SerfWork, Takes
  <2>2. 0 < Len(hst)
    BY <1>1, <2>1
  <2>3. CASE hst' = Append(hst, inn[1].job[1]) /\ Answers(Plea("done", Len(hst'), <<>>))
    <3>1. Len(hst') = Len(hst) + 1
      BY <1>1, <2>3
    <3>2. PICK q \in Pleas : q = Plea("done", Len(hst'), <<>>) /\ q.typ = "done" /\ q.eve = Len(hst')
      <4>1. /\ Plea("done", Len(hst'), <<>>) \in Pleas
            /\ Plea("done", Len(hst'), <<>>).typ = "done" /\ Plea("done", Len(hst'), <<>>).eve = Len(hst')
        BY <1>2, <1>3 DEF Plea, Pleas, PleaType
      <4>2. QED
        BY <4>1
    <3>3. Handles(q)
      BY <2>1, <2>2, <2>3, <3>1, <3>2 DEF Handles, Answering, Counted
    <3>4. QED
      BY <1>2, <3>3, HandlesAInv
  <2>4. CASE hst' = Append(hst, Crud(inn[1].job[1]))
             /\ Answers(Plea("swap", Len(hst'), <<Crud(inn[1].job[1])>>))
    <3>1. Len(hst') = Len(hst) + 1
      BY <1>1, <2>4
    <3>2. <<Crud(inn[1].job[1])>> \in Seq(Job)
      <4>1. hst' \in Seq(Job)
        BY DEF PInv, TypeOK
      <4>2. hst'[Len(hst) + 1] = Crud(inn[1].job[1]) /\ Len(hst) + 1 \in 1 .. Len(hst')
        BY <1>1, <2>4, <3>1
      <4>3. Crud(inn[1].job[1]) \in Job
        BY <4>1, <4>2
      <4>4. QED
        BY <4>3
    <3>3. PICK q \in Pleas : q = Plea("swap", Len(hst'), <<Crud(inn[1].job[1])>>) /\ q.typ = "swap" /\ q.eve = Len(hst')
      <4>1. /\ Plea("swap", Len(hst'), <<Crud(inn[1].job[1])>>) \in Pleas
            /\ Plea("swap", Len(hst'), <<Crud(inn[1].job[1])>>).typ = "swap" /\ Plea("swap", Len(hst'), <<Crud(inn[1].job[1])>>).eve = Len(hst')
        BY <1>2, <3>2 DEF Plea, Pleas, PleaType
      <4>2. QED
        BY <4>1
    <3>4. Handles(q)
      BY <2>1, <2>2, <2>4, <3>1, <3>3 DEF Handles, Answering, Counted
    <3>5. QED
      BY <1>2, <3>4, HandlesAInv
  <2>5. CASE hst' = hst /\ Answers(Plea("bail", 0, <<>>))
    <3>1. PICK q \in Pleas : q = Plea("bail", 0, <<>>) /\ q.typ = "bail"
      <4>1. /\ Plea("bail", 0, <<>>) \in Pleas
            /\ Plea("bail", 0, <<>>).typ = "bail"
        BY <1>3 DEF Plea, Pleas, PleaType
      <4>2. QED
        BY <4>1
    <3>2. Handles(q)
      BY <2>1, <2>5, <3>1 DEF Handles, Answering, Counted
    <3>3. QED
      BY <1>2, <3>2, HandlesAInv
  <2>6. QED
    BY <1>4, <2>3, <2>4, <2>5 DEF SerfWork
<1>5. CASE SerfPlay
  <2>1. srf /\ inn # <<>> /\ inn[1].typ = "play" /\ chk' = chk /\ inn[1].eve = Len(hst) + 1
    BY <1>5 DEF SerfPlay, Takes
  <2>2. CASE hst' = hst \o inn[1].job /\ Answers(Plea("played", 0, <<>>))
    <3>1. inn[1] \in Writs
      BY <1>1, <2>1
    <3>2. inn[1].job \in Seq(Job)
      BY <3>1 DEF Writs
    <3>3. Len(hst') = Len(hst) + Len(inn[1].job) /\ Len(inn[1].job) \in Nat
      BY <1>1, <2>2, <3>2
    <3>4. Len(hst') = inn[1].eve + Len(inn[1].job) - 1
      <4>1. PICK a \in Nat, b \in Nat : a = Len(hst) /\ b = Len(inn[1].job)
        BY <1>1, <3>3
      <4>2. Len(hst') = a + b /\ inn[1].eve = a + 1
        BY <2>1, <3>3, <4>1
      <4>3. (a + 1) + b - 1 = a + b
        OBVIOUS
      <4>4. QED
        BY <4>1, <4>2, <4>3
    <3>5. PICK q \in Pleas : q = Plea("played", 0, <<>>) /\ q.typ = "played"
      <4>1. /\ Plea("played", 0, <<>>) \in Pleas
            /\ Plea("played", 0, <<>>).typ = "played"
        BY <1>3 DEF Plea, Pleas, PleaType
      <4>2. QED
        BY <4>1
    <3>6. Handles(q)
      BY <2>1, <2>2, <3>4, <3>5 DEF Handles, Answering, Counted
    <3>7. QED
      BY <1>2, <3>6, HandlesAInv
  <2>3. CASE Answers(Plea("stuck", Len(hst'), <<>>))
    <3>1. PICK q \in Pleas : q = Plea("stuck", Len(hst'), <<>>) /\ q.typ = "stuck"
      <4>1. /\ Plea("stuck", Len(hst'), <<>>) \in Pleas
            /\ Plea("stuck", Len(hst'), <<>>).typ = "stuck"
        BY <1>2, <1>3 DEF Plea, Pleas, PleaType
      <4>2. QED
        BY <4>1
    <3>2. Handles(q)
      BY <2>1, <2>3, <3>1 DEF Handles, Answering, Counted
    <3>3. QED
      BY <1>2, <3>2, HandlesAInv
  <2>4. QED
    BY <1>5, <2>2, <2>3 DEF SerfPlay
<1>6. CASE SerfSave
  <2>1. /\ srf /\ inn # <<>> /\ inn[1].typ \in {"save", "cram"} /\ chk' = hst
        /\ inn[1].eve = Len(hst) /\ hst' = hst /\ Answers(Plea("live", 0, <<>>))
    BY <1>6 DEF SerfSave, Takes
  <2>2. PICK q \in Pleas : q = Plea("live", 0, <<>>) /\ q.typ = "live"
    <3>1. /\ Plea("live", 0, <<>>) \in Pleas
          /\ Plea("live", 0, <<>>).typ = "live"
      BY <1>3 DEF Plea, Pleas, PleaType
    <3>2. QED
      BY <3>1
  <2>3. Handles(q)
    BY <2>1, <2>2 DEF Handles, Answering, Counted
  <2>4. QED
    BY <1>2, <2>3, HandlesAInv
<1>7. CASE SerfPeek
  <2>1. /\ srf /\ inn # <<>> /\ inn[1].typ \in {"peek", "pack"} /\ chk' = chk /\ hst' = hst
        /\ Answers(Plea(IF inn[1].typ = "peek" THEN "peek" ELSE "live", 0, <<>>))
    BY <1>7 DEF SerfPeek, Takes
  <2>2. PICK t \in PleaType : t = IF inn[1].typ = "peek" THEN "peek" ELSE "live"
    BY DEF PleaType
  <2>3. PICK q \in Pleas : q = Plea(t, 0, <<>>) /\ q.typ = t
    <3>1. /\ Plea(t, 0, <<>>) \in Pleas
          /\ Plea(t, 0, <<>>).typ = t
      BY <1>3 DEF Plea, Pleas, PleaType
    <3>2. QED
      BY <3>1
  <2>4. Handles(q)
    BY <2>1, <2>2, <2>3 DEF Handles, Answering, Counted
  <2>5. QED
    BY <1>2, <2>4, HandlesAInv
<1>8. CASE SerfExit
  BY <1>8, QuietAInv
<1>9. QED
  BY <1>4, <1>5, <1>6, <1>7, <1>8 DEF Serf

-----------------------------------------------------------------------------
(* _pier_work(), writ by writ *)

(* A longer batch has no fewer ova. *)
LEMMA EggsGrow ==
  ASSUME NEW p \in Piers, NEW n \in 0 .. Len(p.ova) + p.pec, NEW k \in 0 .. n
  PROVE  Eggs(p, k) <= Eggs(p, n)
<1>1. Len(p.ova) \in Nat /\ p.pec \in Nat /\ k \in Nat /\ n \in Nat /\ k <= n
  BY PierFields
<1> DEFINE both == Lesser(Len(p.ova), p.pec)
<1>2. both \in Nat
  BY <1>1 DEF Lesser
<1>3. /\ k <= 2 * both => Eggs(p, k) = (k + 1) \div 2
      /\ (k > 2 * both /\ Len(p.ova) > both) => Eggs(p, k) = k - both
      /\ (k > 2 * both /\ Len(p.ova) <= both) => Eggs(p, k) = both
  BY <1>1, <1>2, SMTT(30) DEF Eggs
<1>4. /\ n <= 2 * both => Eggs(p, n) = (n + 1) \div 2
      /\ (n > 2 * both /\ Len(p.ova) > both) => Eggs(p, n) = n - both
      /\ (n > 2 * both /\ Len(p.ova) <= both) => Eggs(p, n) = both
  BY <1>1, <1>2, SMTT(30) DEF Eggs
<1> HIDE DEF both
<1>5. /\ (k + 1) \div 2 \in Nat /\ 2 * ((k + 1) \div 2) <= k + 1
      /\ (n + 1) \div 2 \in Nat /\ n <= 2 * ((n + 1) \div 2)
  BY <1>1
<1>6. n <= 2 * both => (k + 1) \div 2 <= (n + 1) \div 2
  BY <1>1, <1>2, <1>5
<1>7. k <= 2 * both => (k + 1) \div 2 <= both
  BY <1>1, <1>2, <1>5
<1>8. QED
  BY <1>1, <1>2, <1>3, <1>4, <1>6, <1>7

(* The writs from a to b of a queue are new work, with the spinner on.     *)
NewWork(q, a, b) ==
  \A i \in a .. b : q.wri[i].typ \in {"work", "peek"} /\ (q.wri[i].typ = "work" => q.pin)

(* _pier_work_send() starts the spinner with the first ovum. *)
LEMMA WorkSendPins ==
  ASSUME NEW p \in Piers, NEW q, q = WorkSend(p)
  PROVE  /\ p.pin => q.pin
         /\ NewWork(q, Len(p.wri) + 1, Len(q.wri))
<1>1. /\ Len(p.ova) \in Nat /\ p.pec \in Nat /\ p.wri \in Seq(Writs)
      /\ Len(p.wri) \in Nat /\ p.ova \in Seq(Job) /\ p.pin \in BOOLEAN
  BY PierFields
<1>2. PICK n \in 0 .. Len(p.ova) + p.pec : n = Lesser(WorkLen(p), Len(p.ova) + p.pec)
  <2>1. WorkLen(p) \in Nat
    BY <1>1, PierAssumption, SMTT(30) DEF WorkLen, Greater
  <2>2. QED
    BY <1>1, <2>1 DEF Lesser
<1>3. PICK sent : sent = [k \in 1 .. n |->
                            IF Eggs(p, k) > Eggs(p, k - 1)
                            THEN Writ("work", 0, <<p.ova[Eggs(p, k)]>>)
                            ELSE Writ("peek", 0, <<>>)]
  OBVIOUS
<1>4. q = [p EXCEPT !.wri = p.wri \o sent, !.pin = p.pin \/ Eggs(p, n) > 0,
                    !.ova = SubSeq(p.ova, Eggs(p, n) + 1, Len(p.ova)),
                    !.pec = p.pec - (n - Eggs(p, n))]
  BY <1>2, <1>3 DEF WorkSend
<1>5. q.wri = p.wri \o sent /\ q.pin = (p.pin \/ Eggs(p, n) > 0)
  BY <1>4, SMTT(30) DEF Piers
<1>6. ASSUME NEW k \in 1 .. n
      PROVE  sent[k].typ \in {"work", "peek"} /\ (sent[k].typ = "work" => Eggs(p, n) > 0)
  <2>1. k \in 0 .. n /\ k \in 0 .. Len(p.ova) + p.pec /\ k - 1 \in 0 .. Len(p.ova) + p.pec
    BY <1>1, <1>2
  <2>2. Eggs(p, k) <= Eggs(p, n)
    BY <2>1, EggsGrow
  <2>3. Eggs(p, k) \in Nat /\ Eggs(p, k - 1) \in Nat /\ Eggs(p, n) \in Nat
    BY <1>1, <1>2, <2>1, EggsIs
  <2>4. CASE Eggs(p, k) > Eggs(p, k - 1)
    <3>1. sent[k].typ = "work"
      BY <1>3, <2>4 DEF Writ
    <3>2. QED
      BY <2>2, <2>3, <2>4, <3>1
  <2>5. CASE ~(Eggs(p, k) > Eggs(p, k - 1))
    BY <1>3, <2>5 DEF Writ
  <2>6. QED
    BY <2>4, <2>5
<1>7. n \in Nat
  BY <1>1, <1>2
<1>8. Len(sent) = n
  BY <1>3, <1>7
<1>9. Len(q.wri) = Len(p.wri) + n /\ \A i \in 1 .. n : q.wri[Len(p.wri) + i] = sent[i]
  <2>1. PICK S : S = Writs \cup {sent[k] : k \in 1 .. n}
    OBVIOUS
  <2>2. sent \in Seq(S)
    <3>1. \A k \in 1 .. n : sent[k] \in S
      BY <2>1
    <3>2. sent \in [1 .. n -> S]
      BY <1>3, <3>1
    <3>3. QED
      BY <1>7, <3>2
  <2>3. p.wri \in Seq(S)
    BY <1>1, <2>1
  <2>4. /\ Len(p.wri \o sent) = Len(p.wri) + Len(sent)
        /\ \A i \in 1 .. Len(p.wri) + Len(sent) :
             (p.wri \o sent)[i] = IF i <= Len(p.wri) THEN p.wri[i] ELSE sent[i - Len(p.wri)]
    BY ONLY <2>2, <2>3, ConcatProperties
  <2>5. ASSUME NEW i \in 1 .. n PROVE q.wri[Len(p.wri) + i] = sent[i]
    <3>1. /\ Len(p.wri) + i \in 1 .. Len(p.wri) + Len(sent) /\ ~(Len(p.wri) + i <= Len(p.wri))
          /\ (Len(p.wri) + i) - Len(p.wri) = i
      BY <1>1, <1>7, <1>8
    <3>2. QED
      BY <1>5, <2>4, <3>1
  <2>6. QED
    BY <1>5, <1>8, <2>4, <2>5
<1>10. ASSUME NEW i \in Len(p.wri) + 1 .. Len(q.wri)
       PROVE  q.wri[i].typ \in {"work", "peek"} /\ (q.wri[i].typ = "work" => q.pin)
  <2>1. PICK k \in 1 .. n : i = Len(p.wri) + k
    <3>1. i - Len(p.wri) \in 1 .. n /\ i = Len(p.wri) + (i - Len(p.wri))
      BY <1>1, <1>7, <1>9
    <3>2. QED
      BY <3>1
  <2>2. q.wri[i] = sent[k]
    BY <1>9, <2>1
  <2>3. QED
    BY <1>5, <1>6, <2>2
<1>11. QED
  BY <1>5, <1>10 DEF NewWork

(* The outcomes of _pier_work() from king p: no barrier runs, or that of   *)
(* a snapshot, or that of the exit.                                        *)
NoBarrier(p) ==
  /\ pir'.wal = p.wal /\ pir'.wok = p.wok
  /\ NewWork(pir', Len(p.wri) + 1, Len(pir'.wri))
  /\ p.sat # "work" => pir'.wri = p.wri

SaveBarrier(p, d) ==
  /\ p.wri = <<>> /\ p.eve = d /\ p.wal # <<>> /\ p.wal[1] = "save"
  /\ pir'.wal = Tail(p.wal) /\ pir'.wok = p.wok
  /\ pir'.wri # <<>> /\ pir'.wri[1].typ = "save" /\ pir'.wri[1].eve = d
  /\ NewWork(pir', 2, Len(pir'.wri))
  /\ p.sat # "work" => Len(pir'.wri) = 1

ExitBarrier(p, d) ==
  /\ p.wri = <<>> /\ p.eve = d /\ p.wal # <<>> /\ p.wal[1] = "exit"
  /\ pir'.wal = Tail(p.wal) /\ ~pir'.wok
  /\ Len(pir'.wri) = 1 /\ pir'.wri[1].typ = "exit"

LEMMA WorkStep ==
  ASSUME NEW p \in Piers, NEW n \in 0 .. Len(p.gif), NEW d \in Nat, d = p.rel + n,
         Gap(p.gif, p.rel), \A i \in 1 .. Len(p.ova) : p.ova[i] \in Ovum,
         \A i \in 1 .. Len(p.wal) : p.wal[i] = "exit" => p.sat = "done",
         Work(p, d)
  PROVE  /\ p.pin => pir'.pin
         /\ NoBarrier(p) \/ SaveBarrier(p, d) \/ ExitBarrier(p, d)
<1>1. PICK k \in Piers : k = GiftKick(p, d)
  BY GiftKickIs
<1>2. /\ k.sat = p.sat /\ k.eve = p.eve /\ k.wri = p.wri /\ k.wok = p.wok
      /\ k.wal = p.wal /\ k.ova = p.ova
  BY <1>1, GiftKickIs, SMTT(30) DEF Alike
<1>3. k.pin = p.pin
  BY <1>1 DEF GiftKick, Piers
<1>4. PICK w \in Piers : w = Wall(k, d)
  BY WallIs
<1>5. PICK q : q = (IF w.sat = "work" THEN WorkSend(w) ELSE w)
  OBVIOUS
<1>6. pir' = q
  BY <1>1, <1>4, <1>5 DEF Work
<1>7. w.sat = p.sat /\ (w.ova = p.ova \/ w.ova = <<>>)
  BY <1>2, <1>4, WallIs, ZenonT(60) DEF Alike
<1>8. k.wal \in Seq({"save", "exit"}) /\ k.wri \in Seq(Writs) /\ k.eve \in Nat
      /\ k.pin \in BOOLEAN
  BY PierFields
<1>9. /\ k.pin => w.pin
      /\ \/ w.wal = k.wal /\ w.wok = k.wok /\ w.wri = k.wri
         \/ /\ k.wri = <<>> /\ k.eve = d /\ k.wal # <<>> /\ k.wal[1] = "save"
            /\ w.wal = Tail(k.wal) /\ w.wok = k.wok
            /\ Len(w.wri) = 1 /\ w.wri[1].typ = "save" /\ w.wri[1].eve = d
         \/ /\ k.wri = <<>> /\ k.eve = d /\ k.wal # <<>> /\ k.wal[1] = "exit"
            /\ w.wal = Tail(k.wal) /\ ~w.wok
            /\ Len(w.wri) = 1 /\ w.wri[1].typ = "exit"
  <2>1. CASE ~Walled(k, d)
    BY <1>4, <2>1 DEF Wall
  <2>2. CASE Walled(k, d) /\ k.wal[1] = "save"
    <3>1. k.wri = <<>> /\ k.eve = d /\ k.wal # <<>>
      BY <2>2 DEF Walled
    <3>2. PICK a : a = [k EXCEPT !.wal = Tail(k.wal)]
      OBVIOUS
    <3>3. a \in Piers /\ a.wri = <<>> /\ a.eve = d /\ a.wal = Tail(k.wal) /\ a.wok = k.wok /\ a.pin = k.pin
      <4>1. Tail(k.wal) \in Seq({"save", "exit"})
        BY <1>8, <3>1
      <4>2. QED
        BY <3>1, <3>2, <4>1 DEF Piers
    <3>4. PICK x \in Writs : x = Writ("save", d, <<>>) /\ x.typ = "save" /\ x.eve = d
      BY WritIs DEF WritType
    <3>5. w = LordPlan(a, x)
      <4>1. w = LordLive(a, "save")
        BY <1>4, <2>2, <3>2 DEF Wall
      <4>2. QED
        BY <3>3, <3>4, <4>1 DEF LordLive
    <3>6. /\ w.wal = a.wal /\ w.wok = a.wok /\ w.wri = Append(a.wri, x)
          /\ w.pin = (a.pin \/ x.typ = "work")
      BY <3>3, <3>5 DEF LordPlan, Piers
    <3>7. Len(w.wri) = 1 /\ w.wri[1] = x
      BY <3>3, <3>6
    <3>8. QED
      BY <2>2, <3>1, <3>3, <3>4, <3>6, <3>7
  <2>3. CASE Walled(k, d) /\ k.wal[1] = "exit"
    <3>1. k.wri = <<>> /\ k.eve = d /\ k.wal # <<>>
      BY <2>3 DEF Walled
    <3>2. PICK a : a = [k EXCEPT !.wal = Tail(k.wal), !.wok = FALSE,
                                 !.gif = <<>>, !.ova = <<>>]
      OBVIOUS
    <3>3. a \in Piers /\ a.wri = <<>> /\ a.wal = Tail(k.wal) /\ a.wok = FALSE /\ a.pin = k.pin
      <4>1. <<>> \in Seq(Fact) /\ <<>> \in Seq(Job) /\ Tail(k.wal) \in Seq({"save", "exit"})
        BY <1>8, <3>1
      <4>2. QED
        BY <3>1, <3>2, <4>1 DEF Piers
    <3>4. PICK x \in Writs : x = Writ("exit", 0, <<>>) /\ x.typ = "exit"
      BY WritIs DEF WritType
    <3>5. w = LordPlan(a, x)
      BY <1>4, <2>3, <3>2, <3>4 DEF Wall
    <3>6. /\ w.wal = a.wal /\ w.wok = a.wok /\ w.wri = Append(a.wri, x)
          /\ w.pin = (a.pin \/ x.typ = "work")
      BY <3>3, <3>5 DEF LordPlan, Piers
    <3>7. Len(w.wri) = 1 /\ w.wri[1] = x
      BY <3>3, <3>6
    <3>8. QED
      BY <2>3, <3>1, <3>3, <3>4, <3>6, <3>7
  <2>4. QED
    <3>1. k.wal # <<>> => k.wal[1] \in {"save", "exit"}
      BY <1>8
    <3>2. QED
      BY <2>1, <2>2, <2>3, <3>1 DEF Walled
<1>10. CASE w.sat # "work"
  <2>1. pir' = w
    BY <1>5, <1>6, <1>10
  <2>2. \A i \in Len(p.wri) + 1 .. Len(p.wri) : FALSE
    BY PierFields
  <2>3. \A i \in 2 .. 1 : FALSE
    OBVIOUS
  <2>4. w.wri = p.wri => NewWork(w, Len(p.wri) + 1, Len(w.wri))
    BY <2>2 DEF NewWork
  <2>5. Len(w.wri) = 1 => w.wri # <<>> /\ NewWork(w, 2, Len(w.wri))
    <3>1. SUFFICES ASSUME Len(w.wri) = 1 PROVE w.wri # <<>> /\ NewWork(w, 2, 1)
      OBVIOUS
    <3>2. w.wri # <<>>
      <4>1. PICK s \in Seq(Writs) : s = w.wri
        BY PierFields
      <4>2. Len(s) = 1 => s # <<>>
        OBVIOUS
      <4>3. QED
        BY <3>1, <4>1, <4>2
    <3>3. QED
      BY <2>3, <3>2 DEF NewWork
  <2>6. QED
    BY <1>2, <1>3, <1>9, <2>1, <2>4, <2>5 DEF NoBarrier, SaveBarrier, ExitBarrier
<1>11. CASE w.sat = "work"
  <2>1. pir' = WorkSend(w)
    BY <1>5, <1>6, <1>11
  <2>2. w.pin => pir'.pin
    BY <2>1, WorkSendPins
  <2>3. NewWork(pir', Len(w.wri) + 1, Len(pir'.wri))
    BY <2>1, WorkSendPins
  <2>4. \A i \in 1 .. Len(w.ova) : w.ova[i] \in Ovum
    BY <1>7
  <2>5. /\ pir'.wok = w.wok /\ pir'.wal = w.wal
        /\ Grows(w, d, w.wri, pir'.wri)
    BY <1>11, <2>1, <2>4, WorkSendIs
  <2>6. Len(w.wri) <= Len(pir'.wri) /\ \A i \in 1 .. Len(w.wri) : pir'.wri[i] = w.wri[i]
    BY <2>5 DEF Grows
  <2>7. k.wal # <<>> => k.wal[1] # "exit"
    <3>1. k.wal # <<>> => 1 \in 1 .. Len(k.wal)
      BY <1>8
    <3>2. QED
      BY <1>2, <1>7, <1>11, <3>1
  <2>8. Len(w.wri) = 1 => /\ pir'.wri # <<>> /\ pir'.wri[1] = w.wri[1]
                          /\ NewWork(pir', 2, Len(pir'.wri))
    <3>1. SUFFICES ASSUME Len(w.wri) = 1
                   PROVE  /\ pir'.wri # <<>> /\ pir'.wri[1] = w.wri[1]
                          /\ NewWork(pir', 2, Len(pir'.wri))
      OBVIOUS
    <3>2. 1 \in 1 .. Len(w.wri) /\ Len(w.wri) + 1 = 2
      BY <3>1
    <3>3. pir'.wri[1] = w.wri[1] /\ NewWork(pir', 2, Len(pir'.wri))
      BY <2>3, <2>6, <3>2
    <3>4. pir'.wri # <<>>
      BY <2>6, <3>1
    <3>5. QED
      BY <3>3, <3>4
  <2>9. QED
    BY <1>2, <1>3, <1>7, <1>9, <1>11, <2>2, <2>3, <2>5, <2>7, <2>8, SMTT(30)
    DEF NoBarrier, SaveBarrier, ExitBarrier
<1>12. QED
  BY <1>10, <1>11

-----------------------------------------------------------------------------
(* The callbacks of the king *)

(* The pleas after the first lead on from where it leads. *)
LEMMA CountsTail ==
  ASSUME NEW e, NEW n, NEW o \in Seq(Pleas), o # <<>>, NEW w \in Seq(Writs), w # <<>>,
         Len(o) <= Len(w), Counts(e, n, o, w)
  PROVE  \E b \in Nat : Counted(o[1], w[1], e, b) /\ Counts(b, n, Tail(o), Tail(w))
<1>1. PICK l \in Nat : l + 1 = Len(o)
  <2>1. Len(o) \in Nat /\ Len(o) # 0
    OBVIOUS
  <2>2. Len(o) - 1 \in Nat /\ (Len(o) - 1) + 1 = Len(o)
    BY <2>1
  <2>3. QED
    BY <2>2
<1>2. PICK f \in [0 .. l + 1 -> Nat] : f[0] = e /\ f[l + 1] = n /\ CountedBy(f, o, w)
  BY <1>1, SMTT(30) DEF Counts
<1>3. Len(Tail(o)) = l /\ \A i \in 1 .. l : Tail(o)[i] = o[i + 1] /\ Tail(w)[i] = w[i + 1]
  <2>1. Len(Tail(o)) = Len(o) - 1 /\ \A i \in 1 .. Len(o) - 1 : Tail(o)[i] = o[i + 1]
    OBVIOUS
  <2>2. \A i \in 1 .. Len(w) - 1 : Tail(w)[i] = w[i + 1]
    OBVIOUS
  <2>3. Len(o) - 1 = l /\ 1 .. l \subseteq 1 .. Len(w) - 1
    BY <1>1
  <2>4. QED
    BY <2>1, <2>2, <2>3
<1>4. PICK g \in [0 .. l -> Nat] : \A i \in 0 .. l : g[i] = f[i + 1]
  <2>1. \A i \in 0 .. l : f[i + 1] \in Nat
    BY <1>1, <1>2
  <2>2. [i \in 0 .. l |-> f[i + 1]] \in [0 .. l -> Nat]
    BY <2>1
  <2>3. QED
    BY <2>2
<1>5. g[0] = f[1] /\ g[l] = n /\ f[1] \in Nat
  BY <1>1, <1>2, <1>4
<1>6. ASSUME NEW i \in 1 .. l PROVE Counted(Tail(o)[i], Tail(w)[i], g[i - 1], g[i])
  <2>1. /\ i + 1 \in 1 .. l + 1 /\ i - 1 \in 0 .. l /\ i \in 0 .. l
        /\ (i + 1) - 1 = i /\ (i - 1) + 1 = i
    BY <1>1
  <2>2. Counted(o[i + 1], w[i + 1], f[i], f[i + 1])
    BY <1>1, <1>2, <2>1 DEF CountedBy
  <2>3. QED
    BY <1>3, <1>4, <2>1, <2>2
<1>7. CountedBy(g, Tail(o), Tail(w))
  BY <1>3, <1>6 DEF CountedBy
<1>8. Counts(f[1], n, Tail(o), Tail(w))
  BY <1>3, <1>5, <1>7 DEF Counts
<1>9. Counted(o[1], w[1], e, f[1])
  <2>1. 1 \in 1 .. Len(o) /\ 1 - 1 = 0
    BY <1>1
  <2>2. Counted(o[1], w[1], f[1 - 1], f[1])
    BY <1>2, <2>1 DEF CountedBy
  <2>3. QED
    BY <1>2, <2>1, <2>2
<1>10. QED
  BY <1>5, <1>8, <1>9, SMTT(30)

(* Writs behind the ones that are answered do not matter. *)
LEMMA CountsGrow ==
  ASSUME NEW e, NEW n, NEW o, Len(o) \in Nat, NEW w, NEW s,
         \A i \in 1 .. Len(o) : s[i] = w[i], Counts(e, n, o, w)
  PROVE  Counts(e, n, o, s)
  BY DEF Counts, CountedBy

(* King p is pir after the plea, if one is heard, before it plans more: it *)
(* has counted what the plea says.                                         *)
Kept(p) ==
  \/ out' = out /\ p.wri = pir.wri /\ p.eve = pir.eve
  \/ /\ out # <<>> /\ out' = Tail(out) /\ pir.wri # <<>> /\ p.wri = Tail(pir.wri)
     /\ \A b \in Nat : Counted(out[1], pir.wri[1], pir.eve, b) => p.eve = b

(* The pleas that are left lead from its count to the worker's. *)
LEMMA AnswersKept ==
  ASSUME PInv, AInv, pir.sat # "down", pir.liv, NEW p, Kept(p), NEW s,
         \A i \in 1 .. Len(p.wri) : s[i] = p.wri[i]
  PROVE  /\ \A i \in 1 .. Len(out') : Answering(out'[i], s[i])
         /\ Counts(p.eve, Len(hst), out', s)
<1>1. /\ out \in Seq(Pleas) /\ pir.wri \in Seq(Writs) /\ Len(out) \in Nat
      /\ Len(pir.wri) \in Nat /\ Len(out) <= Len(pir.wri)
  BY KingFacts, SMTT(30) DEF PInv, Pipes
<1>2. /\ \A i \in 1 .. Len(out) : Answering(out[i], pir.wri[i])
      /\ Counts(pir.eve, Len(hst), out, pir.wri)
  BY DEF AInv, KingRight, AnswersGood
<1>3. CASE out' = out /\ p.wri = pir.wri /\ p.eve = pir.eve
  <2>1. \A i \in 1 .. Len(out) : s[i] = pir.wri[i]
    BY <1>1, <1>3
  <2>2. QED
    BY <1>1, <1>2, <1>3, <2>1, CountsGrow
<1>4. CASE /\ out # <<>> /\ out' = Tail(out) /\ pir.wri # <<>> /\ p.wri = Tail(pir.wri)
           /\ \A b \in Nat : Counted(out[1], pir.wri[1], pir.eve, b) => p.eve = b
  <2>1. PICK b \in Nat : /\ Counted(out[1], pir.wri[1], pir.eve, b)
                         /\ Counts(b, Len(hst), Tail(out), Tail(pir.wri))
    BY <1>1, <1>2, <1>4, CountsTail
  <2>2. Len(out') = Len(out) - 1 /\ \A i \in 1 .. Len(out) - 1 : out'[i] = out[i + 1]
    BY <1>1, <1>4
  <2>3. Len(p.wri) = Len(pir.wri) - 1 /\ \A i \in 1 .. Len(pir.wri) - 1 : p.wri[i] = pir.wri[i + 1]
    BY <1>1, <1>4
  <2>4. ASSUME NEW i \in 1 .. Len(out')
        PROVE  /\ i + 1 \in 1 .. Len(out) /\ out'[i] = out[i + 1]
               /\ s[i] = pir.wri[i + 1] /\ s[i] = Tail(pir.wri)[i]
    <3>1. i \in 1 .. Len(out) - 1 /\ i + 1 \in 1 .. Len(out) /\ i \in 1 .. Len(pir.wri) - 1
      BY <1>1, <2>2
    <3>2. QED
      BY <1>4, <2>2, <2>3, <3>1
  <2>5. Len(out') \in Nat
    BY <1>1, <1>4
  <2>6. Counts(b, Len(hst), out', s)
    BY <1>4, <2>1, <2>4, <2>5, CountsGrow, ZenonT(60)
  <2>7. QED
    BY <1>2, <1>4, <2>1, <2>4, <2>6
<1>5. QED
  BY <1>3, <1>4 DEF Kept

(* The writs that are left are in place. *)
LEMMA OldPlaced ==
  ASSUME PInv, AInv, NEW p, Kept(p), NEW q, NEW t, q.eve = p.eve,
         p.wri # <<>> => (pir.sat = "play" => q.sat = "play" /\ t = pay.eve),
         \A i \in 1 .. Len(p.wri) : p.wri[i].typ = "work" => q.pin
  PROVE  \A i \in 1 .. Len(p.wri) : Placed(q, t, p.wri[i], i)
<1>1. pir.wri \in Seq(Writs) /\ Len(pir.wri) \in Nat
  BY KingFacts, SMTT(30)
<1>2. \A i \in 1 .. Len(pir.wri) : Placed(pir, pay.eve, pir.wri[i], i)
  BY DEF AInv, KingRight, OrdersGood
<1>3. CASE p.wri = pir.wri /\ p.eve = pir.eve
  <2>1. p.wri = <<>> => Len(p.wri) = 0
    OBVIOUS
  <2>2. QED
    BY <1>1, <1>2, <1>3, <2>1 DEF Placed
<1>4. CASE pir.wri # <<>> /\ p.wri = Tail(pir.wri)
  <2>1. Len(p.wri) = Len(pir.wri) - 1 /\ \A i \in 1 .. Len(pir.wri) - 1 : p.wri[i] = pir.wri[i + 1]
    BY <1>1, <1>4
  <2>2. ASSUME NEW i \in 1 .. Len(p.wri) PROVE Placed(q, t, p.wri[i], i)
    <3>1. i \in 1 .. Len(pir.wri) - 1 /\ i + 1 \in 1 .. Len(pir.wri) /\ i + 1 # 1
      BY <1>1, <2>1
    <3>2. p.wri[i] = pir.wri[i + 1] /\ Placed(pir, pay.eve, p.wri[i], i + 1)
      BY <1>2, <2>1, <3>1
    <3>3. p.wri # <<>>
      <4>1. p.wri = <<>> => Len(p.wri) = 0
        OBVIOUS
      <4>2. QED
        BY <4>1
    <3>4. QED
      BY <3>1, <3>2, <3>3 DEF Placed
  <2>3. QED
    BY <2>2
<1>5. QED
  BY <1>3, <1>4 DEF Kept

(* A sequence without its first element. *)
LEMMA TailIs ==
  ASSUME NEW S, NEW s \in Seq(S), s # <<>>
  PROVE  \E m \in Nat : /\ Len(s) = m + 1 /\ Tail(s) \in Seq(S) /\ Len(Tail(s)) = m
                        /\ \A i \in 1 .. m : Tail(s)[i] = s[i + 1]
                        /\ m = 0 <=> Tail(s) = <<>>
<1>1. Len(s) \in Nat /\ Len(s) # 0
  BY SMTT(30)
<1>2. PICK m \in Nat : Len(s) = m + 1
  <2>1. Len(s) - 1 \in Nat /\ Len(s) = (Len(s) - 1) + 1
    BY <1>1
  <2>2. QED
    BY <2>1
<1>3. Len(Tail(s)) = Len(s) - 1 /\ Tail(s) \in Seq(S)
  OBVIOUS
<1>4. Len(Tail(s)) = m
  BY <1>2, <1>3
<1>5. \A i \in 1 .. Len(s) - 1 : Tail(s)[i] = s[i + 1]
  OBVIOUS
<1>6. Len(s) - 1 = m
  BY <1>2
<1>7. PICK t \in Seq(S) : t = Tail(s)
  BY <1>3
<1>8. Len(t) = 0 <=> t = <<>>
  OBVIOUS
<1>9. QED
  BY <1>2, <1>3, <1>4, <1>5, <1>6, <1>7, <1>8

(* The barriers after the first. *)
LEMMA ExitLastTail ==
  ASSUME NEW s \in Seq({"save", "exit"}), s # <<>>, ExitLast(s)
  PROVE  ExitLast(Tail(s)) /\ (s[1] = "exit" => Tail(s) = <<>>)
<1>1. /\ Len(s) \in Nat /\ Len(s) # 0 /\ Len(Tail(s)) = Len(s) - 1
      /\ \A i \in 1 .. Len(s) - 1 : Tail(s)[i] = s[i + 1]
  OBVIOUS
<1>2. ASSUME NEW i \in 1 .. Len(Tail(s)), Tail(s)[i] = "exit"
      PROVE  i = Len(Tail(s)) /\ (1 < i => Tail(s)[i - 1] = "save")
  <2>1. i \in 1 .. Len(s) - 1 /\ i + 1 \in 1 .. Len(s) /\ s[i + 1] = "exit"
    BY <1>1, <1>2
  <2>2. i + 1 = Len(s) /\ (1 < i + 1 => s[(i + 1) - 1] = "save")
    BY <2>1 DEF ExitLast
  <2>3. i = Len(Tail(s))
    <3>1. PICK m \in Nat : Len(s) = m + 1 /\ Len(Tail(s)) = m
      BY TailIs
    <3>2. i \in Nat /\ i + 1 = m + 1
      BY <2>2, <3>1
    <3>3. i = m
      BY <3>2
    <3>4. QED
      BY <3>1, <3>3
  <2>4. ASSUME 1 < i PROVE Tail(s)[i - 1] = "save"
    <3>1. i - 1 \in 1 .. Len(s) - 1 /\ (i - 1) + 1 = i /\ (i + 1) - 1 = i /\ 1 < i + 1
      BY <1>1, <2>1, <2>4
    <3>2. Tail(s)[i - 1] = s[i] /\ s[i] = "save"
      BY <1>1, <2>2, <3>1
    <3>3. QED
      BY <3>2
  <2>5. QED
    BY <2>3, <2>4
<1>3. ASSUME s[1] = "exit" PROVE Tail(s) = <<>>
  <2>1. 1 \in 1 .. Len(s)
    BY <1>1
  <2>2. Len(s) = 1
    BY <1>3, <2>1 DEF ExitLast
  <2>3. QED
    BY <1>1, <2>2
<1>4. QED
  BY <1>2, <1>3 DEF ExitLast

(* What a king says of the worker holds of what is left after a plea. *)
LEMMA ToldKept ==
  ASSUME PInv, NEW p, Kept(p), Told(p)
  PROVE  Told(pir)
<1>1. pir.wri \in Seq(Writs) /\ Len(pir.wri) \in Nat
  BY KingFacts, SMTT(30)
<1>2. PICK i \in 1 .. Len(p.wri) : p.wri[i].typ = "exit"
  BY DEF Told
<1>3. CASE p.wri = pir.wri
  BY <1>2, <1>3 DEF Told
<1>4. CASE pir.wri # <<>> /\ p.wri = Tail(pir.wri)
  <2>1. Len(p.wri) = Len(pir.wri) - 1 /\ \A k \in 1 .. Len(pir.wri) - 1 : p.wri[k] = pir.wri[k + 1]
    BY <1>1, <1>4
  <2>2. i + 1 \in 1 .. Len(pir.wri) /\ p.wri[i] = pir.wri[i + 1]
    BY <1>1, <1>2, <2>1
  <2>3. QED
    BY <1>2, <2>2 DEF Told
<1>5. QED
  BY <1>3, <1>4 DEF Kept

(* There is at most one answer to each writ. *)
LEMMA KeptShort ==
  ASSUME PInv, pir.sat # "down", pir.liv, NEW p, Kept(p), p.wri = <<>>
  PROVE  out' = <<>>
<1>1. /\ out \in Seq(Pleas) /\ pir.wri \in Seq(Writs) /\ Len(out) \in Nat
      /\ Len(pir.wri) \in Nat /\ Len(out) <= Len(pir.wri)
  BY KingFacts, SMTT(30) DEF PInv, Pipes
<1>2. CASE out' = out /\ p.wri = pir.wri
  BY <1>1, <1>2
<1>3. CASE out # <<>> /\ out' = Tail(out) /\ pir.wri # <<>> /\ p.wri = Tail(pir.wri)
  <2>1. PICK m \in Nat : Len(pir.wri) = m + 1 /\ (m = 0 <=> Tail(pir.wri) = <<>>)
    BY <1>1, <1>3, TailIs
  <2>2. PICK k \in Nat : Len(out) = k + 1 /\ (k = 0 <=> Tail(out) = <<>>)
    BY <1>1, <1>3, TailIs
  <2>3. m = 0
    BY <1>3, <2>1
  <2>4. k + 1 <= 1
    BY <1>1, <2>1, <2>2, <2>3
  <2>5. k = 0
    BY <2>4
  <2>6. QED
    BY <1>3, <2>2, <2>5
<1>4. QED
  BY <1>2, <1>3 DEF Kept

(* King p calls _pier_work() with d events committed. *)
WorkOn(p, d) ==
  /\ pir.wok /\ p.wok /\ p.sat = pir.sat /\ p.liv = pir.liv /\ p.wal = pir.wal
  /\ p.ova = pir.ova /\ Gap(p.gif, p.rel) /\ p.rel <= d /\ d <= p.rel + Len(p.gif)
  /\ Kept(p) /\ \A i \in 1 .. Len(p.wri) : p.wri[i].typ = "work" => p.pin
  /\ UNCHANGED <<db, hst, chk, pay>> /\ IdleGood'
  /\ Leaving(pir) => UNCHANGED <<sen, dun, out>> /\ p.wri = pir.wri /\ p.eve = pir.eve
  /\ p.eve = d => Gulf = d /\ sen' = d /\ dun' = d

LEMMA WorkAInv ==
  ASSUME PInv, AInv, NEW p \in Piers, NEW d \in Nat, WorkOn(p, d), Work(p, d)
  PROVE  AInv'
<1>1. PICK n \in 0 .. Len(p.gif) : d = p.rel + n
  <2>1. p.rel \in Nat /\ Len(p.gif) \in Nat /\ p.rel <= d /\ d <= p.rel + Len(p.gif)
    BY PierFields DEF WorkOn
  <2>2. d - p.rel \in 0 .. Len(p.gif) /\ d = p.rel + (d - p.rel)
    BY <2>1
  <2>3. QED
    BY <2>2
<1>2. /\ \A i \in 1 .. Len(p.ova) : p.ova[i] \in Ovum
      /\ \A i \in 1 .. Len(p.wal) : p.wal[i] = "exit" => p.sat = "done"
  BY DEF WorkOn, PInv, QueuesGood
<1>3. Gap(p.gif, p.rel) /\ Kept(p)
  BY DEF WorkOn
<1>4. /\ pir' \in Piers /\ pir'.sat = p.sat /\ pir'.liv = p.liv /\ pir'.eve = p.eve
      /\ Grows(p, d, p.wri, pir'.wri)
  BY <1>1, <1>2, <1>3, WorkIs DEF Alike
<1>5. (p.pin => pir'.pin) /\ (NoBarrier(p) \/ SaveBarrier(p, d) \/ ExitBarrier(p, d))
  BY <1>1, <1>2, <1>3, WorkStep
<1>6. pir.sat \in {"work", "done"} /\ pir.liv
  BY WorkFacts DEF WorkOn
<1>7. /\ Len(p.wri) <= Len(pir'.wri) /\ \A i \in 1 .. Len(p.wri) : pir'.wri[i] = p.wri[i]
      /\ Len(p.wri) \in Nat /\ Len(pir'.wri) \in Nat /\ pir'.wri \in Seq(Writs)
      /\ p.wri \in Seq(Writs)
  BY <1>4, PierFields DEF Grows
<1>8. /\ UNCHANGED <<db, hst, chk, pay>> /\ IdleGood' /\ Gulf' = Gulf /\ pir.wok /\ p.wok
      /\ p.sat = pir.sat /\ p.wal = pir.wal
  BY DEF WorkOn, Gulf
<1>9. AnswersGood(pir, out)'
  <2>1. /\ \A i \in 1 .. Len(out') : Answering(out'[i], pir'.wri[i])
        /\ Counts(p.eve, Len(hst), out', pir'.wri)
    BY <1>3, <1>6, <1>7, AnswersKept
  <2>2. QED
    BY <1>4, <1>8, <2>1 DEF AnswersGood
<1>10. OrdersGood(pir, pay)'
  <2>1. \A i \in 1 .. Len(p.wri) : Placed(pir', pay'.eve, p.wri[i], i)
    BY <1>3, <1>4, <1>5, <1>6, OldPlaced DEF WorkOn
  <2>2. ASSUME NEW i \in Len(p.wri) + 1 .. Len(pir'.wri)
        PROVE  Placed(pir', pay'.eve, pir'.wri[i], i)
    <3>1. CASE NoBarrier(p)
      BY <2>2, <3>1 DEF NoBarrier, NewWork, Placed
    <3>2. CASE SaveBarrier(p, d)
      <4>1. i = 1 \/ i \in 2 .. Len(pir'.wri)
        BY <1>7
      <4>2. QED
        BY <1>4, <3>2, <4>1 DEF SaveBarrier, NewWork, Placed
    <3>3. CASE ExitBarrier(p, d)
      <4>1. i = 1
        BY <1>7, <3>3 DEF ExitBarrier
      <4>2. QED
        BY <3>3, <4>1 DEF ExitBarrier, Placed
    <3>4. QED
      BY <1>5, <3>1, <3>2, <3>3
  <2>3. ASSUME NEW i \in 1 .. Len(pir'.wri) PROVE Placed(pir', pay'.eve, pir'.wri[i], i)
    <3>1. i \in 1 .. Len(p.wri) \/ i \in Len(p.wri) + 1 .. Len(pir'.wri)
      BY <1>7
    <3>2. QED
      BY <1>7, <2>1, <2>2, <3>1
  <2>4. QED
    BY <2>3 DEF OrdersGood
<1>11. BatchesGood(pir, pay, red)'
  BY <1>4, <1>6, <1>8 DEF BatchesGood
<1>12. ExitLast(pir.wal) /\ pir.wal \in Seq({"save", "exit"})
  BY KingFacts DEF AInv, KingRight, WallsGood
<1>13. LeavingGood(pir, out)'
  <2>1. SUFFICES ASSUME Leaving(pir')
                 PROVE  /\ pir'.sat = "done" /\ sen' = dun' /\ pir'.eve = Gulf
                        /\ \A i \in 1 .. Len(pir'.wri) : pir'.wri[i].typ \notin {"work", "play"}
                        /\ \/ Len(chk) = Gulf
                           \/ out' = <<>> /\ pir'.wri # <<>> /\ pir'.wri[1].typ = "save"
    BY <1>8 DEF LeavingGood, Leaving, Told
  <2>2. CASE NoBarrier(p)
    <3>1. Leaving(pir)
      <4>1. pir'.wal = pir.wal
        BY <1>8, <2>2 DEF NoBarrier
      <4>2. ASSUME Told(pir') PROVE Told(pir)
        <5>1. PICK i \in 1 .. Len(pir'.wri) : pir'.wri[i].typ = "exit"
          BY <4>2 DEF Told
        <5>2. i \notin Len(p.wri) + 1 .. Len(pir'.wri)
          BY <2>2, <5>1 DEF NoBarrier, NewWork
        <5>3. i \in 1 .. Len(p.wri)
          BY <1>7, <5>2
        <5>4. Told(p)
          BY <1>7, <5>1, <5>3 DEF Told
        <5>5. QED
          BY <1>3, <5>4, ToldKept
      <4>3. QED
        BY <2>1, <4>1, <4>2 DEF Leaving
    <3>2. UNCHANGED <<sen, dun, out>> /\ p.wri = pir.wri /\ p.eve = pir.eve
      BY <3>1 DEF WorkOn
    <3>3. /\ pir.sat = "done" /\ sen = dun /\ pir.eve = Gulf
          /\ \A i \in 1 .. Len(pir.wri) : pir.wri[i].typ \notin {"work", "play"}
          /\ \/ Len(chk) = Gulf
             \/ out = <<>> /\ pir.wri # <<>> /\ pir.wri[1].typ = "save"
      BY <3>1 DEF AInv, KingRight, LeavingGood
    <3>4. pir'.wri = pir.wri
      BY <1>8, <2>2, <3>2, <3>3 DEF NoBarrier
    <3>5. QED
      BY <1>4, <1>8, <3>2, <3>3, <3>4
  <2>3. CASE SaveBarrier(p, d)
    <3>1. pir'.wal = Tail(pir.wal) /\ pir.wal # <<>>
      BY <1>8, <2>3 DEF SaveBarrier
    <3>2. ~Told(pir')
      <4>1. ASSUME NEW i \in 1 .. Len(pir'.wri) PROVE pir'.wri[i].typ # "exit"
        <5>1. i = 1 \/ i \in 2 .. Len(pir'.wri)
          BY <1>7
        <5>2. QED
          BY <2>3, <5>1 DEF SaveBarrier, NewWork
      <4>2. QED
        BY <4>1 DEF Told
    <3>3. pir'.wal # <<>> /\ pir'.wal[1] = "exit"
      BY <2>1, <3>2 DEF Leaving
    <3>4. pir.sat = "done"
      <4>1. PICK m \in Nat : /\ Len(pir.wal) = m + 1 /\ (m = 0 <=> Tail(pir.wal) = <<>>)
                             /\ \A i \in 1 .. m : Tail(pir.wal)[i] = pir.wal[i + 1]
        BY <1>12, <3>1, TailIs, SMTT(30)
      <4>2. m # 0
        BY <3>1, <3>3, <4>1
      <4>3. 1 \in 1 .. m /\ 2 \in 1 .. m + 1 /\ 1 + 1 = 2
        BY <4>2
      <4>4. pir.wal[2] = "exit"
        BY <3>1, <3>3, <4>1, <4>3
      <4>5. QED
        BY <4>1, <4>3, <4>4 DEF PInv, QueuesGood
    <3>5. p.wri = <<>> /\ p.eve = d /\ sen' = d /\ dun' = d /\ Gulf = d
      BY <2>3 DEF SaveBarrier, WorkOn
    <3>6. Len(pir'.wri) = 1 /\ pir'.wri[1].typ = "save" /\ pir'.wri # <<>>
      BY <1>8, <2>3, <3>4 DEF SaveBarrier
    <3>7. out' = <<>>
      BY <1>3, <1>6, <3>5, KeptShort
    <3>8. ASSUME NEW i \in 1 .. Len(pir'.wri) PROVE pir'.wri[i].typ \notin {"work", "play"}
      <4>1. i = 1
        BY <3>6
      <4>2. QED
        BY <3>6, <4>1
    <3>9. QED
      BY <1>4, <1>8, <3>4, <3>5, <3>6, <3>7, <3>8
  <2>4. CASE ExitBarrier(p, d)
    <3>1. pir.wal # <<>> /\ pir.wal[1] = "exit" /\ p.wri = <<>>
      BY <1>8, <2>4 DEF ExitBarrier
    <3>2. Leaving(pir)
      BY <3>1 DEF Leaving
    <3>3. UNCHANGED <<sen, dun, out>> /\ p.wri = pir.wri /\ p.eve = pir.eve
      BY <3>2 DEF WorkOn
    <3>4. pir.sat = "done" /\ sen = dun /\ pir.eve = Gulf /\ Len(chk) = Gulf
      BY <3>1, <3>2, <3>3 DEF AInv, KingRight, LeavingGood
    <3>5. ASSUME NEW i \in 1 .. Len(pir'.wri) PROVE pir'.wri[i].typ \notin {"work", "play"}
      <4>1. i = 1
        BY <2>4 DEF ExitBarrier
      <4>2. QED
        BY <2>4, <4>1 DEF ExitBarrier
    <3>6. QED
      BY <1>4, <1>8, <3>3, <3>4, <3>5
  <2>5. QED
    BY <1>5, <2>2, <2>3, <2>4
<1>14. WallsGood(pir)'
  <2>1. pir'.liv
    BY <1>4, <1>6 DEF WorkOn
  <2>2. CASE NoBarrier(p)
    BY <1>8, <1>12, <2>1, <2>2 DEF NoBarrier, WallsGood
  <2>3. CASE SaveBarrier(p, d)
    <3>1. ExitLast(Tail(pir.wal))
      BY <1>8, <1>12, <2>3, ExitLastTail DEF SaveBarrier
    <3>2. QED
      BY <1>8, <2>1, <2>3, <3>1 DEF SaveBarrier, WallsGood
  <2>4. CASE ExitBarrier(p, d)
    <3>1. ExitLast(Tail(pir.wal)) /\ Tail(pir.wal) = <<>>
      BY <1>8, <1>12, <2>4, ExitLastTail DEF ExitBarrier
    <3>2. 1 \in 1 .. Len(pir'.wri)
      BY <2>4 DEF ExitBarrier
    <3>3. Told(pir')
      BY <2>4, <3>2 DEF ExitBarrier, Told
    <3>4. QED
      BY <1>8, <2>1, <2>4, <3>1, <3>3 DEF ExitBarrier, WallsGood, Told
  <2>5. QED
    BY <1>5, <2>2, <2>3, <2>4
<1>15. RipeGood' /\ BootGood'
  BY <1>4, <1>6, <1>8 DEF WorkOn, AInv, RipeGood, BootGood
<1>16. KingRight'
  BY <1>9, <1>10, <1>11, <1>13, <1>14 DEF KingRight
<1>17. QED
  BY <1>8, <1>15, <1>16 DEF AInv

(* _lord_work_spin(): the spinner runs while there is work. *)
LEMMA PopPins ==
  ASSUME PInv, pir.wri # <<>>, NEW c, c = LordPopWork(pir)
  PROVE  \A i \in 1 .. Len(Tail(pir.wri)) : Tail(pir.wri)[i].typ = "work" => c.pin
<1>1. pir.wri \in Seq(Writs) /\ pir \in Piers
  BY KingFacts DEF PInv, TypeOK
<1>2. c.pin = (\E i \in 2 .. Len(pir.wri) : pir.wri[i].typ = "work")
  BY <1>1 DEF LordPopWork, Piers
<1>3. PICK m \in Nat : /\ Len(pir.wri) = m + 1 /\ Len(Tail(pir.wri)) = m
                       /\ \A i \in 1 .. m : Tail(pir.wri)[i] = pir.wri[i + 1]
  BY <1>1, TailIs
<1>4. \A i \in 1 .. m : i + 1 \in 2 .. m + 1
  BY <1>3
<1>5. QED
  BY <1>2, <1>3, <1>4

(* A worker that is leaving has no work. *)
LEMMA NoWorkLeft ==
  ASSUME PInv, AInv, pir.wri # <<>>, pir.wri[1].typ \in {"work", "play"}
  PROVE  ~Leaving(pir)
<1>1. 1 \in 1 .. Len(pir.wri)
  BY KingFacts, SMTT(30)
<1>2. QED
  BY <1>1 DEF AInv, KingRight, LeavingGood

(* _pier_on_lord_work_done(). *)
LEMMA OnWorkDoneAInv == PInv /\ AInv /\ OnWorkDone => AInv'
<1> SUFFICES ASSUME PInv, AInv, OnWorkDone PROVE AInv'
  OBVIOUS
<1>1. PICK c, g : c = LordPopWork(pir) /\ g = Append(c.gif, PleaFact)
  OBVIOUS
<1>2. PICK p : p = [c EXCEPT !.eve = out[1].eve, !.gif = g]
  OBVIOUS
<1>3. /\ Hears({"done", "swap"}) /\ pir.sat # "wyrd" /\ DiskPlan(PleaFact)
      /\ Work(p, dun) /\ out' = Tail(out)
      /\ UNCHANGED <<srf, hst, chk, red, pay, env>>
  BY <1>1, <1>2 DEF OnWorkDone, Heard
<1>4. /\ PleaFact \in Fact /\ PleaFact.eve = sen + 1 /\ out[1].eve = sen + 1
      /\ pir.wok /\ pir.wri # <<>> /\ out # <<>> /\ pir.wri[1].typ = "work"
      /\ db' = db
  BY <1>3, PlanFact
<1>5. /\ pir.eve = sen /\ pir.rel <= dun /\ dun <= sen
      /\ Len(pir.gif) = pir.eve - pir.rel
      /\ \A i \in 1 .. Len(pir.gif) : pir.gif[i].eve = pir.rel + i
  BY <1>4, WorkFacts
<1>6. /\ pir \in Piers /\ sen \in Nat /\ dun \in Nat /\ pir.gif \in Seq(Fact)
      /\ pir.rel \in Nat /\ Len(pir.gif) \in Nat
  BY KingFacts DEF PInv, TypeOK
<1>7. /\ c \in Piers /\ Alike(pir, c) /\ c.wri = Tail(pir.wri) /\ c.wok = pir.wok
      /\ c.gif = pir.gif /\ c.rel = pir.rel /\ c.wal = pir.wal /\ c.ova = pir.ova
  BY <1>1, <1>4, <1>6, LordPopIs, ZenonT(60)
<1>8. /\ g \in Seq(Fact) /\ Len(g) = Len(pir.gif) + 1 /\ g[Len(pir.gif) + 1] = PleaFact
      /\ \A i \in 1 .. Len(pir.gif) : g[i] = pir.gif[i]
  BY <1>1, <1>4, <1>6, <1>7
<1>9. /\ p \in Piers /\ p.eve = sen + 1 /\ p.gif = g /\ p.wri = Tail(pir.wri)
      /\ p.sat = pir.sat /\ p.liv = pir.liv /\ p.wok = pir.wok /\ p.rel = pir.rel
      /\ p.wal = pir.wal /\ p.ova = pir.ova /\ p.pin = c.pin
  <2>1. sen + 1 \in Nat
    BY <1>6
  <2>2. QED
    BY <1>2, <1>4, <1>7, <1>8, <2>1, ZenonT(60) DEF Piers, Alike
<1>10. Gap(p.gif, p.rel)
  <2>1. ASSUME NEW i \in 1 .. Len(g) PROVE g[i].eve = pir.rel + i
    <3>1. CASE i \in 1 .. Len(pir.gif)
      BY <1>5, <1>8, <3>1
    <3>2. CASE i = Len(pir.gif) + 1
      <4>1. pir.rel + i = sen + 1
        BY <1>5, <1>6, <3>2, SMTT(30)
      <4>2. QED
        BY <1>4, <1>8, <3>2, <4>1
    <3>3. QED
      BY <1>6, <1>8, <3>1, <3>2
  <2>2. QED
    BY <1>9, <2>1 DEF Gap
<1>11. p.rel <= dun /\ dun <= p.rel + Len(p.gif) /\ p.eve # dun
  <2>1. Len(g) = Len(pir.gif) + 1 /\ pir.rel + (Len(pir.gif) + 1) = sen + 1
    BY <1>5, <1>6, <1>8, SMTT(30)
  <2>2. QED
    BY <1>5, <1>6, <1>9, <2>1
<1>12. Kept(p)
  <2>1. ASSUME NEW b \in Nat, Counted(out[1], pir.wri[1], pir.eve, b) PROVE p.eve = b
    <3>1. out[1].typ \in {"done", "swap"}
      BY <1>3, HearsIs
    <3>2. QED
      BY <1>4, <1>9, <2>1, <3>1 DEF Counted
  <2>2. QED
    BY <1>3, <1>4, <1>9, <2>1 DEF Kept
<1>13. \A i \in 1 .. Len(p.wri) : p.wri[i].typ = "work" => p.pin
  BY <1>1, <1>4, <1>9, PopPins
<1>14. ~Leaving(pir)
  BY <1>4, NoWorkLeft
<1>15. IdleGood'
  <2>1. req' = Commit(req, put', sen', dun)
    BY <1>3 DEF DiskPlan
  <2>2. QED
    BY <2>1, CommitIdle DEF AInv, IdleGood
<1>16. WorkOn(p, dun)
  BY <1>3, <1>4, <1>9, <1>10, <1>11, <1>12, <1>13, <1>14, <1>15 DEF WorkOn
<1>17. QED
  BY <1>3, <1>6, <1>9, <1>16, WorkAInv

(* _pier_work() when nothing was committed or planned. *)
LEMMA WorkAgainAInv ==
  ASSUME PInv, AInv, pir.wok, NEW p \in Piers, Alike(pir, p), p.wok = pir.wok,
         p.gif = pir.gif, p.rel = pir.rel, p.wal = pir.wal, p.ova = pir.ova, Kept(p),
         Leaving(pir) => out' = out /\ p.wri = pir.wri,
         \A i \in 1 .. Len(p.wri) : p.wri[i].typ = "work" => p.pin,
         WorkLog(p, dun), Work(p, dun), UNCHANGED <<hst, chk, pay>>
  PROVE  AInv'
<1>1. /\ liv /\ pir.eve = sen /\ pir.rel <= dun /\ dun <= sen
      /\ Len(pir.gif) = pir.eve - pir.rel
      /\ \A i \in 1 .. Len(pir.gif) : pir.gif[i].eve = pir.rel + i
  BY WorkFacts
<1>2. sen \in Nat /\ dun \in Nat /\ pir.rel \in Nat /\ Len(pir.gif) \in Nat
  BY KingFacts
<1>3. Gap(p.gif, p.rel)
  BY <1>1 DEF Gap
<1>4. dun <= p.rel + Len(p.gif)
  BY <1>1, <1>2
<1>5. p.eve = pir.eve /\ p.sat = pir.sat /\ p.liv = pir.liv
  BY DEF Alike
<1>6. UNCHANGED <<db, sen, dun>> /\ (req' = req \/ req' = Idle)
  BY DEF WorkLog, LogExit, DiskGone, writeVars, diskVars
<1>7. IdleGood'
  BY <1>6 DEF AInv, IdleGood
<1>8. p.eve = dun => Gulf = dun /\ sen' = dun /\ dun' = dun
  <2>1. SUFFICES ASSUME p.eve = dun PROVE Gulf = dun /\ sen = dun
    BY <1>6
  <2>2. sen = dun
    BY <1>1, <1>5, <2>1
  <2>3. QED
    BY <1>1, <2>2, AllWritten DEF AInv
<1>9. WorkOn(p, dun)
  BY <1>1, <1>3, <1>4, <1>5, <1>6, <1>7, <1>8 DEF WorkOn
<1>10. QED
  BY <1>2, <1>9, WorkAInv

(* _pier_on_lord_work_bail(). *)
LEMMA OnWorkBailAInv == PInv /\ AInv /\ OnWorkBail => AInv'
<1> SUFFICES ASSUME PInv, AInv, OnWorkBail PROVE AInv'
  OBVIOUS
<1>1. PICK p : p = LordPopWork(pir)
  OBVIOUS
<1>2. /\ Hears({"bail"}) /\ pir.sat # "wyrd" /\ WorkLog(p, dun) /\ Work(p, dun)
      /\ out' = Tail(out) /\ UNCHANGED <<hst, chk, pay>>
  BY <1>1 DEF OnWorkBail, Heard
<1>3. /\ out[1].typ = "bail" /\ PleaExpected(out[1]) /\ out # <<>> /\ pir.wri # <<>>
  BY <1>2, HearsIs
<1>4. pir.wri[1].typ = "work" /\ pir.wok
  BY <1>2, <1>3 DEF PleaExpected
<1>5. /\ p \in Piers /\ Alike(pir, p) /\ p.wri = Tail(pir.wri)
      /\ p.wok = pir.wok /\ p.gif = pir.gif /\ p.rel = pir.rel /\ p.wal = pir.wal
      /\ p.ova = pir.ova
  BY <1>1, <1>3, LordPopIs DEF PInv, TypeOK
<1>6. Kept(p)
  BY <1>2, <1>3, <1>5 DEF Kept, Counted, Alike
<1>7. \A i \in 1 .. Len(p.wri) : p.wri[i].typ = "work" => p.pin
  BY <1>1, <1>3, <1>5, PopPins
<1>8. ~Leaving(pir)
  BY <1>3, <1>4, NoWorkLeft
<1>9. QED
  BY <1>2, <1>4, <1>5, <1>6, <1>7, <1>8, WorkAgainAInv

(* The spinner of the king as it is. *)
LEMMA PinsNow ==
  ASSUME PInv, AInv
  PROVE  \A i \in 1 .. Len(pir.wri) : pir.wri[i].typ = "work" => pir.pin
  BY DEF AInv, KingRight, OrdersGood, Placed

(* Every turn of the loop. *)
LEMMA OnLoopAInv == PInv /\ AInv /\ OnLoop => AInv'
<1> SUFFICES ASSUME PInv, AInv, OnLoop PROVE AInv'
  OBVIOUS
<1>1. /\ pir.wok /\ WorkLog(pir, dun) /\ Work(pir, dun)
      /\ UNCHANGED <<pay, out, hst, chk>>
  BY DEF OnLoop
<1>2. pir \in Piers /\ Alike(pir, pir) /\ Kept(pir)
  BY <1>1 DEF PInv, TypeOK, Alike, Kept
<1>3. QED
  BY <1>1, <1>2, PinsNow, WorkAgainAInv

(* _pier_on_disk_write_done() of a pier at work. *)
LEMMA WriteWorkAInv ==
  ASSUME PInv, AInv, DiskCommitDone, pir.wok, Work(pir, dun'),
         UNCHANGED <<out, hst, chk, pay>>
  PROVE  AInv'
<1>1. PICK d \in Nat : d = dun'
  BY WriteDoneIs
<1>2. liv /\ UNCHANGED <<db, sen>> /\ dun < d /\ d <= sen
  BY <1>1, WriteDoneIs
<1>3. /\ pir.eve = sen /\ pir.rel <= dun /\ Len(pir.gif) = pir.eve - pir.rel
      /\ \A i \in 1 .. Len(pir.gif) : pir.gif[i].eve = pir.rel + i
  BY WorkFacts
<1>4. /\ pir \in Piers /\ sen \in Nat /\ dun \in Nat /\ pir.rel \in Nat
      /\ Len(pir.gif) \in Nat /\ req \in Reqs
  BY KingFacts, SMTT(30) DEF PInv, TypeOK, DiskTypeOK
<1>5. Gap(pir.gif, pir.rel) /\ Kept(pir)
  BY <1>3 DEF Gap, Kept
<1>6. pir.rel <= d /\ d <= pir.rel + Len(pir.gif)
  BY <1>2, <1>3, <1>4
<1>7. ~Leaving(pir)
  <2>1. req.sat # "idle"
    BY DEF DiskCommitDone
  <2>2. QED
    BY <2>1, WritesWhen
<1>8. IdleGood'
  <2>1. req' = Commit(Idle, put', sen, dun')
    BY DEF DiskCommitDone
  <2>2. QED
    BY <2>1, CommitIdle DEF IdleGood
<1>9. Gulf = d
  <2>1. req.eve = dun + 1 /\ d = req.eve + Len(req.job) - 1 /\ Gulf = dun + Len(req.job)
    BY <1>1, <1>2 DEF DiskCommitDone, PInv, LogGood, Core, DiskAsserts, WriteIsPrefix, AckIsDurable
  <2>2. PICK l \in Nat : l = Len(req.job)
    BY <1>4 DEF Reqs
  <2>3. d = (dun + 1) + l - 1 /\ Gulf = dun + l
    BY <2>1, <2>2
  <2>4. QED
    BY <1>4, <2>3
<1>10. pir.eve = d => sen' = d
  BY <1>2, <1>3
<1>11. WorkOn(pir, d)
  BY <1>1, <1>2, <1>5, <1>6, <1>7, <1>8, <1>9, <1>10, PinsNow DEF WorkOn
<1>12. QED
  BY <1>1, <1>4, <1>11, WorkAInv

(* A step of the king that leaves the log and the replay alone, and sends  *)
(* at most a |pack.                                                        *)
LEMMA EasyAInv ==
  ASSUME PInv, AInv, pir.sat \notin {"down", "play", "boot", "init"}, pir.liv,
         NEW p, Kept(p), p.eve = pir.eve, pir'.sat \in {pir.sat, "done"}, pir'.liv,
         pir'.eve = pir.eve, pir'.wok = pir.wok, pir'.pin = pir.pin,
         Len(p.wri) \in Nat, Len(pir'.wri) \in Nat,
         \A i \in 1 .. Len(p.wri) : pir'.wri[i] = p.wri[i],
         \A i \in Len(p.wri) + 1 .. Len(pir'.wri) : pir'.wri[i].typ = "pack",
         UNCHANGED <<db, sen, dun, req, hst, chk, pay>>,
         LeavingGood(pir, out)', WallsGood(pir)'
  PROVE  AInv'
<1>1. Gulf' = Gulf
  BY DEF Gulf
<1>2. AnswersGood(pir, out)'
  <2>1. /\ \A i \in 1 .. Len(out') : Answering(out'[i], pir'.wri[i])
        /\ Counts(p.eve, Len(hst), out', pir'.wri)
    BY AnswersKept
  <2>2. QED
    BY <2>1 DEF AnswersGood
<1>3. \A i \in 1 .. Len(p.wri) : p.wri[i].typ = "work" => pir'.pin
  <2>1. \A i \in 1 .. Len(pir.wri) : pir.wri[i].typ = "work" => pir.pin
    BY PinsNow
  <2>2. pir.wri \in Seq(Writs)
    BY KingFacts
  <2>3. CASE p.wri = pir.wri
    BY <2>1, <2>3
  <2>4. CASE pir.wri # <<>> /\ p.wri = Tail(pir.wri)
    <3>1. PICK m \in Nat : /\ Len(pir.wri) = m + 1 /\ Len(Tail(pir.wri)) = m
                           /\ \A i \in 1 .. m : Tail(pir.wri)[i] = pir.wri[i + 1]
      BY <2>2, <2>4, TailIs
    <3>2. \A i \in 1 .. m : i + 1 \in 1 .. m + 1
      BY <3>1
    <3>3. QED
      BY <2>1, <2>4, <3>1, <3>2
  <2>5. QED
    BY <2>3, <2>4 DEF Kept
<1>4. OrdersGood(pir, pay)'
  <2>1. \A i \in 1 .. Len(p.wri) : Placed(pir', pay'.eve, p.wri[i], i)
    BY <1>3, OldPlaced
  <2>2. ASSUME NEW i \in 1 .. Len(pir'.wri) PROVE Placed(pir', pay'.eve, pir'.wri[i], i)
    <3>1. CASE i \in 1 .. Len(p.wri)
      BY <2>1, <3>1
    <3>2. CASE i \in Len(p.wri) + 1 .. Len(pir'.wri)
      BY <3>2 DEF Placed
    <3>3. QED
      BY <3>1, <3>2
  <2>3. QED
    BY <2>2 DEF OrdersGood
<1>5. BatchesGood(pir, pay, red)'
  BY DEF BatchesGood
<1>6. KingRight'
  BY <1>2, <1>4, <1>5 DEF KingRight
<1>7. QED
  BY <1>1, <1>6 DEF AInv, RipeGood, BootGood, IdleGood

(* _lord_plea_peek(), _lord_plea_live(). *)
LEMMA OnAnswerAInv == PInv /\ AInv /\ OnAnswer => AInv'
<1> SUFFICES ASSUME PInv, AInv, OnAnswer PROVE AInv'
  OBVIOUS
<1>1. /\ Hears({"peek", "live"}) /\ pir.wri[1].typ # "cram" /\ pir' = LordPop(pir)
      /\ out' = Tail(out) /\ UNCHANGED <<db, sen, dun, req, hst, chk, pay>>
  BY DEF OnAnswer, Heard, diskVars
<1>2. /\ out[1].typ \in {"peek", "live"} /\ PleaExpected(out[1]) /\ out # <<>>
      /\ pir.wri # <<>> /\ pir.liv /\ pir.sat # "down"
  BY <1>1, HearsIs
<1>3. pir.wri[1].typ \in {"peek", "save", "pack"}
  BY <1>1, <1>2 DEF PleaExpected
<1>4. pir.wri \in Seq(Writs) /\ pir \in Piers /\ 1 \in 1 .. Len(pir.wri)
  BY <1>2, KingFacts, SMTT(30) DEF PInv, TypeOK
<1>5. /\ Alike(pir, pir') /\ pir'.wri = Tail(pir.wri) /\ pir'.wok = pir.wok
      /\ pir'.wal = pir.wal
  BY <1>1, <1>2, <1>4, LordPopIs
<1>6. pir'.pin = pir.pin
  BY <1>1, <1>4 DEF LordPop, Piers
<1>7. pir.sat \notin {"down", "play", "boot", "init"}
  <2>1. pir.sat = "play" => pir.wri[1].typ \in {"play", "cram"}
    BY <1>4 DEF AInv, KingRight, BatchesGood, Chained
  <2>2. pir.sat \in {"boot", "init"} => pir.wri = <<>>
    BY DEF PInv, KingGood
  <2>3. QED
    BY <1>2, <1>3, <2>1, <2>2
<1>8. Kept(pir')
  BY <1>1, <1>2, <1>5 DEF Kept, Counted, Alike
<1>9. PICK m \in Nat : /\ Len(pir.wri) = m + 1 /\ Len(pir'.wri) = m
                       /\ \A i \in 1 .. m : pir'.wri[i] = pir.wri[i + 1]
  BY <1>2, <1>4, <1>5, TailIs
<1>10. \A i \in 1 .. m : i + 1 \in 1 .. m + 1
  BY <1>9
<1>11. Gulf' = Gulf
  BY <1>1 DEF Gulf
<1>12. LeavingGood(pir, out)'
  <2>1. SUFFICES ASSUME Leaving(pir')
                 PROVE  /\ pir'.sat = "done" /\ sen = dun /\ pir'.eve = Gulf
                        /\ \A i \in 1 .. Len(pir'.wri) : pir'.wri[i].typ \notin {"work", "play"}
                        /\ Len(chk) = Gulf
    BY <1>1, <1>11 DEF LeavingGood, Leaving, Told
  <2>2. Leaving(pir)
    BY <1>5, <1>8, <2>1, ToldKept DEF Leaving
  <2>3. /\ pir.sat = "done" /\ sen = dun /\ pir.eve = Gulf /\ Len(chk) = Gulf
        /\ \A i \in 1 .. Len(pir.wri) : pir.wri[i].typ \notin {"work", "play"}
    BY <1>2, <2>2 DEF AInv, KingRight, LeavingGood
  <2>4. QED
    BY <1>5, <1>9, <1>10, <2>3, SMTT(30) DEF Alike
<1>13. WallsGood(pir)'
  <2>1. ASSUME Told(pir) PROVE Told(pir')
    <3>1. PICK k \in 1 .. Len(pir.wri) : pir.wri[k].typ = "exit"
      BY <2>1 DEF Told
    <3>2. k # 1
      BY <1>3, <3>1
    <3>3. k - 1 \in 1 .. m /\ (k - 1) + 1 = k
      BY <1>9, <3>1, <3>2
    <3>4. pir'.wri[k - 1] = pir.wri[k]
      BY <1>9, <3>3
    <3>5. QED
      BY <1>9, <3>1, <3>3, <3>4 DEF Told
  <2>2. QED
    BY <1>5, <2>1 DEF AInv, KingRight, WallsGood, Alike, Told
<1>14. \A i \in m + 1 .. m : FALSE
  OBVIOUS
<1>15. QED
  BY <1>1, <1>2, <1>5, <1>6, <1>7, <1>8, <1>9, <1>12, <1>13, <1>14, EasyAInv DEF Alike

(* No exit is planned in the work state. *)
LEMMA NotLeaving ==
  ASSUME PInv, AInv, pir.sat # "done"
  PROVE  ~Leaving(pir) /\ ~Told(pir) /\ \A i \in 1 .. Len(pir.wal) : pir.wal[i] # "exit"
<1>1. ~Leaving(pir) /\ ~Told(pir)
  BY DEF AInv, KingRight, LeavingGood, Leaving
<1>2. QED
  BY <1>1 DEF PInv, QueuesGood

(* The king plans an ovum, a scry request or a |pack. *)
LEMMA PlansAInv == PInv /\ AInv /\ (PlanOvum \/ PlanPeek \/ PlanPack) => AInv'
<1> SUFFICES ASSUME PInv, AInv, PlanOvum \/ PlanPeek \/ PlanPack PROVE AInv'
  OBVIOUS
<1>1. pir.wok /\ UNCHANGED <<db, sen, dun, req, out, hst, chk, pay>> /\ Gulf' = Gulf
  BY DEF PlanOvum, PlanPeek, PlanPack, diskVars, Gulf
<1>2. pir.sat \in {"work", "done"} /\ pir.liv
  BY <1>1, WorkFacts
<1>3. pir \in Piers /\ Len(pir.wri) \in Nat /\ Kept(pir) /\ pir.wri \in Seq(Writs)
  BY <1>1, KingFacts DEF PInv, TypeOK, Kept
<1>4. CASE PlanOvum \/ PlanPeek
  <2>1. /\ pir'.sat = pir.sat /\ pir'.liv = pir.liv /\ pir'.eve = pir.eve /\ pir'.wok = pir.wok
        /\ pir'.pin = pir.pin /\ pir'.wri = pir.wri /\ pir'.wal = pir.wal
    BY <1>3, <1>4, SMTT(30) DEF PlanOvum, PlanPeek, Piers
  <2>2. LeavingGood(pir, out)' /\ WallsGood(pir)'
    BY <1>1, <2>1 DEF AInv, KingRight, LeavingGood, Leaving, Told, WallsGood
  <2>3. \A i \in Len(pir.wri) + 1 .. Len(pir.wri) : FALSE
    BY <1>3
  <2>4. QED
    BY <1>1, <1>2, <1>3, <2>1, <2>2, <2>3, EasyAInv
<1>5. CASE PlanPack
  <2>1. PICK x \in Writs : x = Writ("pack", 0, <<>>) /\ x.typ = "pack"
    BY WritIs DEF WritType
  <2>2. pir' = LordPlan(pir, x)
    BY <1>5, <2>1 DEF PlanPack
  <2>3. /\ Alike(pir, pir') /\ pir'.wok = pir.wok /\ pir'.wal = pir.wal
        /\ Len(pir'.wri) = Len(pir.wri) + 1 /\ pir'.wri[Len(pir.wri) + 1] = x
        /\ \A i \in 1 .. Len(pir.wri) : pir'.wri[i] = pir.wri[i]
    <3>1. PICK q : q = LordPlan(pir, x)
      OBVIOUS
    <3>2. /\ Alike(pir, q) /\ q.wok = pir.wok /\ q.wal = pir.wal
          /\ Len(q.wri) = Len(pir.wri) + 1 /\ q.wri[Len(pir.wri) + 1] = x
          /\ \A i \in 1 .. Len(pir.wri) : q.wri[i] = pir.wri[i]
      <4>1. pir \in Piers /\ x \in Writs
        BY <1>3
      <4>2. QED
        BY ONLY <3>1, <4>1, LordPlanIs
    <3>3. QED
      BY <2>2, <3>1, <3>2
  <2>4. pir'.pin = pir.pin
    <3>1. pir'.pin = (pir.pin \/ x.typ = "work") /\ pir.pin \in BOOLEAN
      BY <1>3, <2>2 DEF LordPlan, Piers
    <3>2. QED
      BY <2>1, <3>1
  <2>5. \A i \in 1 .. Len(pir'.wri) : i \in 1 .. Len(pir.wri) \/ i = Len(pir.wri) + 1
    BY <1>3, <2>3
  <2>6. Told(pir') => Told(pir)
    BY <2>1, <2>3, <2>5 DEF Told
  <2>7. pir.wri # <<>> => pir'.wri # <<>> /\ pir'.wri[1] = pir.wri[1]
    <3>1. SUFFICES ASSUME pir.wri # <<>> PROVE pir'.wri # <<>> /\ pir'.wri[1] = pir.wri[1]
      OBVIOUS
    <3>2. 1 \in 1 .. Len(pir.wri)
      BY <1>3, <3>1
    <3>3. pir'.wri = <<>> => Len(pir'.wri) = 0
      OBVIOUS
    <3>4. QED
      BY <1>3, <2>3, <3>2, <3>3
  <2>8. LeavingGood(pir, out)'
    <3>1. SUFFICES ASSUME Leaving(pir')
                   PROVE  /\ pir'.sat = "done" /\ sen = dun /\ pir'.eve = Gulf
                          /\ \A i \in 1 .. Len(pir'.wri) : pir'.wri[i].typ \notin {"work", "play"}
                          /\ \/ Len(chk) = Gulf
                             \/ out = <<>> /\ pir'.wri # <<>> /\ pir'.wri[1].typ = "save"
      BY <1>1 DEF LeavingGood, Leaving, Told
    <3>2. Leaving(pir)
      BY <2>3, <2>6, <3>1 DEF Leaving
    <3>3. /\ pir.sat = "done" /\ sen = dun /\ pir.eve = Gulf
          /\ \A i \in 1 .. Len(pir.wri) : pir.wri[i].typ \notin {"work", "play"}
          /\ \/ Len(chk) = Gulf
             \/ out = <<>> /\ pir.wri # <<>> /\ pir.wri[1].typ = "save"
      BY <3>2 DEF AInv, KingRight, LeavingGood
    <3>4. \A i \in 1 .. Len(pir'.wri) : pir'.wri[i].typ \notin {"work", "play"}
      BY <2>1, <2>3, <2>5, <3>3
    <3>5. QED
      BY <2>3, <2>7, <3>3, <3>4 DEF Alike
  <2>9. WallsGood(pir)'
    BY <1>1, <2>3 DEF AInv, KingRight, WallsGood, Alike
  <2>10. \A i \in Len(pir.wri) + 1 .. Len(pir'.wri) : pir'.wri[i].typ = "pack"
    BY <1>3, <2>1, <2>3
  <2>11. QED
    BY <1>1, <1>2, <1>3, <2>3, <2>4, <2>8, <2>9, <2>10, EasyAInv DEF Alike
<1>6. QED
  BY <1>4, <1>5

(* Barriers planned in the work state. *)
LEMMA BarriersAInv ==
  ASSUME PInv, AInv, pir.sat = "work", pir'.sat \in {"work", "done"}, pir'.liv = pir.liv,
         pir'.eve = pir.eve, pir'.wok = pir.wok, pir'.pin = pir.pin, pir'.wri = pir.wri,
         pir'.wal # <<>>, pir'.wal[1] # "exit", ExitLast(pir'.wal),
         UNCHANGED <<db, sen, dun, req, out, hst, chk, pay>>
  PROVE  AInv'
<1>1. pir.wok /\ pir.liv /\ Kept(pir)
  BY DEF PInv, KingGood, Kept
<1>2. ~Told(pir')
  BY NotLeaving DEF Told
<1>3. LeavingGood(pir, out)' /\ WallsGood(pir)'
  BY <1>1, <1>2 DEF LeavingGood, Leaving, Told, WallsGood
<1>4. Len(pir.wri) \in Nat /\ \A i \in Len(pir.wri) + 1 .. Len(pir.wri) : FALSE
  BY KingFacts, SMTT(30)
<1>5. QED
  BY <1>1, <1>3, <1>4, EasyAInv

(* _save_time_cb(); u3_pier_exit() in the work state, the only one in      *)
(* which it is called here.                                                *)
LEMMA SaveTimerAInv == PInv /\ AInv /\ SaveTimer => AInv'
<1> SUFFICES ASSUME PInv, AInv, SaveTimer PROVE AInv'
  OBVIOUS
<1>1. /\ pir.sat = "work" /\ pir' = [pir EXCEPT !.wal = Append(pir.wal, "save")]
      /\ UNCHANGED <<db, sen, dun, req, out, hst, chk, pay>>
  BY DEF SaveTimer, diskVars
<1>2. pir \in Piers /\ pir.wal \in Seq({"save", "exit"})
  BY KingFacts DEF PInv, TypeOK
<1>3. /\ pir'.sat = pir.sat /\ pir'.liv = pir.liv /\ pir'.eve = pir.eve /\ pir'.wok = pir.wok
      /\ pir'.pin = pir.pin /\ pir'.wri = pir.wri /\ pir'.wal = Append(pir.wal, "save")
  BY <1>1, <1>2 DEF Piers
<1>4. PICK m \in Nat : m = Len(pir.wal)
  BY <1>2
<1>5. PICK t : /\ t = Append(pir.wal, "save") /\ Len(t) = m + 1 /\ t[m + 1] = "save"
               /\ \A i \in 1 .. m : t[i] = pir.wal[i]
  <2>1. PICK s \in Seq({"save", "exit"}) : s = pir.wal
    BY <1>2
  <2>2. PICK t : t = Append(s, "save")
    OBVIOUS
  <2>3. Len(t) = Len(s) + 1 /\ t[Len(s) + 1] = "save" /\ \A i \in 1 .. Len(s) : t[i] = s[i]
    BY ONLY <2>1, <2>2
  <2>4. QED
    BY <1>4, <2>1, <2>2, <2>3, SMTT(30)
<1>6. ASSUME NEW i \in 1 .. Len(t) PROVE t[i] # "exit"
  <2>1. i = m + 1 \/ i \in 1 .. m
    BY <1>4, <1>5
  <2>2. QED
    BY <1>1, <1>4, <1>5, <2>1, NotLeaving
<1>7. t # <<>> /\ t[1] # "exit" /\ ExitLast(t)
  <2>1. t = <<>> => Len(t) = 0
    OBVIOUS
  <2>2. 1 \in 1 .. Len(t)
    BY <1>5
  <2>3. QED
    BY <1>5, <1>6, <2>1, <2>2 DEF ExitLast
<1>8. QED
  BY <1>1, <1>3, <1>5, <1>7, BarriersAInv

LEMMA ExitRequestAInv == Exits \subseteq {"work"} /\ PInv /\ AInv /\ ExitRequest => AInv'
<1> SUFFICES ASSUME Exits \subseteq {"work"}, PInv, AInv, ExitRequest PROVE AInv'
  OBVIOUS
<1>1. pir.sat = "work"
  BY DEF ExitRequest
<1>2. /\ pir' = [pir EXCEPT !.sat = "done", !.wal = pir.wal \o <<"save", "exit">>]
      /\ UNCHANGED <<db, sen, dun, req, out, hst, chk, pay>>
  BY <1>1 DEF ExitRequest, ExitWalls, diskVars
<1>3. pir \in Piers /\ pir.wal \in Seq({"save", "exit"})
  BY KingFacts DEF PInv, TypeOK
<1>4. /\ pir'.sat = "done" /\ pir'.liv = pir.liv /\ pir'.eve = pir.eve /\ pir'.wok = pir.wok
      /\ pir'.pin = pir.pin /\ pir'.wri = pir.wri /\ pir'.wal = pir.wal \o <<"save", "exit">>
  BY <1>2, <1>3, SMTT(30) DEF Piers
<1>5. PICK m \in Nat : m = Len(pir.wal)
  BY <1>3
<1>6. PICK u \in Seq({"save", "exit"}) : u = <<"save", "exit">> /\ Len(u) = 2 /\ u[1] = "save" /\ u[2] = "exit"
  <2>1. <<"save", "exit">> \in Seq({"save", "exit"})
    BY ONLY TRUE
  <2>2. /\ Len(<<"save", "exit">>) = 2 /\ <<"save", "exit">>[1] = "save"
        /\ <<"save", "exit">>[2] = "exit"
    BY ONLY TRUE
  <2>3. QED
    BY <2>1, <2>2
<1>7. PICK t : /\ t = pir.wal \o u /\ Len(t) = m + 2
               /\ \A i \in 1 .. m + 2 : t[i] = IF i <= m THEN pir.wal[i] ELSE u[i - m]
  <2>1. PICK s \in Seq({"save", "exit"}) : s = pir.wal
    BY <1>3
  <2>2. PICK t : t = s \o u
    OBVIOUS
  <2>3. /\ Len(t) = Len(s) + Len(u)
        /\ \A i \in 1 .. Len(s) + Len(u) : t[i] = IF i <= Len(s) THEN s[i] ELSE u[i - Len(s)]
    BY ONLY u \in Seq({"save", "exit"}), <2>1, <2>2, ConcatProperties
  <2>4. QED
    BY <1>5, <1>6, <2>1, <2>2, <2>3, SMTT(30)
<1>8. t[m + 1] = "save" /\ t[m + 2] = "exit" /\ \A i \in 1 .. m : t[i] = pir.wal[i]
  <2>1. /\ m + 1 \in 1 .. m + 2 /\ ~(m + 1 <= m) /\ (m + 1) - m = 1
        /\ m + 2 \in 1 .. m + 2 /\ ~(m + 2 <= m) /\ (m + 2) - m = 2
        /\ \A i \in 1 .. m : i \in 1 .. m + 2 /\ i <= m
    OBVIOUS
  <2>2. QED
    BY <1>6, <1>7, <2>1, ZenonT(60)
<1>9. ASSUME NEW i \in 1 .. Len(t), t[i] = "exit" PROVE i = m + 2
  <2>1. i = m + 1 \/ i = m + 2 \/ i \in 1 .. m
    BY <1>7, SMTT(30)
  <2>2. QED
    BY <1>1, <1>5, <1>8, <1>9, <2>1, NotLeaving, SMTT(30)
<1>10. t # <<>> /\ t[1] # "exit" /\ ExitLast(t)
  <2>1. t = <<>> => Len(t) = 0
    OBVIOUS
  <2>2. 1 \in 1 .. Len(t) /\ m + 2 # 0 /\ m + 2 # 1 /\ (m + 2) - 1 = m + 1
    BY <1>7
  <2>3. QED
    BY <1>7, <1>8, <1>9, <2>1, <2>2 DEF ExitLast
<1>11. QED
  BY <1>1, <1>2, <1>4, <1>6, <1>7, <1>10, BarriersAInv

-----------------------------------------------------------------------------
(* Replay *)

(* One more batch follows the others. *)
LEMMA ChainedOn ==
  ASSUME NEW s \in Seq(Writs), NEW e \in Nat, NEW n \in Nat, NEW m \in Nat,
         Chained(s, e, n), \A i \in 1 .. Len(s) : s[i].typ # "cram",
         NEW w \in Writs, w.typ = "play", w.eve = n + 1, End(w) = m + 1,
         NEW t, Len(t) = Len(s) + 1, t[Len(s) + 1] = w,
         \A i \in 1 .. Len(s) : t[i] = s[i]
  PROVE  Chained(t, e, m)
<1>1. PICK k \in Nat : k = Len(s)
  OBVIOUS
<1>2. Len(t) = k + 1 /\ t[k + 1] = w /\ \A i \in 1 .. k : t[i] = s[i]
  BY <1>1
<1>3. t # <<>>
  <2>1. t = <<>> => Len(t) = 0
    OBVIOUS
  <2>2. QED
    BY <1>2, <2>1
<1>4. ASSUME NEW i \in 1 .. k
      PROVE  /\ t[i].typ \in {"play", "cram"}
             /\ t[i].typ = "play" =>
                  /\ i = 1 => t[i].eve = e + 1
                  /\ 1 < i => t[i - 1].typ = "play" /\ t[i].eve = End(t[i - 1])
                  /\ i = Len(t) => End(t[i]) = m + 1
  <2>1. t[i] = s[i] /\ i # Len(t) /\ i \in 1 .. Len(s)
    BY <1>1, <1>2
  <2>2. 1 < i => i - 1 \in 1 .. k /\ t[i - 1] = s[i - 1]
    BY <1>2
  <2>3. QED
    BY <2>1, <2>2 DEF Chained
<1>5. /\ k + 1 = 1 => w.eve = e + 1
      /\ 1 < k + 1 => t[(k + 1) - 1].typ = "play" /\ w.eve = End(t[(k + 1) - 1])
  <2>1. CASE k = 0
    <3>1. s = <<>>
      <4>1. Len(s) = 0 => s = <<>>
        BY ONLY s \in Seq(Writs)
      <4>2. QED
        BY <1>1, <2>1, <4>1
    <3>2. n = e
      BY <3>1 DEF Chained
    <3>3. QED
      BY <2>1, <3>2
  <2>2. CASE k # 0
    <3>1. k \in 1 .. Len(s) /\ (k + 1) - 1 = k /\ k + 1 # 1
      BY <1>1, <2>2
    <3>2. s[k].typ = "play" /\ End(s[k]) = n + 1
      BY <1>1, <3>1 DEF Chained
    <3>3. QED
      BY <1>1, <1>2, <3>1, <3>2
  <2>3. QED
    BY <2>1, <2>2
<1>6. \A i \in 1 .. Len(t) : i \in 1 .. k \/ i = k + 1
  BY <1>2
<1>7. QED
  BY <1>2, <1>3, <1>4, <1>5, <1>6, SMTT(30) DEF Chained

(* The batches that are left when the first is done. *)
LEMMA ChainedTail ==
  ASSUME NEW s \in Seq(Writs), s # <<>>, NEW e, NEW n \in Nat, Chained(s, e, n),
         s[1].typ = "play", NEW b \in Nat, End(s[1]) = b + 1
  PROVE  Chained(Tail(s), b, n)
<1>1. PICK m \in Nat : /\ Len(s) = m + 1 /\ Len(Tail(s)) = m
                       /\ \A i \in 1 .. m : Tail(s)[i] = s[i + 1]
                       /\ m = 0 <=> Tail(s) = <<>>
  BY TailIs
<1>2. PICK t : t = Tail(s)
  OBVIOUS
<1>3. 1 \in 1 .. Len(s)
  BY <1>1
<1>4. t = <<>> => n = b
  <2>1. SUFFICES ASSUME t = <<>> PROVE n = b
    OBVIOUS
  <2>2. 1 = Len(s)
    BY <1>1, <1>2, <2>1
  <2>3. End(s[1]) = n + 1
    BY <1>3, <2>2 DEF Chained
  <2>4. QED
    BY <2>3
<1>5. ASSUME NEW i \in 1 .. m
      PROVE  /\ t[i].typ \in {"play", "cram"}
             /\ t[i].typ = "play" =>
                  /\ i = 1 => t[i].eve = b + 1
                  /\ 1 < i => t[i - 1].typ = "play" /\ t[i].eve = End(t[i - 1])
                  /\ i = m => End(t[i]) = n + 1
  <2>1. /\ t[i] = s[i + 1] /\ i + 1 \in 1 .. Len(s) /\ i + 1 # 1 /\ 1 < i + 1
        /\ (i + 1) - 1 = i /\ (i = m => i + 1 = Len(s))
    BY <1>1, <1>2, SMTT(30)
  <2>2. /\ s[i + 1].typ \in {"play", "cram"}
        /\ s[i + 1].typ = "play" =>
             /\ s[i].typ = "play" /\ s[i + 1].eve = End(s[i])
             /\ i + 1 = Len(s) => End(s[i + 1]) = n + 1
    BY <2>1 DEF Chained
  <2>3. 1 < i => i - 1 \in 1 .. m /\ (i - 1) + 1 = i /\ t[i - 1] = s[i]
    <3>1. 1 < i => i - 1 \in 1 .. m /\ (i - 1) + 1 = i
      OBVIOUS
    <3>2. QED
      BY <1>1, <1>2, <3>1
  <2>4. QED
    BY <2>1, <2>2, <2>3
<1>6. QED
  BY <1>1, <1>2, <1>4, <1>5, SMTT(30) DEF Chained

(* A king p that goes on replaying: what it has heard, what it has sent    *)
(* and what it has read are of one piece.                                  *)
Answered(p) ==
  /\ Len(out') \in Nat /\ Len(out') <= Len(p.wri)
  /\ \A i \in 1 .. Len(out') : Answering(out'[i], p.wri[i])
  /\ Counts(p.eve, Len(hst'), out', p.wri)

PlayOn(p, y, r) ==
  /\ p.sat = "play" /\ p.liv = TRUE /\ p.wok = FALSE /\ p.wal = <<>>
  /\ Answered(p)
  /\ OrdersGood(p, y)
  /\ Chained(p.wri, p.eve, y.sen)
  /\ \A i \in 1 .. Len(p.wri) : p.wri[i].typ # "cram"
  /\ Lif <= y.eve /\ p.eve <= y.sen
  /\ QueGood(y) /\ ReadFits(y, r) /\ PlaysTo(p.wri, y.sen)
  /\ (y.sen = 0 /\ y.que # <<>>) => Lif <= Len(y.que)
  /\ r # <<>> => FirstRead(r[1])

(* Where it gets. *)
LEMMA PlayOnEnds ==
  ASSUME NEW p, Len(p.wri) \in Nat, Answered(p), pir'.liv = TRUE, pir'.wok = FALSE,
         pir'.sat \in {"play", "wyrd"}, pir'.eve = p.eve, pir'.wal = <<>>,
         \A i \in 1 .. Len(p.wri) : pir'.wri[i] = p.wri[i],
         \A i \in 1 .. Len(pir'.wri) : pir'.wri[i].typ # "exit",
         OrdersGood(pir, pay)', BatchesGood(pir, pay, red)'
  PROVE  KingRight'
<1>1. AnswersGood(pir, out)'
  <2>1. \A i \in 1 .. Len(out') : i \in 1 .. Len(p.wri)
    BY DEF Answered
  <2>2. \A i \in 1 .. Len(out') : pir'.wri[i] = p.wri[i]
    BY <2>1
  <2>3. Counts(p.eve, Len(hst'), out', pir'.wri)
    BY <2>2, CountsGrow DEF Answered
  <2>4. QED
    BY <2>2, <2>3 DEF AnswersGood, Answered
<1>2. ~Leaving(pir') /\ ~Told(pir')
  BY DEF Leaving, Told
<1>3. LeavingGood(pir, out)'
  BY <1>2 DEF LeavingGood, Leaving, Told
<1>4. WallsGood(pir)'
  <2>1. Len(<<>>) = 0 /\ \A i \in 1 .. 0 : FALSE
    OBVIOUS
  <2>2. ExitLast(<<>>)
    BY <2>1 DEF ExitLast
  <2>3. QED
    BY <2>2 DEF WallsGood, ExitLast
<1>5. QED
  BY <1>1, <1>3, <1>4 DEF KingRight

(* The queue is out when the target is reached. *)
LEMMA TargetReached ==
  ASSUME NEW p \in Piers, NEW y \in Plays, NEW r \in Seq(Reads), PlayOn(p, y, r),
         p.eve = y.eve
  PROVE  p.wri = <<>> /\ r = <<>> /\ y.sen = p.eve /\ y.que = <<>>
<1>1. /\ p.eve \in Nat /\ p.wri \in Seq(Writs) /\ Len(p.wri) \in Nat
      /\ y.eve \in Nat /\ y.sen \in Nat /\ y.que \in Seq(Fact) /\ Len(y.que) \in Nat
  BY PierFields, PlayFields
<1>2. y.sen = p.eve /\ Len(y.que) = 0
  BY <1>1 DEF PlayOn, QueGood
<1>3. y.que = <<>>
  BY <1>1, <1>2
<1>4. r = <<>>
  BY <1>1, AtTarget DEF PlayOn
<1>5. p.wri = <<>>
  <2>1. SUFFICES ASSUME p.wri # <<>> PROVE FALSE
    OBVIOUS
  <2>2. 1 \in 1 .. Len(p.wri) /\ p.wri[1] \in Writs
    BY <1>1, <2>1
  <2>3. p.wri[1].typ = "play" /\ p.wri[1].eve = p.eve + 1
    BY <2>2 DEF PlayOn, Chained
  <2>4. 0 < Len(p.wri[1].job)
    BY <2>2, <2>3 DEF PlayOn, OrdersGood, Placed
  <2>5. p.wri[1].eve + Len(p.wri[1].job) - 1 <= y.sen
    BY <2>2, <2>3 DEF PlayOn, PlaysTo
  <2>6. PICK k \in Nat : k = Len(p.wri[1].job)
    BY <2>2 DEF Writs
  <2>7. QED
    BY <1>1, <1>2, <2>3, <2>4, <2>5, <2>6, SMTT(30)
<1>6. QED
  BY <1>2, <1>3, <1>4, <1>5

(* _pier_wyrd_init(): the spinner runs. *)
LEMMA WyrdPins ==
  ASSUME NEW p \in Piers, NEW q, q = WyrdInit(p)
  PROVE  /\ q.sat = "wyrd" /\ q.liv = p.liv /\ q.eve = p.eve /\ q.wok = p.wok
         /\ q.wal = p.wal /\ q.pin = TRUE /\ Len(q.wri) = Len(p.wri) + 1
         /\ q.wri[Len(p.wri) + 1].typ = "work"
         /\ \A i \in 1 .. Len(p.wri) : q.wri[i] = p.wri[i]
<1>1. PICK a : a = [p EXCEPT !.sat = "wyrd"]
  OBVIOUS
<1>2. a \in Piers /\ a.liv = p.liv /\ a.eve = p.eve /\ a.wok = p.wok /\ a.wal = p.wal
      /\ a.wri = p.wri /\ a.sat = "wyrd"
  BY <1>1 DEF Piers, States
<1>3. PICK w : w = Writ("work", 0, <<Wyrd>>) /\ w.typ = "work"
  <2>1. Writ("work", 0, <<Wyrd>>).typ = "work"
    BY DEF Writ
  <2>2. QED
    BY <2>1
<1>4. q = LordPlan(a, w)
  BY <1>1, <1>3 DEF WyrdInit
<1>5. q = [a EXCEPT !.wri = Append(a.wri, w), !.pin = (a.pin \/ TRUE)]
  BY <1>3, <1>4 DEF LordPlan
<1>6. /\ q.sat = a.sat /\ q.liv = a.liv /\ q.eve = a.eve /\ q.wok = a.wok
      /\ q.wal = a.wal /\ q.pin = TRUE /\ q.wri = Append(a.wri, w)
  BY <1>2, <1>5 DEF Piers
<1>7. PICK s \in Seq(Writs) : s = p.wri
  BY PierFields
<1>8. /\ Len(Append(s, w)) = Len(s) + 1 /\ Append(s, w)[Len(s) + 1] = w
      /\ \A i \in 1 .. Len(s) : Append(s, w)[i] = s[i]
  BY ONLY s \in Seq(Writs)
<1>9. QED
  BY <1>2, <1>3, <1>6, <1>7, <1>8

(* _pier_play() at the target: a snapshot and %wyrd, or an export. *)
LEMMA PlayArrivesAInv ==
  ASSUME NEW p \in Piers, NEW y \in Plays, NEW r \in Seq(Reads), NEW d \in Nat,
         PlayOn(p, y, r), PierPlay(p, y, r, d), p.eve = y.eve
  PROVE  KingRight' /\ pir'.sat \in {"play", "wyrd"} /\ pir'.liv /\ ~pir'.wok
<1>1. p.wri = <<>> /\ r = <<>> /\ y.sen = p.eve /\ y.que = <<>>
  BY TargetReached
<1>2. /\ p.sat = "play" /\ p.liv = TRUE /\ p.wok = FALSE /\ p.wal = <<>> /\ Answered(p)
      /\ Lif <= y.eve
  BY DEF PlayOn
<1>3. /\ pir' = IF y.eve < d THEN LordLive(p, "cram")
                ELSE WyrdInit(LordLive(p, "save"))
      /\ pay' = y /\ red' = r
  BY DEF PierPlay
<1>4. p.eve \in Nat /\ Len(p.wri) = 0 /\ \A i \in 1 .. 0 : FALSE
  BY <1>1, PierFields
<1>5. Len(p.wri) \in Nat /\ \A i \in 1 .. Len(p.wri) : pir'.wri[i] = p.wri[i]
  BY <1>4
<1>6. CASE y.eve < d
  <2>1. PICK w \in Writs : w = Writ("cram", p.eve, <<>>) /\ w.typ = "cram" /\ w.eve = p.eve
    BY <1>4, WritIs DEF WritType
  <2>2. PICK q : q = LordPlan(p, w) /\ q = pir'
    BY <1>1, <1>3, <1>6, <2>1 DEF LordLive
  <2>3. /\ Alike(p, q) /\ q.wok = p.wok /\ q.wal = p.wal
        /\ Len(q.wri) = Len(p.wri) + 1 /\ q.wri[Len(p.wri) + 1] = w
    <3>1. q = LordPlan(p, w)
      BY <2>2
    <3>2. QED
      BY ONLY p \in Piers, w \in Writs, <3>1, LordPlanIs
  <2>4. /\ pir'.sat = "play" /\ pir'.liv = TRUE /\ pir'.eve = p.eve /\ pir'.wok = FALSE
        /\ pir'.wal = <<>> /\ Len(pir'.wri) = 1 /\ pir'.wri[1] = w
    BY <1>2, <1>4, <2>2, <2>3 DEF Alike
  <2>5. \A i \in 1 .. 1 : i = 1
    OBVIOUS
  <2>6. OrdersGood(pir, pay)'
    <3>1. Placed(pir', y.eve, w, 1)
      BY <2>1, <2>4 DEF Placed
    <3>2. QED
      BY <1>3, <2>4, <2>5, <3>1 DEF OrdersGood
  <2>7. BatchesGood(pir, pay, red)'
    <3>1. pir'.wri # <<>>
      <4>1. pir'.wri = <<>> => Len(pir'.wri) = 0
        OBVIOUS
      <4>2. QED
        BY <2>4, <4>1
    <3>2. Chained(pir'.wri, pir'.eve, y.sen)
      BY <2>1, <2>4, <2>5, <3>1 DEF Chained
    <3>3. QED
      BY <1>1, <1>2, <1>3, <3>2 DEF BatchesGood
  <2>8. \A i \in 1 .. Len(pir'.wri) : pir'.wri[i].typ # "exit"
    BY <2>1, <2>4, <2>5
  <2>9. KingRight'
    BY <1>2, <1>4, <1>5, <2>4, <2>6, <2>7, <2>8, PlayOnEnds
  <2>10. QED
    BY <2>4, <2>9
<1>7. CASE ~(y.eve < d)
  <2>1. PICK w \in Writs : w = Writ("save", p.eve, <<>>) /\ w.typ = "save" /\ w.eve = p.eve
    BY <1>4, WritIs DEF WritType
  <2>2. PICK s : s = LordPlan(p, w) /\ pir' = WyrdInit(s)
    BY <1>1, <1>3, <1>7, <2>1 DEF LordLive
  <2>3. /\ s \in Piers /\ Alike(p, s) /\ s.wok = p.wok /\ s.wal = p.wal
        /\ Len(s.wri) = Len(p.wri) + 1 /\ s.wri[Len(p.wri) + 1] = w
    <3>1. s = LordPlan(p, w)
      BY <2>2
    <3>2. QED
      BY ONLY p \in Piers, w \in Writs, <3>1, LordPlanIs
  <2>4. Len(s.wri) = 1 /\ s.wri[1] = w
    BY <1>4, <2>3
  <2>5. /\ pir'.sat = "wyrd" /\ pir'.liv = s.liv /\ pir'.eve = s.eve /\ pir'.wok = s.wok
        /\ pir'.wal = s.wal /\ pir'.pin = TRUE /\ Len(pir'.wri) = Len(s.wri) + 1
        /\ pir'.wri[Len(s.wri) + 1].typ = "work"
        /\ \A i \in 1 .. Len(s.wri) : pir'.wri[i] = s.wri[i]
    <3>1. PICK q : q = WyrdInit(s) /\ q = pir'
      BY <2>2
    <3>2. /\ q.sat = "wyrd" /\ q.liv = s.liv /\ q.eve = s.eve /\ q.wok = s.wok
          /\ q.wal = s.wal /\ q.pin = TRUE /\ Len(q.wri) = Len(s.wri) + 1
          /\ q.wri[Len(s.wri) + 1].typ = "work"
          /\ \A i \in 1 .. Len(s.wri) : q.wri[i] = s.wri[i]
      <4>1. s \in Piers /\ q = WyrdInit(s)
        BY <2>3, <3>1
      <4>2. QED
        BY <4>1, WyrdPins, Zenon, ZenonT(60)
    <3>3. QED
      BY <3>1, <3>2
  <2>6. /\ pir'.liv = TRUE /\ pir'.eve = p.eve /\ pir'.wok = FALSE /\ pir'.wal = <<>>
        /\ Len(pir'.wri) = 2 /\ pir'.wri[1] = w /\ pir'.wri[2].typ = "work"
    <3>1. 1 \in 1 .. 1 /\ 1 + 1 = 2
      OBVIOUS
    <3>2. QED
      BY <1>2, <2>3, <2>4, <2>5, <3>1, ZenonT(60) DEF Alike
  <2>7. \A i \in 1 .. 2 : i = 1 \/ i = 2
    OBVIOUS
  <2>8. OrdersGood(pir, pay)'
    <3>1. Placed(pir', y.eve, w, 1) /\ Placed(pir', y.eve, pir'.wri[2], 2)
      BY <2>1, <2>5, <2>6 DEF Placed
    <3>2. QED
      BY <1>3, <2>6, <2>7, <3>1 DEF OrdersGood
  <2>9. BatchesGood(pir, pay, red)'
    BY <2>5 DEF BatchesGood
  <2>10. \A i \in 1 .. Len(pir'.wri) : pir'.wri[i].typ # "exit"
    BY <2>1, <2>6, <2>7
  <2>11. KingRight'
    BY <1>2, <1>4, <1>5, <2>5, <2>6, <2>8, <2>9, <2>10, PlayOnEnds
  <2>12. QED
    BY <2>5, <2>6, <2>11
<1>8. QED
  BY <1>6, <1>7

(* A read that _pier_play_read() asks for. *)
LEMMA PlayReadsFirst ==
  ASSUME NEW z \in Plays, QueGood(z), NEW r \in Seq(Reads), ReadFits(z, r),
         Lif <= z.eve, r # <<>> => FirstRead(r[1]),
         NEW b, b = (IF PlayReads(z)
                     THEN Asked(r, PlayLast(z) + 1,
                                Lesser(z.eve - PlayLast(z), ReadBatch))
                     ELSE r)
  PROVE  b # <<>> => FirstRead(b[1])
<1>1. /\ z.eve \in Nat /\ z.sen \in Nat /\ Len(z.que) \in Nat /\ z.req \in Nat
  BY PlayFields
<1>2. CASE ~PlayReads(z)
  BY <1>2
<1>3. CASE PlayReads(z)
  <2>1. PICK l \in Nat : l = PlayLast(z) /\ l = z.sen + Len(z.que)
    <3>1. PlayLast(z) = z.sen + Len(z.que) /\ z.sen + Len(z.que) \in Nat
      BY <1>1, PlayLastIs
    <3>2. QED
      BY <3>1
  <2>2. l < z.eve /\ l + 1 > z.req
    BY <1>3, <2>1 DEF PlayReads
  <2>3. r = <<>>
    BY <1>1, <2>1, <2>2 DEF ReadFits
  <2>4. PICK x : x = [sat |-> "wait", eve |-> l + 1, len |-> Lesser(z.eve - l, ReadBatch),
                      fac |-> <<>>]
    OBVIOUS
  <2>5. b = Append(<<>>, x)
    BY <1>3, <2>1, <2>3, <2>4 DEF Asked
  <2>6. b[1] = x
    <3>1. <<>> \in Seq({x}) /\ Len(<<>>) = 0
      OBVIOUS
    <3>2. Append(<<>>, x)[1] = x
      BY <3>1
    <3>3. QED
      BY <2>5, <3>2
  <2>7. x.sat = "wait" /\ x.eve = l + 1 /\ x.len = Lesser(z.eve - l, ReadBatch)
    BY <2>4
  <2>8. l + 1 = 1 => Lif <= Lesser(z.eve - l, ReadBatch)
    <3>1. ReadBatch \in Nat /\ Lif \in Nat /\ Lif <= ReadBatch
      BY PierAssumption
    <3>2. l + 1 = 1 => z.eve - l = z.eve
      BY <1>1
    <3>3. QED
      BY <1>1, <3>1, <3>2 DEF Lesser
  <2>9. QED
    BY <2>6, <2>7, <2>8 DEF FirstRead
<1>4. QED
  BY <1>2, <1>3

(* The first batch has the lifecycle sequence. *)
LEMMA FirstBatch ==
  ASSUME NEW y \in Plays, QueGood(y), y.que # <<>>, y.sen = 0, Lif <= Len(y.que)
  PROVE  Lif <= PlayNext(y, PlayLen(y))
<1>1. Lif \in Nat /\ PlayBatch \in Nat /\ Len(y.que) \in Nat
  BY PierAssumption, PlayFields
<1>2. PlayLen(y) \in Nat /\ Lif <= PlayLen(y)
  BY <1>1 DEF PlayLen, Greater
<1>3. QED
  BY <1>1, <1>2 DEF PlayNext, Lesser

(* _pier_play() short of the target: the next batch and the next read. *)
LEMMA PlayAdvancesAInv ==
  ASSUME NEW p \in Piers, NEW y \in Plays, NEW r \in Seq(Reads), NEW d \in Nat,
         NEW g \in Nat, DOMAIN db = 1 .. g, y.eve <= g,
         PlayOn(p, y, r), PierPlay(p, y, r, d), p.eve # y.eve
  PROVE  KingRight' /\ pir'.sat \in {"play", "wyrd"} /\ pir'.liv /\ ~pir'.wok
<1>1. /\ p.sat = "play" /\ p.liv = TRUE /\ p.wok = FALSE /\ p.wal = <<>> /\ Answered(p)
      /\ OrdersGood(p, y) /\ Chained(p.wri, p.eve, y.sen)
      /\ Lif <= y.eve /\ QueGood(y) /\ ReadFits(y, r)
      /\ \A i \in 1 .. Len(p.wri) : p.wri[i].typ # "cram"
      /\ (y.sen = 0 /\ y.que # <<>>) => Lif <= Len(y.que)
      /\ r # <<>> => FirstRead(r[1])
  BY DEF PlayOn
<1>2. /\ p.eve \in Nat /\ p.wri \in Seq(Writs) /\ Len(p.wri) \in Nat
      /\ y.eve \in Nat /\ y.sen \in Nat /\ y.que \in Seq(Fact) /\ Len(y.que) \in Nat
  BY PierFields, PlayFields
<1>3. PICK z : z = PlaySent(y)
  OBVIOUS
<1>4. /\ z \in Plays /\ z.eve = y.eve /\ QueGood(z) /\ ReadFits(z, r)
  BY <1>1, <1>3, PlaySentGood
<1>5. PICK a : a = (IF PlayReads(z) THEN [z EXCEPT !.req = PlayLast(z) + 1] ELSE z)
  OBVIOUS
<1>6. PICK b : b = (IF PlayReads(z)
                    THEN Asked(r, PlayLast(z) + 1,
                               Lesser(z.eve - PlayLast(z), ReadBatch))
                    ELSE r)
  OBVIOUS
<1>7. /\ pir' = IF y.que = <<>> THEN p ELSE LordPlan(p, PlayWrit(y))
      /\ pay' = a /\ red' = b
  BY <1>3, <1>4, <1>5, <1>6 DEF PierPlay
<1>8. /\ a.eve = y.eve /\ a.sen = z.sen /\ a.que = z.que
  BY <1>4, <1>5, <1>6, PlayReadsGood
<1>9. b # <<>> => FirstRead(b[1])
  BY <1>1, <1>4, <1>6, PlayReadsFirst
<1>10. \A i \in 1 .. Len(p.wri) : p.wri[i].typ \in {"play", "cram"}
  BY <1>1 DEF Chained
<1>11. CASE y.que = <<>>
  <2>1. pir' = p /\ a.sen = y.sen /\ a.que = <<>>
    BY <1>3, <1>7, <1>8, <1>11 DEF PlaySent
  <2>2. OrdersGood(pir, pay)'
    BY <1>1, <1>7, <1>8, <2>1, SMTT(30) DEF OrdersGood, Placed
  <2>3. BatchesGood(pir, pay, red)'
    BY <1>1, <1>7, <1>8, <1>9, <2>1 DEF BatchesGood
  <2>4. KingRight'
    BY <1>1, <1>2, <1>10, <2>1, <2>2, <2>3, PlayOnEnds
  <2>5. QED
    BY <1>1, <2>1, <2>4
<1>12. CASE y.que # <<>>
  <2>1. PICK n : n = PlayNext(y, PlayLen(y))
    OBVIOUS
  <2>2. PICK w : w = PlayWrit(y)
    OBVIOUS
  <2>3. /\ n \in 1 .. Len(y.que)
        /\ w \in Writs /\ w.typ = "play" /\ w.eve = y.sen + 1 /\ Len(w.job) = n
        /\ z.sen = y.sen + n
    BY <1>1, <1>3, <1>12, <2>1, <2>2, PlaySentIs
  <2>4. PICK q : q = LordPlan(p, w) /\ q = pir'
    BY <1>7, <1>12, <2>2
  <2>5. /\ Alike(p, q) /\ q.wok = p.wok /\ q.wal = p.wal
        /\ Len(q.wri) = Len(p.wri) + 1 /\ q.wri[Len(p.wri) + 1] = w
        /\ \A i \in 1 .. Len(p.wri) : q.wri[i] = p.wri[i]
    <3>1. w \in Writs /\ q = LordPlan(p, w)
      BY <2>3, <2>4
    <3>2. QED
      <4>1. Alike(p, q) /\ q.wok = p.wok /\ q.wal = p.wal
        BY <3>1, LordPlanIs
      <4>2. /\ Len(q.wri) = Len(p.wri) + 1 /\ q.wri[Len(p.wri) + 1] = w
            /\ \A i \in 1 .. Len(p.wri) : q.wri[i] = p.wri[i]
        BY <3>1, LordPlanIs
      <4>3. QED
        BY <4>1, <4>2
  <2>6. p.pin => q.pin
    BY <2>4 DEF LordPlan, Piers
  <2>7. /\ pir'.sat = "play" /\ pir'.liv = TRUE /\ pir'.wok = FALSE /\ pir'.wal = <<>>
        /\ pir'.eve = p.eve /\ pir'.wri = q.wri /\ (p.pin => pir'.pin)
    BY <1>1, <2>4, <2>5, <2>6 DEF Alike
  <2>8. \A i \in 1 .. Len(q.wri) : i \in 1 .. Len(p.wri) \/ i = Len(p.wri) + 1
    BY <1>2, <2>5
  <2>9. OrdersGood(pir, pay)'
    <3>1. \A i \in 1 .. Len(p.wri) : Placed(pir', a.eve, q.wri[i], i)
      BY <1>1, <1>8, <2>5, <2>7, SMTT(30) DEF OrdersGood, Placed
    <3>2. Placed(pir', a.eve, w, Len(p.wri) + 1)
      <4>1. 0 < n /\ (y.sen + 1 = 1 => y.sen = 0)
        BY <1>2, <2>3
      <4>2. y.sen = 0 => Lif <= n
        BY <1>1, <1>12, <2>1, FirstBatch
      <4>3. QED
        BY <2>3, <2>7, <4>1, <4>2 DEF Placed
    <3>3. \A i \in 1 .. Len(q.wri) : Placed(pir', a.eve, q.wri[i], i)
      BY <2>5, <2>8, <3>1, <3>2
    <3>4. QED
      BY <1>7, <2>7, <3>3 DEF OrdersGood
  <2>10. BatchesGood(pir, pay, red)'
    <3>1. y.sen + n \in Nat /\ y.sen + n # 0 /\ End(w) = (y.sen + n) + 1
      <4>1. End(w) = (y.sen + 1) + n /\ n \in Nat /\ 0 < n
        BY <2>3 DEF End
      <4>2. QED
        BY <1>2, <4>1, SMTT(30)
    <3>2. Chained(q.wri, p.eve, y.sen + n)
      <4>1. PICK m \in Nat : m = y.sen + n
        BY <3>1
      <4>2. PICK t : t = q.wri
        OBVIOUS
      <4>3. /\ Len(t) = Len(p.wri) + 1 /\ t[Len(p.wri) + 1] = w
            /\ \A i \in 1 .. Len(p.wri) : t[i] = p.wri[i]
        BY <2>5, <4>2
      <4>4. End(w) = m + 1
        BY <3>1, <4>1
      <4>5. Chained(t, p.eve, m)
        BY <1>1, <1>2, <2>3, <4>3, <4>4, ChainedOn
      <4>6. QED
        BY <4>1, <4>2, <4>5
    <3>3. QED
      BY <1>1, <1>7, <1>8, <1>9, <2>3, <2>7, <3>1, <3>2 DEF BatchesGood
  <2>11. \A i \in 1 .. Len(pir'.wri) : pir'.wri[i].typ # "exit"
    BY <1>10, <2>3, <2>5, <2>7, <2>8, ZenonT(60)
  <2>12. \A i \in 1 .. Len(p.wri) : pir'.wri[i] = p.wri[i]
    BY <2>5, <2>7
  <2>13. KingRight'
    BY <1>1, <1>2, <2>7, <2>9, <2>10, <2>11, <2>12, PlayOnEnds
  <2>14. QED
    BY <2>7, <2>13
<1>13. QED
  BY <1>11, <1>12

(* _pier_play(). *)
LEMMA PierPlayAInv ==
  ASSUME PInv, NEW p \in Piers, NEW y \in Plays, NEW r \in Seq(Reads), NEW d \in Nat,
         PlayOn(p, y, r), PierPlay(p, y, r, d), y.eve <= Gulf, db' = db, IdleGood',
         Gulf # 0 => BootLen <= Gulf
  PROVE  AInv'
<1>1. PICK g \in Nat : g = Gulf /\ DOMAIN db = 1 .. g
  BY KingFacts
<1>2. y.eve <= g
  BY <1>1
<1>3. KingRight' /\ pir'.sat \in {"play", "wyrd"} /\ pir'.liv /\ ~pir'.wok
  BY <1>1, <1>2, PlayArrivesAInv, PlayAdvancesAInv
<1>4. Gulf' = Gulf
  BY DEF Gulf
<1>5. QED
  BY <1>3, <1>4 DEF AInv, RipeGood, BootGood

(* A king that has heard everything and sent nothing. *)
LEMMA AnsweredAll ==
  ASSUME NEW p, p.wri = <<>>, out' = <<>>, NEW n \in Nat, p.eve = n, Len(hst') = n
  PROVE  Answered(p)
<1>1. Len(<<>>) = 0 /\ \A i \in 1 .. 0 : FALSE
  OBVIOUS
<1>2. PICK f : f = [i \in 0 .. 0 |-> n]
  OBVIOUS
<1>3. f \in [0 .. 0 -> Nat] /\ f[0] = n
  BY <1>2
<1>4. Counts(n, n, <<>>, <<>>)
  BY <1>1, <1>3 DEF Counts, CountedBy
<1>5. QED
  BY <1>1, <1>4 DEF Answered

(* _pier_play_init(). *)
LEMMA PlayInitAInv ==
  ASSUME PInv, NEW p \in Piers, p.liv = TRUE, p.wok = FALSE, p.wal = <<>>, p.wri = <<>>,
         red = <<>>, out' = <<>>, Len(hst') = p.eve, NEW e \in Nat, NEW d \in Nat,
         p.eve <= e, Lif <= e, e <= Gulf, PlayInit(p, e, d), db' = db, IdleGood',
         Gulf # 0 => BootLen <= Gulf
  PROVE  AInv'
<1>1. PICK a : a = [p EXCEPT !.sat = "play"]
  OBVIOUS
<1>2. PICK y : y = [eve |-> e, sen |-> p.eve, req |-> 0, que |-> <<>>]
  OBVIOUS
<1>3. /\ a \in Piers /\ a.sat = "play" /\ a.liv = TRUE /\ a.wok = FALSE
      /\ a.eve = p.eve /\ a.wal = <<>> /\ a.wri = <<>>
  BY <1>1 DEF Piers, States
<1>4. p.eve \in Nat /\ Len(<<>>) = 0 /\ \A i \in 1 .. 0 : FALSE
  BY PierFields
<1>5. y \in Plays /\ y.eve = e /\ y.sen = p.eve /\ y.que = <<>>
  <2>1. <<>> \in Seq(Fact)
    OBVIOUS
  <2>2. QED
    BY <1>2, <1>4, <2>1 DEF Plays
<1>6. PierPlay(a, y, red, d) /\ red \in Seq(Reads)
  BY <1>1, <1>2 DEF PlayInit, PInv, TypeOK, DiskTypeOK
<1>7. Answered(a)
  BY <1>3, <1>4, AnsweredAll
<1>8. OrdersGood(a, y) /\ Chained(a.wri, a.eve, y.sen) /\ PlaysTo(a.wri, y.sen)
  BY <1>3, <1>4, <1>5 DEF OrdersGood, Chained, PlaysTo
<1>9. QueGood(y) /\ ReadFits(y, red)
  BY <1>4, <1>5 DEF QueGood, ReadFits
<1>10. PlayOn(a, y, red)
  BY <1>3, <1>4, <1>5, <1>7, <1>8, <1>9 DEF PlayOn
<1>11. QED
  BY <1>3, <1>5, <1>6, <1>10, PierPlayAInv

(* The worker's %ripe, as the king hears it. *)
LEMMA RipeNow ==
  ASSUME PInv, AInv, Hears({"ripe"}), out' = Tail(out), hst' = hst, NEW p,
         p = [pir EXCEPT !.liv = TRUE, !.eve = out[1].eve]
  PROVE  /\ p \in Piers /\ p.sat = pir.sat /\ pir.sat \in {"boot", "init"}
         /\ p.wri = <<>> /\ p.liv = TRUE /\ p.wok = FALSE /\ p.wal = <<>> /\ p.eve \in Nat
         /\ p.eve = Len(hst) /\ hst = chk /\ out' = <<>> /\ Answered(p) /\ red = <<>>
         /\ p.pep = pir.pep /\ liv
         /\ pir.sat = "init" => sen = dun /\ dun = Gulf
         /\ pir.sat = "boot" => p.eve = 0
<1>1. /\ p \in Piers /\ p.sat = pir.sat /\ pir.sat \in {"boot", "init"}
      /\ p.wri = <<>> /\ ~pir.liv /\ p.liv /\ p.wok = FALSE /\ p.wal = pir.wal
      /\ p.eve = out[1].eve /\ p.eve \in Nat /\ p.pep = pir.pep
      /\ pir.sat = "init" => sen = dun
      /\ liv /\ out # <<>>
  BY RipeIs
<1>2. p.liv = TRUE
  BY <1>1, PierFields
<1>3. hst = chk /\ p.eve = Len(hst)
  BY <1>1 DEF AInv, RipeGood
<1>4. pir.wal = <<>>
  <2>1. ~pir.wok
    BY <1>1 DEF PInv, KingGood
  <2>2. QED
    BY <2>1 DEF AInv, KingRight, WallsGood
<1>5. out' = <<>>
  <2>1. Len(out) <= 1 /\ out \in Seq(Pleas)
    <3>1. Len(out) = 1
      BY <1>1 DEF PInv, Pipes
    <3>2. QED
      BY <3>1, KingFacts
  <2>2. QED
    BY <1>1, <2>1, TailOfOne
<1>6. red = <<>>
  BY <1>1 DEF PInv, KingGood
<1>7. pir.sat = "init" => dun = Gulf
  BY <1>1, AllWritten DEF AInv
<1>8. pir.sat = "boot" => p.eve = 0
  <2>1. pir.sat = "boot" => hst = <<>>
    BY DEF PInv, KingGood
  <2>2. QED
    BY <1>3, <2>1
<1>9. Answered(p)
  BY <1>1, <1>3, <1>5, AnsweredAll
<1>10. QED
  BY <1>1, <1>2, <1>3, <1>4, <1>5, <1>6, <1>7, <1>8, <1>9

(* _pier_on_lord_live(). *)
LEMMA OnRipeAInv == PInv /\ AInv /\ OnRipe => AInv'
<1> SUFFICES ASSUME PInv, AInv, OnRipe PROVE AInv'
  OBVIOUS
<1>1. PICK p : p = [pir EXCEPT !.liv = TRUE, !.eve = out[1].eve]
  OBVIOUS
<1>2. /\ Hears({"ripe"}) /\ out' = Tail(out) /\ UNCHANGED <<hst, chk>>
      /\ UNCHANGED <<db, sen, dun, req>>
  BY DEF OnRipe, Heard, writeVars
<1>3. /\ p \in Piers /\ p.sat = pir.sat /\ pir.sat \in {"boot", "init"}
      /\ p.wri = <<>> /\ p.liv = TRUE /\ p.wok = FALSE /\ p.wal = <<>> /\ p.eve \in Nat
      /\ p.eve = Len(hst) /\ out' = <<>> /\ Answered(p) /\ red = <<>>
      /\ p.pep = pir.pep
      /\ pir.sat = "init" => sen = dun /\ dun = Gulf
      /\ pir.sat = "boot" => p.eve = 0
  BY <1>1, <1>2, RipeNow
<1>4. /\ dun \in Nat /\ sen \in Nat /\ Gulf \in Nat /\ dun <= Gulf /\ Len(hst') = p.eve
      /\ Lif \in Nat /\ BootLen \in Nat /\ Lif <= BootLen
  BY <1>2, <1>3, KingFacts, PierAssumption
<1>5. /\ Gulf # 0 => BootLen <= Gulf
      /\ pir.sat = "boot" => sen \in {0, BootLen} /\ ~pir.pep
      /\ IdleGood /\ Gulf' = Gulf
  BY <1>2 DEF AInv, BootGood, Gulf
<1>6. IdleGood'
  BY <1>2, <1>5 DEF IdleGood
<1>7. CASE pir.sat = "boot" /\ sen > 0 /\ sen = dun /\ PlayInit(p, dun, dun)
  <2>1. p.eve <= dun /\ Lif <= dun
    BY <1>3, <1>4, <1>5, <1>7
  <2>2. QED
    BY <1>2, <1>3, <1>4, <1>5, <1>6, <1>7, <2>1, PlayInitAInv
<1>8. CASE pir' = p /\ pir.sat = "boot" /\ UNCHANGED <<pay, red>>
  <2>1. Len(<<>>) = 0 /\ \A i \in 1 .. 0 : FALSE
    OBVIOUS
  <2>2. AnswersGood(pir, out)'
    BY <1>2, <1>3, <1>8 DEF AnswersGood, Answered
  <2>3. LeavingGood(pir, out)' /\ WallsGood(pir)' /\ OrdersGood(pir, pay)'
    BY <1>3, <1>8, <2>1 DEF LeavingGood, Leaving, Told, WallsGood, ExitLast, OrdersGood
  <2>4. BatchesGood(pir, pay, red)'
    BY <1>3, <1>8 DEF BatchesGood
  <2>5. KingRight'
    BY <2>2, <2>3, <2>4 DEF KingRight
  <2>6. QED
    BY <1>2, <1>3, <1>5, <1>6, <1>8, <2>5 DEF AInv, RipeGood, BootGood
<1>9. CASE /\ pir.sat # "boot" /\ p.eve < dun
           /\ \E e \in {dun} \cup {t \in Tills : p.eve < t /\ t < dun} :
                PlayInit(p, e, dun)
  <2>1. PICK e \in {dun} \cup {t \in Tills : p.eve < t /\ t < dun} :
           PlayInit(p, e, dun)
    BY <1>9
  <2>2. BootLen <= Gulf /\ dun = Gulf
    BY <1>3, <1>4, <1>5, <1>9
  <2>3. e \in Nat /\ p.eve <= e /\ e <= Gulf /\ Lif <= e
    <3>1. \A t \in Tills : t \in Nat /\ Lif <= t
      BY PierAssumption
    <3>2. CASE e = dun
      BY <1>3, <1>4, <1>9, <2>2, <3>2
    <3>3. CASE e \in Tills /\ p.eve < e /\ e < dun
      BY <1>3, <1>4, <2>2, <3>1, <3>3
    <3>4. QED
      BY <2>1, <3>2, <3>3
  <2>4. QED
    BY <1>2, <1>3, <1>4, <1>5, <1>6, <2>1, <2>3, PlayInitAInv
<1>10. CASE pir.sat # "boot" /\ pir' = WyrdInit(p) /\ UNCHANGED <<pay, red>>
  <2>1. PICK q : q = WyrdInit(p) /\ q = pir'
    BY <1>10
  <2>2. /\ q.sat = "wyrd" /\ q.liv = p.liv /\ q.eve = p.eve /\ q.wok = p.wok
        /\ q.wal = p.wal /\ q.pin = TRUE /\ Len(q.wri) = Len(p.wri) + 1
        /\ q.wri[Len(p.wri) + 1].typ = "work"
    <3>1. p \in Piers /\ q = WyrdInit(p)
      BY <1>3, <2>1
    <3>2. QED
      BY <3>1, WyrdPins, Zenon, ZenonT(60)
  <2>3. /\ Len(p.wri) = 0 /\ 0 + 1 = 1 /\ \A i \in 1 .. 1 : i = 1
        /\ \A i \in 1 .. 0 : FALSE
    BY <1>3
  <2>4. /\ pir'.sat = "wyrd" /\ pir'.liv = TRUE /\ pir'.eve = p.eve /\ pir'.wok = FALSE
        /\ pir'.wal = <<>> /\ pir'.pin = TRUE /\ Len(pir'.wri) = 1
        /\ pir'.wri[1].typ = "work"
    BY <1>3, <2>1, <2>2, <2>3
  <2>5. OrdersGood(pir, pay)'
    BY <2>3, <2>4 DEF OrdersGood, Placed
  <2>6. BatchesGood(pir, pay, red)'
    BY <2>4 DEF BatchesGood
  <2>7. /\ Len(p.wri) \in Nat /\ \A i \in 1 .. Len(p.wri) : pir'.wri[i] = p.wri[i]
        /\ \A i \in 1 .. Len(pir'.wri) : pir'.wri[i].typ # "exit"
    BY <2>3, <2>4
  <2>8. KingRight'
    BY <1>3, <2>4, <2>5, <2>6, <2>7, PlayOnEnds
  <2>9. QED
    BY <1>5, <1>6, <2>4, <2>8 DEF AInv, RipeGood, BootGood
<1>11. QED
  BY <1>1, <1>3, <1>7, <1>8, <1>9, <1>10 DEF OnRipe

(* _pier_on_lord_play_done(), heard: the batch at the head is done. *)
LEMMA ReplayedOn ==
  ASSUME PInv, AInv, Hears({"played"}), out' = Tail(out), hst' = hst, NEW p, p = Replayed
  PROVE  /\ p \in Piers /\ pir.sat = "play" /\ PlayOn(p, pay, red)
         /\ pay \in Plays /\ red \in Seq(Reads) /\ pay.eve <= dun /\ sen = dun
<1>1. /\ p \in Piers /\ p.sat = "play" /\ pir.sat = "play"
      /\ p.wri = Tail(pir.wri) /\ pir.wri # <<>> /\ out # <<>>
      /\ p.liv = pir.liv /\ pir.liv /\ p.wok = pir.wok
      /\ p.wal = pir.wal /\ p.eve \in Nat /\ p.eve <= pay.sen
  BY ReplayedIs
<1>2. /\ pay \in Plays /\ red \in Seq(Reads)
      /\ QueGood(pay) /\ ReadFits(pay, red) /\ PlaysTo(pir.wri, pay.sen)
      /\ pay.eve <= dun /\ sen = dun /\ pir.liv = TRUE /\ pir.wok = FALSE
  BY <1>1, PlayNow
<1>3. /\ Chained(pir.wri, pir.eve, pay.sen) /\ Lif <= pay.eve
      /\ pay.sen = 0 => pay.que = <<>>
      /\ red # <<>> => FirstRead(red[1])
      /\ pir.wal = <<>> /\ OrdersGood(pir, pay)
  BY <1>1, <1>2 DEF AInv, KingRight, BatchesGood, WallsGood
<1>4. /\ out[1].typ = "played" /\ pir.wri[1] \in Writs /\ pir.wri[1].typ = "play"
      /\ pir \in Piers /\ pir.wri \in Seq(Writs) /\ pay.sen \in Nat /\ pir.sat # "down"
  <2>1. out[1].typ = "played" /\ pir.wri[1] \in Writs /\ PleaFits(out[1], pir.wri[1])
    BY HearsIs
  <2>2. pay.sen \in Nat
    BY <1>2, PlayFields
  <2>3. QED
    BY <1>1, <2>1, <2>2, KingFacts DEF PleaFits, PInv, TypeOK
<1>5. p.eve = pir.wri[1].eve + Len(pir.wri[1].job) - 1 /\ p.pin = pir.pin
  BY <1>4 DEF Replayed, LordPop, Piers
<1>6. End(pir.wri[1]) = p.eve + 1
  <2>1. PICK n \in Nat : n = pir.wri[1].eve
    BY <1>4 DEF Writs
  <2>2. PICK k \in Nat : k = Len(pir.wri[1].job)
    BY <1>4 DEF Writs
  <2>3. p.eve = n + k - 1 /\ End(pir.wri[1]) = n + k
    BY <1>5, <2>1, <2>2 DEF End
  <2>4. QED
    BY <2>3
<1>7. Kept(p)
  BY <1>1, <1>4, <1>5 DEF Kept, Counted
<1>8. Answered(p)
  <2>1. /\ \A i \in 1 .. Len(out') : Answering(out'[i], p.wri[i])
        /\ Counts(p.eve, Len(hst), out', p.wri)
    BY <1>1, <1>4, <1>7, AnswersKept
  <2>2. Len(out') \in Nat /\ Len(out') <= Len(p.wri)
    <3>1. PICK m \in Nat : Len(pir.wri) = m + 1 /\ Len(Tail(pir.wri)) = m
      BY <1>1, <1>4, TailIs
    <3>2. out \in Seq(Pleas)
      BY KingFacts
    <3>3. PICK n \in Nat : Len(out) = n + 1 /\ Len(Tail(out)) = n
      BY <1>1, <3>2, TailIs
    <3>4. n + 1 <= m + 1
      BY <1>1, <1>4, <3>1, <3>3 DEF PInv, Pipes
    <3>5. n <= m
      BY <3>4
    <3>6. QED
      BY <1>1, <3>1, <3>3, <3>5
  <2>3. QED
    BY <2>1, <2>2 DEF Answered
<1>9. PICK m \in Nat : /\ Len(pir.wri) = m + 1 /\ Len(p.wri) = m
                       /\ \A i \in 1 .. m : p.wri[i] = pir.wri[i + 1]
  BY <1>1, <1>4, TailIs
<1>10. ASSUME NEW i \in 1 .. m PROVE p.wri[i].typ # "cram" /\ (p.wri[i].typ = "work" => p.pin)
  <2>1. i + 1 \in 1 .. Len(pir.wri) /\ i + 1 # 1
    BY <1>9
  <2>2. Placed(pir, pay.eve, pir.wri[i + 1], i + 1)
    BY <1>3, <2>1 DEF OrdersGood
  <2>3. QED
    BY <1>5, <1>9, <2>1, <2>2 DEF Placed
<1>11. OrdersGood(p, pay)
  <2>1. \A i \in 1 .. Len(p.wri) : Placed(p, pay.eve, p.wri[i], i)
    <3>1. \A i \in 1 .. Len(p.wri) : p.wri[i].typ = "work" => p.pin
      BY <1>9, <1>10
    <3>2. QED
      BY <1>1, <1>7, <3>1, OldPlaced
  <2>2. QED
    BY <2>1 DEF OrdersGood
<1>12. Chained(p.wri, p.eve, pay.sen)
  BY <1>1, <1>3, <1>4, <1>6, ChainedTail, SMTT(30)
<1>13. PlaysTo(p.wri, pay.sen)
  BY <1>1, <1>2, <1>4, PlaysToTail
<1>14. PlayOn(p, pay, red)
  BY <1>1, <1>2, <1>3, <1>8, <1>9, <1>10, <1>11, <1>12, <1>13 DEF PlayOn
<1>15. QED
  BY <1>1, <1>2, <1>14

LEMMA OnPlayDoneAInv == PInv /\ AInv /\ OnPlayDone => AInv'
<1> SUFFICES ASSUME PInv, AInv, OnPlayDone PROVE AInv'
  OBVIOUS
<1>1. /\ Hears({"played"}) /\ PierPlay(Replayed, pay, red, dun) /\ out' = Tail(out)
      /\ hst' = hst /\ UNCHANGED <<db, req>>
  BY DEF OnPlayDone, Heard, writeVars
<1>2. PICK p : p = Replayed
  OBVIOUS
<1>3. /\ p \in Piers /\ PlayOn(p, pay, red)
      /\ pay \in Plays /\ red \in Seq(Reads) /\ pay.eve <= dun
  BY <1>1, <1>2, ReplayedOn
<1>4. PICK d \in Nat : d = dun /\ d <= Gulf
  BY KingFacts
<1>5. pay.eve <= Gulf
  BY <1>3, <1>4, KingFacts, PlayFields, SMTT(30)
<1>6. IdleGood' /\ (Gulf # 0 => BootLen <= Gulf)
  BY <1>1 DEF AInv, IdleGood, BootGood
<1>7. PierPlay(p, pay, red, d)
  BY <1>1, <1>2, <1>4
<1>8. QED
  BY <1>1, <1>3, <1>5, <1>6, <1>7, PierPlayAInv

(* _pier_on_disk_read_done(). *)
LEMMA OnReadDoneAInv == PInv /\ AInv /\ OnReadDone => AInv'
<1> SUFFICES ASSUME PInv, AInv, OnReadDone PROVE AInv'
  OBVIOUS
<1>1. PICK z : z = [pay EXCEPT !.que = pay.que \o red[1].fac]
  OBVIOUS
<1>2. /\ red # <<>> /\ red[1].sat = "held" /\ PierPlay(pir, z, Tail(red), dun)
      /\ UNCHANGED <<db, req>> /\ UNCHANGED <<out, hst>>
  BY <1>1 DEF OnReadDone, Delivered, writeVars
<1>3. pir.sat = "play"
  BY <1>2 DEF PInv, KingGood
<1>4. /\ pay \in Plays /\ red \in Seq(Reads) /\ pir \in Piers
      /\ QueGood(pay) /\ ReadFits(pay, red) /\ PlaysTo(pir.wri, pay.sen)
      /\ pay.eve <= dun /\ pir.eve <= pay.sen
      /\ pir.liv = TRUE /\ pir.wok = FALSE
  BY <1>3, PlayNow
<1>5. PICK x \in Reads : x = red[1]
  <2>1. red[1] \in Reads
    BY <1>2, <1>4
  <2>2. QED
    BY <2>1
<1>6. /\ x.eve = pay.sen + Len(pay.que) + 1 /\ x.eve + x.len - 1 <= pay.eve
      /\ Good(db, x) /\ x.sat = "held" /\ Len(red) <= 1
  BY <1>2, <1>4, <1>5 DEF ReadFits
<1>7. z \in Plays /\ z.eve = pay.eve /\ z.sen = pay.sen /\ QueGood(z)
      /\ z.que = pay.que \o x.fac
  <2>1. z = [pay EXCEPT !.que = pay.que \o x.fac]
    BY <1>1, <1>5
  <2>2. z \in Plays /\ z.eve = pay.eve /\ z.sen = pay.sen /\ QueGood(z)
    BY <1>4, <1>6, <2>1, PlayPlanIs
  <2>3. z.que = pay.que \o x.fac
    BY <1>4, <2>1, SMTT(30) DEF Plays
  <2>4. QED
    BY <2>2, <2>3
<1>8. Tail(red) = <<>> /\ Tail(red) \in Seq(Reads)
  <2>1. red # <<>> /\ red \in Seq(Reads) /\ Len(red) <= 1
    BY <1>2, <1>4, <1>6
  <2>2. QED
    BY <2>1, TailOfOne
<1>9. ReadFits(z, Tail(red))
  <2>1. Len(<<>>) = 0
    OBVIOUS
  <2>2. QED
    BY <1>8, <2>1, SMTT(30) DEF ReadFits
<1>10. /\ Chained(pir.wri, pir.eve, pay.sen) /\ Lif <= pay.eve
       /\ pay.sen = 0 => pay.que = <<>>
       /\ FirstRead(x) /\ pir.wal = <<>> /\ OrdersGood(pir, pay)
  BY <1>2, <1>3, <1>4, <1>5 DEF AInv, KingRight, BatchesGood, WallsGood
<1>11. Answered(pir)
  <2>1. Len(out) \in Nat /\ Len(out) <= Len(pir.wri)
    BY <1>3, <1>4, KingFacts DEF PInv, Pipes
  <2>2. QED
    BY <1>2, <1>3, <1>4, <2>1 DEF Answered, AInv, KingRight, AnswersGood
<1>12. OrdersGood(pir, z)
  BY <1>7, <1>10 DEF OrdersGood
<1>13. ASSUME NEW i \in 1 .. Len(pir.wri) PROVE pir.wri[i].typ # "cram"
  <2>1. SUFFICES ASSUME pir.wri[i].typ = "cram" PROVE FALSE
    OBVIOUS
  <2>2. pir.eve = pay.eve
    BY <1>10, <2>1 DEF OrdersGood, Placed
  <2>3. QED
    BY <1>2, <1>4, <2>2, KingFacts, AtTarget
<1>14. z.sen = 0 => Lif <= Len(z.que)
  <2>1. SUFFICES ASSUME pay.sen = 0 PROVE Lif <= Len(z.que)
    BY <1>7
  <2>2. pay.que = <<>>
    BY <1>10, <2>1
  <2>3. x.eve = 1
    BY <1>6, <2>1, <2>2
  <2>4. Lif <= Len(x.fac)
    BY <1>6, <1>10, <2>3 DEF FirstRead
  <2>5. z.que = x.fac
    <3>1. x.fac \in Seq(Fact)
      BY DEF Reads
    <3>2. <<>> \o x.fac = x.fac
      BY <3>1
    <3>3. QED
      BY <1>7, <2>2, <3>2
  <2>6. QED
    BY <2>4, <2>5
<1>15. PlayOn(pir, z, Tail(red))
  BY <1>3, <1>4, <1>7, <1>8, <1>9, <1>10, <1>11, <1>12, <1>13, <1>14 DEF PlayOn
<1>16. PICK d \in Nat : d = dun /\ d <= Gulf
  BY KingFacts
<1>17. z.eve <= Gulf
  BY <1>4, <1>7, <1>16, KingFacts, PlayFields, SMTT(30)
<1>18. IdleGood' /\ (Gulf # 0 => BootLen <= Gulf)
  BY <1>2 DEF AInv, IdleGood, BootGood
<1>19. PierPlay(pir, z, Tail(red), d)
  BY <1>2, <1>16
<1>20. QED
  BY <1>2, <1>4, <1>7, <1>8, <1>15, <1>17, <1>18, <1>19, PierPlayAInv

(* _pier_on_disk_write_done(). *)
LEMMA OnWriteDoneAInv == PInv /\ AInv /\ OnWriteDone => AInv'
<1> SUFFICES ASSUME PInv, AInv, OnWriteDone PROVE AInv'
  OBVIOUS
<1>1. DiskCommitDone /\ UNCHANGED <<out, hst, chk>>
  BY DEF OnWriteDone
<1>2. /\ UNCHANGED <<db, sen>> /\ dun' \in Nat /\ dun < dun' /\ dun' <= Gulf
      /\ pir.sat = "boot" => dun' = sen
  BY <1>1, WriteDoneIs
<1>3. IdleGood'
  <2>1. req' = Commit(Idle, put', sen, dun')
    BY <1>1 DEF DiskCommitDone
  <2>2. QED
    BY <2>1, CommitIdle DEF IdleGood
<1>4. /\ Gulf # 0 => BootLen <= Gulf
      /\ pir.sat = "boot" => sen \in {0, BootLen}
      /\ Gulf' = Gulf
  BY <1>2 DEF AInv, BootGood, Gulf
<1>5. CASE pir.sat = "boot" /\ pir.liv /\ PlayInit(pir, dun', dun')
  <2>1. /\ pir.wri = <<>> /\ ~pir.wok /\ pir.eve <= Len(hst) /\ hst = <<>> /\ red = <<>>
    BY <1>5 DEF PInv, KingGood
  <2>2. /\ pir \in Piers /\ out \in Seq(Pleas) /\ Len(out) \in Nat /\ dun \in Nat
        /\ Gulf \in Nat /\ sen \in Nat
    BY KingFacts DEF PInv, TypeOK
  <2>3. pir.liv = TRUE /\ pir.wok = FALSE /\ pir.eve \in Nat
    BY <1>5, <2>1, <2>2, PierFields
  <2>4. pir.eve = 0 /\ Len(hst') = pir.eve
    <3>1. Len(hst) = 0
      BY <2>1
    <3>2. QED
      BY <1>1, <2>1, <2>3, <3>1
  <2>5. out' = <<>>
    <3>1. Len(out) <= Len(pir.wri)
      BY <1>5 DEF PInv, Pipes
    <3>2. Len(pir.wri) = 0
      BY <2>1
    <3>3. Len(out) = 0
      BY <2>2, <3>1, <3>2
    <3>4. QED
      BY <1>1, <2>2, <3>3
  <2>6. pir.wal = <<>>
    BY <2>1 DEF AInv, KingRight, WallsGood
  <2>7. PICK d \in Nat : d = dun'
    BY <1>2
  <2>8. d <= Gulf /\ pir.eve <= d /\ Lif <= d
    <3>1. Lif \in Nat /\ BootLen \in Nat /\ Lif <= BootLen
      BY PierAssumption
    <3>2. d = sen /\ sen # 0
      BY <1>2, <1>5, <2>2, <2>7
    <3>3. d = BootLen
      BY <1>4, <1>5, <3>2
    <3>4. QED
      BY <1>2, <2>4, <2>7, <3>1, <3>3
  <2>9. PlayInit(pir, d, d)
    BY <1>5, <2>7
  <2>10. QED
    BY <1>2, <1>3, <1>4, <2>1, <2>2, <2>3, <2>4, <2>5, <2>6, <2>8, <2>9, PlayInitAInv
<1>6. CASE pir.sat = "boot" /\ UNCHANGED <<pir, pay, red>>
  <2>1. ~Leaving(pir) /\ KingRight
    BY <1>6, NotLeaving DEF AInv
  <2>2. AnswersGood(pir, out)' /\ OrdersGood(pir, pay)' /\ BatchesGood(pir, pay, red)'
    BY <1>1, <1>6, <2>1 DEF KingRight, AnswersGood, OrdersGood, BatchesGood
  <2>3. LeavingGood(pir, out)' /\ WallsGood(pir)'
    BY <1>6, <2>1 DEF KingRight, LeavingGood, Leaving, Told, WallsGood
  <2>4. KingRight'
    BY <2>2, <2>3 DEF KingRight
  <2>5. QED
    BY <1>1, <1>2, <1>3, <1>4, <1>6, <2>4 DEF AInv, RipeGood, BootGood
<1>7. CASE pir.wok /\ Work(pir, dun') /\ pay' = pay
  BY <1>1, <1>7, WriteWorkAInv
<1>8. QED
  BY <1>5, <1>6, <1>7 DEF OnWriteDone

-----------------------------------------------------------------------------
(* Preparation for an upgrade *)

(* u3_pier_exit() behind a snapshot that has everything, or will have. *)
LEMMA ExitNowAInv ==
  ASSUME PInv, AInv, NEW p \in Piers, p.liv = TRUE, p.wok = FALSE, p.wal = <<>>,
         Answered(p), p.eve = Gulf, sen = dun, UNCHANGED <<hst, chk>>,
         \/ p.wri = <<>> /\ Len(chk) = Gulf
         \/ /\ Len(p.wri) = 1 /\ p.wri[1].typ = "save" /\ p.wri[1].eve = p.eve
            /\ out' = <<>>,
         NEW w, ExitNow(p, w)
  PROVE  AInv'
<1>1. PICK a : a = [p EXCEPT !.sat = "done"]
  OBVIOUS
<1>2. PICK x \in Writs : x = Writ("exit", 0, <<>>) /\ x.typ = "exit"
  BY WritIs DEF WritType
<1>3. PICK q : q = LordPlan(a, x) /\ q = pir'
  BY <1>1, <1>2 DEF ExitNow
<1>4. /\ a \in Piers /\ a.liv = TRUE /\ a.wok = FALSE /\ a.wal = <<>> /\ a.eve = p.eve
      /\ a.wri = p.wri /\ a.sat = "done"
  BY <1>1 DEF Piers, States
<1>5. /\ Alike(a, q) /\ q.wok = a.wok /\ q.wal = a.wal
      /\ Len(q.wri) = Len(a.wri) + 1 /\ q.wri[Len(a.wri) + 1] = x
      /\ \A i \in 1 .. Len(a.wri) : q.wri[i] = a.wri[i]
  <2>1. a \in Piers /\ q = LordPlan(a, x)
    BY <1>3, <1>4
  <2>2. Alike(a, q) /\ q.wok = a.wok /\ q.wal = a.wal
    BY <2>1, LordPlanIs
  <2>3. /\ Len(q.wri) = Len(a.wri) + 1 /\ q.wri[Len(a.wri) + 1] = x
        /\ \A i \in 1 .. Len(a.wri) : q.wri[i] = a.wri[i]
    BY <2>1, LordPlanIs
  <2>4. QED
    BY <2>2, <2>3
<1>6. Len(p.wri) \in Nat
  BY PierFields
<1>7. /\ pir'.sat = "done" /\ pir'.liv = TRUE /\ pir'.eve = p.eve /\ pir'.wok = FALSE
      /\ pir'.wal = <<>> /\ Len(pir'.wri) = Len(p.wri) + 1
      /\ pir'.wri[Len(p.wri) + 1] = x
      /\ \A i \in 1 .. Len(p.wri) : pir'.wri[i] = p.wri[i]
  BY <1>3, <1>4, <1>5 DEF Alike
<1>8. UNCHANGED <<db, sen, dun>> /\ Gulf' = Gulf /\ IdleGood'
  BY DEF ExitNow, LogExit, DiskGone, writeVars, Gulf, AInv, IdleGood
<1>9. /\ \A i \in 1 .. Len(p.wri) : p.wri[i].typ = "save" /\ p.wri[i].eve = p.eve /\ i = 1
      /\ \A i \in 1 .. Len(pir'.wri) : i \in 1 .. Len(p.wri) \/ i = Len(p.wri) + 1
      /\ Len(p.wri) + 1 \in 1 .. Len(pir'.wri)
  <2>1. CASE p.wri = <<>>
    <3>1. Len(p.wri) = 0
      BY <2>1
    <3>2. QED
      BY <1>7, <3>1
  <2>2. CASE Len(p.wri) = 1 /\ p.wri[1].typ = "save" /\ p.wri[1].eve = p.eve
    <3>1. \A i \in 1 .. 1 : i = 1
      OBVIOUS
    <3>2. QED
      BY <1>7, <2>2, <3>1
  <2>3. QED
    BY <2>1, <2>2
<1>10. AnswersGood(pir, out)'
  <2>1. \A i \in 1 .. Len(out') : pir'.wri[i] = p.wri[i]
    <3>1. \A i \in 1 .. Len(out') : i \in 1 .. Len(p.wri)
      BY <1>6 DEF Answered
    <3>2. QED
      BY <1>7, <3>1
  <2>2. Counts(p.eve, Len(hst'), out', pir'.wri)
    BY <2>1, CountsGrow DEF Answered
  <2>3. QED
    BY <1>7, <2>1, <2>2 DEF AnswersGood, Answered
<1>11. OrdersGood(pir, pay)'
  <2>1. \A i \in 1 .. Len(pir'.wri) : Placed(pir', pay'.eve, pir'.wri[i], i)
    BY <1>2, <1>7, <1>9, SMTT(30) DEF Placed
  <2>2. QED
    BY <2>1 DEF OrdersGood
<1>12. BatchesGood(pir, pay, red)'
  BY <1>7 DEF BatchesGood
<1>13. Told(pir')
  BY <1>2, <1>7, <1>9 DEF Told
<1>14. LeavingGood(pir, out)'
  <2>1. \A i \in 1 .. Len(pir'.wri) : pir'.wri[i].typ \notin {"work", "play"}
    BY <1>2, <1>7, <1>9
  <2>2. \/ Len(chk) = Gulf
        \/ out' = <<>> /\ pir'.wri # <<>> /\ pir'.wri[1].typ = "save"
    <3>1. CASE Len(p.wri) = 1 /\ p.wri[1].typ = "save" /\ out' = <<>>
      <4>1. 1 \in 1 .. 1 /\ 1 + 1 # 0
        OBVIOUS
      <4>2. pir'.wri = <<>> => Len(pir'.wri) = 0
        OBVIOUS
      <4>3. QED
        BY <1>7, <3>1, <4>1, <4>2
    <3>2. QED
      BY <3>1
  <2>3. QED
    BY <1>7, <1>8, <2>1, <2>2 DEF LeavingGood
<1>15. WallsGood(pir)'
  <2>1. Len(<<>>) = 0 /\ \A i \in 1 .. 0 : FALSE
    OBVIOUS
  <2>2. QED
    BY <1>7, <1>13, <2>1 DEF WallsGood, ExitLast, Told
<1>16. KingRight'
  BY <1>10, <1>11, <1>12, <1>14, <1>15 DEF KingRight
<1>17. QED
  BY <1>7, <1>8, <1>16 DEF AInv, RipeGood, BootGood

(* A pier that was started only to be prepared. *)
LEMMA OnPreparedAInv == PInv /\ AInv /\ OnPrepared => AInv'
<1> SUFFICES ASSUME PInv, AInv, OnPrepared PROVE AInv'
  OBVIOUS
<1>1. pir.pep /\ out' = Tail(out) /\ UNCHANGED <<hst, chk>>
  BY DEF OnPrepared, Heard
<1>2. dun \in Nat /\ Gulf \in Nat /\ Len(hst) \in Nat
  BY KingFacts
<1>3. CASE /\ Hears({"ripe"}) /\ out[1].eve >= dun
           /\ ExitNow([pir EXCEPT !.liv = TRUE, !.eve = out[1].eve], pir.wri)
  <2>1. PICK p : p = [pir EXCEPT !.liv = TRUE, !.eve = out[1].eve]
    OBVIOUS
  <2>2. /\ p \in Piers /\ pir.sat \in {"boot", "init"}
        /\ p.wri = <<>> /\ p.liv = TRUE /\ p.wok = FALSE /\ p.wal = <<>>
        /\ p.eve = Len(hst) /\ hst = chk /\ Answered(p)
        /\ pir.sat = "init" => sen = dun /\ dun = Gulf
    BY <1>1, <1>3, <2>1, RipeNow
  <2>3. pir.sat = "init"
    BY <1>1, <2>2 DEF AInv, BootGood
  <2>4. p.eve = out[1].eve
    BY <1>3, <2>1, RipeIs
  <2>5. Len(chk) <= Gulf
    BY DEF PInv, WorkerGood, SnapshotInLog
  <2>6. p.eve = Gulf /\ Len(chk) = Gulf
    BY <1>2, <1>3, <2>2, <2>3, <2>4, <2>5
  <2>7. ExitNow(p, pir.wri)
    BY <1>3, <2>1
  <2>8. QED
    BY <1>1, <2>2, <2>3, <2>6, <2>7, ExitNowAInv
<1>4. CASE /\ Hears({"played"}) /\ Replayed.eve = dun
           /\ ExitNow(LordLive(Replayed, "save"), Replayed.wri)
  <2>1. PICK p : p = Replayed
    OBVIOUS
  <2>2. /\ p \in Piers /\ pir.sat = "play" /\ PlayOn(p, pay, red)
        /\ pay \in Plays /\ red \in Seq(Reads) /\ pay.eve <= dun /\ sen = dun
    BY <1>1, <1>4, <2>1, ReplayedOn
  <2>3. p.eve = pay.eve
    <3>1. /\ pay.eve \in Nat /\ pay.sen \in Nat /\ Len(pay.que) \in Nat
          /\ p.eve = dun /\ p.eve <= pay.sen /\ pay.sen + Len(pay.que) <= pay.eve
      BY <1>4, <2>1, <2>2, PlayFields DEF PlayOn, QueGood
    <3>2. QED
      BY <1>2, <2>2, <3>1
  <2>4. p.wri = <<>>
    BY <2>2, <2>3, TargetReached
  <2>5. liv /\ dun = Gulf
    <3>1. liv
      BY <2>2, PlayNow
    <3>2. QED
      BY <2>2, <3>1, AllWritten DEF AInv
  <2>6. /\ p.liv = TRUE /\ p.wok = FALSE /\ p.wal = <<>> /\ Answered(p) /\ p.eve = Gulf
        /\ p.eve \in Nat
    BY <1>2, <1>4, <2>1, <2>2, <2>5 DEF PlayOn
  <2>7. PICK s \in Writs : s = Writ("save", p.eve, <<>>) /\ s.typ = "save" /\ s.eve = p.eve
    BY <2>6, WritIs DEF WritType
  <2>8. PICK q : q = LordPlan(p, s) /\ ExitNow(q, Replayed.wri)
    BY <1>4, <2>1, <2>4, <2>7 DEF LordLive
  <2>9. /\ q \in Piers /\ Alike(p, q) /\ q.wok = p.wok /\ q.wal = p.wal
        /\ Len(q.wri) = Len(p.wri) + 1 /\ q.wri[Len(p.wri) + 1] = s
    <3>1. p \in Piers /\ s \in Writs /\ q = LordPlan(p, s)
      BY <2>2, <2>8
    <3>2. QED
      BY <3>1, LordPlanIs
  <2>10. Len(p.wri) = 0
    BY <2>4
  <2>11. Len(q.wri) = 1 /\ q.wri[1] = s
    BY <2>9, <2>10
  <2>12. out' = <<>>
    <3>1. Len(out') \in Nat /\ Len(out') <= 0
      BY <2>6, <2>10 DEF Answered
    <3>2. Len(out') = 0
      BY <3>1
    <3>3. out \in Seq(Pleas) /\ out # <<>>
      BY <1>4, HearsIs, KingFacts
    <3>4. PICK m \in Nat : Len(Tail(out)) = m /\ (m = 0 <=> Tail(out) = <<>>)
      BY <3>3, TailIs
    <3>5. QED
      BY <1>1, <3>2, <3>4
  <2>13. Answered(q)
    <3>1. Len(<<>>) = 0 /\ 0 <= 1 /\ \A i \in 1 .. 0 : q.wri[i] = p.wri[i]
      OBVIOUS
    <3>2. Counts(p.eve, Len(hst'), <<>>, p.wri)
      BY <2>6, <2>12 DEF Answered
    <3>3. Counts(p.eve, Len(hst'), <<>>, q.wri)
      BY <3>1, <3>2, CountsGrow
    <3>4. QED
      BY <2>9, <2>11, <2>12, <3>1, <3>3 DEF Answered, Alike
  <2>14. q.liv = TRUE /\ q.wok = FALSE /\ q.wal = <<>> /\ q.eve = Gulf /\ q.eve = p.eve
    BY <2>6, <2>9 DEF Alike
  <2>15. QED
    BY <1>1, <2>2, <2>7, <2>8, <2>9, <2>11, <2>12, <2>13, <2>14, ExitNowAInv, ZenonT(60)
<1>5. QED
  BY <1>3, <1>4 DEF OnPrepared

-----------------------------------------------------------------------------
(* Version negotiation ends *)

(* _pier_on_lord_wyrd_done(). *)
LEMMA OnWyrdDoneAInv == PInv /\ AInv /\ OnWyrdDone => AInv'
<1> SUFFICES ASSUME PInv, AInv, OnWyrdDone PROVE AInv'
  OBVIOUS
<1>1. /\ Hears({"done", "swap"}) /\ pir.sat = "wyrd" /\ DiskPlan(PleaFact)
      /\ out' = Tail(out) /\ UNCHANGED <<hst, chk, red>>
  BY SMTT(30) DEF OnWyrdDone, Heard
<1>2. PICK n \in 0 .. MaxOva - env.ova :
        LET p == [LordPopWork(pir) EXCEPT !.eve = out[1].eve, !.sat = "work",
                                          !.wok = TRUE, !.rel = dun,
                                          !.ova = Ova(n)]
        IN  \E q \in {WorkSend(p)} : pir' = [q EXCEPT !.gif = Append(@, PleaFact)]
  BY DEF OnWyrdDone
<1>3. PICK c : c = LordPopWork(pir)
  OBVIOUS
<1>4. PICK p : p = [c EXCEPT !.eve = out[1].eve, !.sat = "work", !.wok = TRUE,
                            !.rel = dun, !.ova = Ova(n)]
  OBVIOUS
<1>5. PICK q : q = WorkSend(p)
  OBVIOUS
<1>6. PICK h : h = Append(q.gif, PleaFact) /\ pir' = [q EXCEPT !.gif = h]
  BY <1>2, <1>3, <1>4, <1>5
<1>7. /\ out[1].eve = sen + 1 /\ sen' = sen + 1 /\ UNCHANGED <<db, dun>>
      /\ pir.wri # <<>> /\ pir.liv /\ pir.wri[1].typ = "work" /\ out # <<>>
  BY <1>1, PlanFact
<1>8. pir.eve = sen /\ sen = dun /\ ~pir.wok /\ red = <<>>
  BY <1>1 DEF PInv, KingGood
<1>9. /\ pir \in Piers /\ env \in Envs /\ sen \in Nat /\ dun \in Nat
      /\ pir.wri \in Seq(Writs) /\ Gulf \in Nat /\ dun <= Gulf
  BY KingFacts DEF PInv, TypeOK
<1>10. PICK o \in Seq(Job) : o = Ova(n) /\ \A i \in 1 .. Len(o) : o[i] \in Ovum
  BY <1>9, OvaIs
<1>11. /\ c \in Piers /\ Alike(pir, c) /\ c.wri = Tail(pir.wri) /\ c.wal = pir.wal
  BY <1>3, <1>7, <1>9, LordPopIs
<1>12. PICK e \in Nat : e = sen + 1 /\ e = out[1].eve
  <2>1. sen + 1 \in Nat
    BY <1>9
  <2>2. QED
    BY <1>7, <2>1
<1>13. PICK d \in Nat : d = dun
  BY <1>9
<1>14. /\ p \in Piers /\ p.eve = e /\ p.sat = "work" /\ p.wok = TRUE /\ p.ova = o
       /\ p.wri = c.wri /\ p.wal = c.wal /\ p.liv = c.liv /\ p.pin = c.pin
  <2>1. p = [c EXCEPT !.eve = e, !.sat = "work", !.wok = TRUE, !.rel = d, !.ova = o]
    BY <1>4, <1>10, <1>12, <1>13
  <2>2. "work" \in States
    BY DEF States
  <2>3. QED
    BY <1>11, <2>1, <2>2 DEF Piers
<1>15. /\ q \in Piers /\ Alike(p, q) /\ q.wok = p.wok /\ q.wal = p.wal
       /\ Len(p.wri) <= Len(q.wri) /\ \A i \in 1 .. Len(p.wri) : q.wri[i] = p.wri[i]
  <2>1. p \in Piers /\ p.sat = "work" /\ q = WorkSend(p)
    BY <1>5, <1>14
  <2>2. \A i \in 1 .. Len(p.ova) : p.ova[i] \in Ovum
    BY <1>10, <1>14
  <2>3. q \in Piers /\ Alike(p, q) /\ q.wok = p.wok /\ q.wal = p.wal
    BY <1>13, <2>1, <2>2, WorkSendIs
  <2>4. Grows(p, d, p.wri, q.wri)
    BY <1>13, <2>1, <2>2, WorkSendIs
  <2>5. QED
    BY <2>3, <2>4 DEF Grows
<1>16. (p.pin => q.pin) /\ NewWork(q, Len(p.wri) + 1, Len(q.wri))
  BY <1>5, <1>14, WorkSendPins, SMTT(30)
<1>17. /\ pir'.sat = "work" /\ pir'.liv = pir.liv /\ pir'.eve = p.eve /\ pir'.wok = TRUE
       /\ pir'.wri = q.wri /\ pir'.wal = pir.wal /\ pir'.pin = q.pin
  <2>1. /\ pir'.sat = q.sat /\ pir'.liv = q.liv /\ pir'.eve = q.eve /\ pir'.wok = q.wok
        /\ pir'.wri = q.wri /\ pir'.wal = q.wal /\ pir'.pin = q.pin
    BY <1>6, <1>15 DEF Piers
  <2>2. QED
    BY <1>11, <1>14, <1>15, <2>1 DEF Alike
<1>18. Len(p.wri) \in Nat /\ Len(q.wri) \in Nat
  BY <1>14, <1>15, PierFields
<1>19. \A i \in 1 .. Len(q.wri) : i \in 1 .. Len(p.wri) \/ i \in Len(p.wri) + 1 .. Len(q.wri)
  BY <1>18
<1>20. out[1].typ \in {"done", "swap"}
  BY <1>1, HearsIs
<1>21. Kept(p)
  <2>1. ASSUME NEW b \in Nat, Counted(out[1], pir.wri[1], pir.eve, b) PROVE p.eve = b
    BY <1>12, <1>14, <1>20, <2>1 DEF Counted
  <2>2. QED
    BY <1>1, <1>7, <1>11, <1>14, <2>1 DEF Kept
<1>22. AnswersGood(pir, out)'
  <2>1. /\ \A i \in 1 .. Len(out') : Answering(out'[i], q.wri[i])
        /\ Counts(p.eve, Len(hst), out', q.wri)
    <3>1. pir.sat # "down" /\ pir.liv /\ \A i \in 1 .. Len(p.wri) : q.wri[i] = p.wri[i]
      BY <1>1, <1>7, <1>15
    <3>2. QED
      BY <1>21, <3>1, AnswersKept, SMTT(30)
  <2>2. QED
    BY <1>1, <1>17, <2>1 DEF AnswersGood
<1>23. OrdersGood(pir, pay)'
  <2>1. \A i \in 1 .. Len(p.wri) : p.wri[i].typ = "work" => pir'.pin
    <3>1. \A i \in 1 .. Len(Tail(pir.wri)) : Tail(pir.wri)[i].typ = "work" => c.pin
      BY <1>3, <1>7, PopPins
    <3>2. QED
      BY <1>11, <1>14, <1>16, <1>17, <3>1
  <2>2. \A i \in 1 .. Len(p.wri) : Placed(pir', pay'.eve, p.wri[i], i)
    BY <1>1, <1>17, <1>21, <2>1, OldPlaced
  <2>3. \A i \in Len(p.wri) + 1 .. Len(q.wri) : Placed(pir', pay'.eve, q.wri[i], i)
    BY <1>16, <1>17 DEF NewWork, Placed
  <2>4. \A i \in 1 .. Len(q.wri) : Placed(pir', pay'.eve, q.wri[i], i)
    BY <1>15, <1>19, <2>2, <2>3
  <2>5. QED
    BY <1>17, <2>4 DEF OrdersGood
<1>24. BatchesGood(pir, pay, red)'
  BY <1>17 DEF BatchesGood
<1>25. pir.wal = <<>>
  BY <1>8 DEF AInv, KingRight, WallsGood
<1>26. ~Told(pir')
  <2>1. ~Told(p)
    BY <1>1, <1>21, ToldKept, NotLeaving
  <2>2. \A i \in 1 .. Len(p.wri) : q.wri[i].typ # "exit"
    BY <1>15, <2>1 DEF Told
  <2>3. \A i \in Len(p.wri) + 1 .. Len(q.wri) : q.wri[i].typ # "exit"
    BY <1>16 DEF NewWork
  <2>4. QED
    BY <1>17, <1>19, <2>2, <2>3 DEF Told
<1>27. LeavingGood(pir, out)' /\ WallsGood(pir)'
  <2>1. Len(<<>>) = 0 /\ \A i \in 1 .. 0 : FALSE
    OBVIOUS
  <2>2. QED
    BY <1>17, <1>25, <1>26, <2>1 DEF LeavingGood, Leaving, Told, WallsGood, ExitLast
<1>28. KingRight'
  BY <1>22, <1>23, <1>24, <1>27 DEF KingRight
<1>29. BootGood'
  <2>1. 0 < pir.eve
    <3>1. /\ out \in Seq(Pleas) /\ Len(out) \in Nat /\ Len(out) # 0
      BY <1>7, KingFacts
    <3>2. Counts(pir.eve, Len(hst), out, pir.wri)
      BY <1>1, <1>7 DEF AInv, KingRight, AnswersGood
    <3>3. PICK b \in Nat : Counted(out[1], pir.wri[1], pir.eve, b)
      BY <3>1, <3>2, FirstCount
    <3>4. QED
      BY <1>20, <3>3 DEF Counted
  <2>2. Gulf # 0 /\ Gulf' = Gulf
    BY <1>7, <1>8, <1>9, <2>1 DEF Gulf
  <2>3. QED
    BY <1>17, <2>2 DEF AInv, BootGood
<1>30. IdleGood'
  <2>1. req' = Commit(req, put', sen', dun)
    BY <1>1 DEF DiskPlan
  <2>2. QED
    BY <2>1, CommitIdle DEF AInv, IdleGood
<1>31. QED
  BY <1>7, <1>17, <1>28, <1>29, <1>30 DEF AInv, RipeGood

-----------------------------------------------------------------------------
(* The results *)

(* The king ends in any way. *)
LEMMA EndsAInv ==
  AInv /\ (OnGiveUp \/ OnCram \/ OnAbort \/ OnWriteLate \/ OnWriteBail \/ OnLost \/ KingDies)
    => AInv'
<1> SUFFICES ASSUME AInv, OnGiveUp \/ OnCram \/ OnAbort \/ OnWriteLate \/ OnWriteBail
                            \/ OnLost \/ KingDies
             PROVE  AInv'
  OBVIOUS
<1>1. DiskGone /\ pir' = Down
  BY DEF OnGiveUp, OnCram, OnAbort, OnWriteLate, OnWriteBail, OnLost, OnSerfExit,
         OnSerfBail, KingDies, PierBail, KingGone, Over
<1>2. QED
  BY <1>1, EndAInv

(* Every step keeps the invariant. *)
LEMMA NextAInv ==
  ASSUME Exits \subseteq {"work"}, PInv, AInv, [Next]_vars
  PROVE  AInv'
<1>1. PInv'
  BY NextPInv
<1>2. CASE Next
  <2>1. CASE StartBoot \/ Stay
    BY <2>1, StartsAInv
  <2>2. CASE KingDies \/ OnLost \/ OnGiveUp \/ OnCram \/ OnAbort \/ OnWriteLate \/ OnWriteBail
    BY <2>2, EndsAInv
  <2>3. CASE SerfDies \/ SerfExit \/ BootMeta
    BY <2>3, QuietAInv
  <2>4. CASE Serf
    BY <1>1, <2>4, SerfAInv
  <2>5. CASE WriteThread
    BY <1>1, <2>5, WriteThreadAInv
  <2>6. CASE Request
    BY <2>6, PlansAInv, SaveTimerAInv, ExitRequestAInv DEF Request
  <2>7. CASE OnRipe \/ OnPlayDone \/ OnPrepared \/ OnWyrdDone
    BY <2>7, OnRipeAInv, OnPlayDoneAInv, OnPreparedAInv, OnWyrdDoneAInv
  <2>8. CASE OnWorkDone \/ OnWorkBail \/ OnAnswer \/ OnLoop
    BY <2>8, OnWorkDoneAInv, OnWorkBailAInv, OnAnswerAInv, OnLoopAInv
  <2>9. CASE OnWriteDone \/ OnReadDone \/ ReadLog \/ BootPlan
    BY <2>9, OnWriteDoneAInv, OnReadDoneAInv, ReadLogAInv, BootPlanAInv
  <2>10. QED
    BY <1>2, <2>1, <2>2, <2>3, <2>4, <2>5, <2>6, <2>7, <2>8, <2>9
       DEF Next, King, Boots, OnPlea, OnDisk
<1>3. CASE UNCHANGED vars
  BY <1>3, QuietAInv
<1>4. QED
  BY <1>2, <1>3

(* The invariant of a pier that is asked to stop only once it works. *)
THEOREM AssertInvariance ==
  ASSUME Exits \subseteq {"work"}
  PROVE  Spec => [](PInv /\ AInv)
<1>1. Init => PInv /\ AInv
  BY InitPInv, InitAInv
<1>2. PInv /\ AInv /\ [Next]_vars => (PInv /\ AInv)'
  BY NextPInv, NextAInv
<1>3. QED
  BY <1>1, <1>2, PTL DEF Spec

(* No assertion of king, log or worker fails: _lord_writ_need() always     *)
(* meets the writ its plea answers, u3_disk_plan() the next event,         *)
(* _pier_on_disk_write_done() and _pier_play_plan() a state that can take  *)
(* them, u3_serf_play() and _serf_writ_live_save() the event number they   *)
(* expect, however pleas, writes, reads and requests interleave.           *)
THEOREM AssertsHoldAlways ==
  ASSUME Exits \subseteq {"work"}
  PROVE  Spec => []AssertsHold
<1>1. PInv /\ AInv => AssertsHold
  BY PleasRight, CallbacksRight, WritsRight DEF AssertsHold
<1>2. QED
  BY <1>1, AssertInvariance, PTL

(* A graceful exit loses nothing: when _pier_exit() has told the worker to *)
(* stop, the snapshot holds every event of the log, and the barrier that   *)
(* closes the log never runs inside the completion of a write.             *)
THEOREM ExitSavedAlways ==
  ASSUME Exits \subseteq {"work"}
  PROVE  Spec => []ExitSaved
<1>1. PInv /\ AInv => ExitSaved
  BY ExitRight
<1>2. QED
  BY <1>1, AssertInvariance, PTL

(* Once %exit is at the head of the queue, nothing is under way. *)
LEMMA ExitQuiet ==
  ASSUME PInv, AInv, ExitSent
  PROVE  /\ pir.sat = "done" /\ pir.liv /\ req = Idle /\ red = <<>> /\ out = <<>>
         /\ \E i \in 1 .. Len(pir.wri) : pir.wri[i].typ = "exit"
<1>1. pir.sat = "done" /\ pir.wri # <<>> /\ pir.wri[1].typ = "exit"
  BY DEF ExitSent
<1>2. /\ pir.wri \in Seq(Writs) /\ Len(pir.wri) \in Nat /\ out \in Seq(Pleas)
      /\ Len(out) \in Nat
  BY KingFacts, SMTT(30)
<1>3. 1 \in 1 .. Len(pir.wri)
  BY <1>1, <1>2
<1>4. Told(pir) /\ Leaving(pir)
  BY <1>1, <1>3 DEF Told, Leaving
<1>5. sen = dun
  BY <1>4 DEF AInv, KingRight, LeavingGood
<1>6. req = Idle
  BY <1>5, AllWritten DEF AInv
<1>7. pir.liv
  BY <1>1 DEF AInv, KingRight, WallsGood
<1>8. red = <<>>
  BY <1>1 DEF PInv, KingGood
<1>9. out = <<>>
  <2>1. SUFFICES ASSUME out # <<>> PROVE FALSE
    OBVIOUS
  <2>2. 1 \in 1 .. Len(out) /\ out[1] \in Pleas
    BY <1>2, <2>1
  <2>3. out[1].typ \in PleaType
    BY <2>2 DEF Pleas
  <2>4. PleaFits(out[1], pir.wri[1])
    BY <1>1, <1>7, <2>2 DEF PInv, Pipes
  <2>5. Answering(out[1], pir.wri[1])
    BY <1>1, <1>7, <2>2 DEF AInv, KingRight, AnswersGood
  <2>6. out[1].typ # "ripe"
    BY <2>4 DEF PleaFits
  <2>7. QED
    BY <1>1, <2>3, <2>5, <2>6 DEF Answering, PleaType
<1>10. QED
  BY <1>1, <1>3, <1>6, <1>7, <1>8, <1>9

(* A turn of the loop does not end the king. *)
LEMMA LoopGoesOn ==
  ASSUME PInv, OnLoop
  PROVE  pir'.sat = pir.sat
<1>1. pir.wok /\ Work(pir, dun)
  BY DEF OnLoop
<1>2. pir \in Piers
  BY DEF PInv, TypeOK
<1>3. /\ pir.eve = sen /\ pir.rel <= dun /\ dun <= sen
      /\ Len(pir.gif) = pir.eve - pir.rel
      /\ \A i \in 1 .. Len(pir.gif) : pir.gif[i].eve = pir.rel + i
  BY <1>1, WorkFacts
<1>4. /\ sen \in Nat /\ dun \in Nat /\ pir.rel \in Nat /\ Len(pir.gif) \in Nat
  BY KingFacts
<1>5. PICK n \in 0 .. Len(pir.gif) : dun = pir.rel + n
  <2>1. dun - pir.rel \in 0 .. Len(pir.gif) /\ dun = pir.rel + (dun - pir.rel)
    BY <1>3, <1>4
  <2>2. QED
    BY <2>1
<1>6. Gap(pir.gif, pir.rel)
  BY <1>3 DEF Gap
<1>7. /\ \A i \in 1 .. Len(pir.ova) : pir.ova[i] \in Ovum
      /\ \A i \in 1 .. Len(pir.wal) : pir.wal[i] = "exit" => pir.sat = "done"
  BY DEF PInv, QueuesGood
<1>8. Alike(pir, pir')
  BY <1>1, <1>2, <1>5, <1>6, <1>7, WorkIs
<1>9. QED
  BY <1>8 DEF Alike

(* A step that ends a king whose worker has been told to stop is the end   *)
(* of the worker, or the death of the king.                                *)
LEMMA ExitEndsOk ==
  ASSUME Exits \subseteq {"work"}, PInv, AInv, [Next]_vars, ExitSent, pir'.sat = "down"
  PROVE  env'.xit \in {"ok", "dead"}
<1>1. /\ pir.sat = "done" /\ pir.liv /\ req = Idle /\ red = <<>> /\ out = <<>>
      /\ \E i \in 1 .. Len(pir.wri) : pir.wri[i].typ = "exit"
  BY ExitQuiet
<1>2. pir \in Piers /\ env \in Envs
  BY DEF PInv, TypeOK
<1>3. pir'.sat # pir.sat /\ pir' # pir
  BY <1>1
<1>4. Next
  BY <1>3 DEF vars, pierVars
<1>5. ~OnPlea
  BY <1>1 DEF OnPlea, OnRipe, OnPlayDone, OnPrepared, OnGiveUp, OnWyrdDone, OnWorkDone,
              OnWorkBail, OnAnswer, OnCram, OnAbort, Hears, Heeds
<1>6. ~OnDisk
  <2>1. req.sat = "idle"
    BY <1>1 DEF Idle
  <2>2. ~OnWriteDone
    BY <2>1 DEF OnWriteDone, DiskCommitDone
  <2>3. ~OnWriteLate /\ ~OnWriteBail
    BY <2>1 DEF OnWriteLate, OnWriteBail
  <2>4. ~OnReadDone
    BY <1>1 DEF OnReadDone, Delivered
  <2>5. QED
    BY <2>2, <2>3, <2>4 DEF OnDisk
<1>7. ~StartBoot /\ ~Stay
  BY <1>1 DEF StartBoot, Stay
<1>8. ~SerfDies /\ ~WriteThread /\ ~ReadLog /\ ~Boots
  BY <1>3 DEF SerfDies, WriteThread, ReadLog, Boots, BootMeta, BootPlan, pierVars
<1>9. ~Serf
  BY <1>3 DEF Serf, SerfWork, SerfPlay, SerfSave, SerfPeek, SerfExit, Answers
<1>10. ~OnLoop
  BY <1>3, LoopGoesOn
<1>11. ~Request
  <2>1. ~PlanOvum /\ ~PlanPeek /\ ~SaveTimer
    BY <1>2, <1>3 DEF PlanOvum, PlanPeek, SaveTimer, Piers
  <2>2. ~PlanPack
    BY <1>2, <1>3 DEF PlanPack, LordPlan, Piers
  <2>3. ~ExitRequest
    BY <1>1 DEF ExitRequest
  <2>4. QED
    BY <2>1, <2>2, <2>3 DEF Request
<1>12. KingDies \/ OnLost
  BY <1>4, <1>5, <1>6, <1>7, <1>8, <1>9, <1>10, <1>11 DEF Next, King
<1>13. CASE KingDies
  <2>1. env' = [env EXCEPT !.xit = "dead", !.die = env.die + 1]
    BY <1>13 DEF KingDies, KingGone
  <2>2. QED
    BY <1>2, <2>1 DEF Envs
<1>14. CASE OnLost
  <2>1. ~OnSerfBail
    BY <1>1 DEF OnSerfBail
  <2>2. OnSerfExit
    BY <1>14, <2>1 DEF OnLost
  <2>3. Over
    BY <1>1, <2>2 DEF OnSerfExit, ExitSent
  <2>4. env' = [env EXCEPT !.xit = "ok"]
    BY <2>3 DEF Over
  <2>5. QED
    BY <1>2, <2>4 DEF Envs
<1>15. QED
  BY <1>12, <1>13, <1>14

(* A graceful shutdown is not mistaken for an error: once %exit is the     *)
(* only thing the worker has left to do, the king ends in _pier_done(),    *)
(* whether SIGCHLD or the end of the pipe comes first, unless it is        *)
(* killed.                                                                 *)
THEOREM ExitIsOkAlways ==
  ASSUME Exits \subseteq {"work"}
  PROVE  Spec => ExitIsOk
<1>1. PInv /\ AInv /\ [Next]_vars
        => [(ExitSent /\ pir'.sat = "down") => env'.xit \in {"ok", "dead"}]_vars
  BY ExitEndsOk
<1>2. QED
  BY <1>1, AssertInvariance, PTL DEF Spec, ExitIsOk
=============================================================================
