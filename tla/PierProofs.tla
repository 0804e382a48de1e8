----------------------------- MODULE PierProofs -----------------------------
(***************************************************************************)
(* The invariant of the king, that every callback keeps it, and the        *)
(* theorems that follow from it, for every set of constants: whatever the  *)
(* lengths of the boot sequence and of the batches, whenever either        *)
(* process dies and whenever a shutdown is requested.                      *)
(***************************************************************************)
EXTENDS Pier, DiskProofs

-----------------------------------------------------------------------------
(* The inductive invariant *)

Ovum == {"ovum"} \X (0 .. MaxOva)

(* A writ names what its handler needs: a %work an event of a driver, a    *)
(* %play the events the log holds under these numbers, a snapshot an event *)
(* of the log.                                                             *)
WritGood(w) ==
  /\ w.typ = "work" => \E o \in Ovum : w.job = <<o>>
  /\ w.typ = "play" =>
       /\ 0 < w.eve
       /\ \A i \in 1 .. Len(w.job) :
            w.eve + i - 1 \in DOMAIN db /\ w.job[i] = db[w.eve + i - 1]
  /\ w.typ \in {"save", "cram"} => w.eve <= Gulf

(* A plea q answers writ w, and the worker has applied what it says.       *)
PleaFits(q, w) ==
  /\ q.typ # "ripe"
  /\ q.typ \in {"done", "swap"} => w.typ = "work" /\ q.eve \in 1 .. Len(hst)
  /\ q.typ = "done" => hst[q.eve] = w.job[1]
  /\ q.typ = "swap" => Len(q.job) = 1 /\ hst[q.eve] = q.job[1]
  /\ q.typ = "played" =>
       w.typ = "play" /\ w.eve + Len(w.job) - 1 <= Len(hst)

(* The pleas of the pipe answer the oldest writs of the king's queue, and  *)
(* the pipe to a living worker holds the others; before its %ripe the      *)
(* worker can only have been told to stop.                                 *)
Pipes ==
  pir.sat # "down" =>
    /\ pir.liv =>
         /\ Len(out) <= Len(pir.wri)
         /\ \A i \in 1 .. Len(out) : PleaFits(out[i], pir.wri[i])
         /\ srf =>
              /\ Len(inn) = Len(pir.wri) - Len(out)
              /\ \A i \in 1 .. Len(inn) : inn[i] = pir.wri[Len(out) + i]
    /\ ~pir.liv =>
         /\ Len(out) = 1 /\ out[1].typ = "ripe" /\ out[1].eve <= Len(hst)
         /\ \A i \in 1 .. Len(pir.wri) : pir.wri[i].typ = "exit"
         /\ srf => inn = pir.wri

(* What each state of the king implies for its log and its queues. *)
KingGood ==
  /\ pir.sat = "down" => pir = Down /\ ~liv
  /\ pir.sat \notin {"down", "done"} => liv
  /\ pir.sat \notin {"down", "boot"} => meta = Len(MetaKeys)
  /\ pir.wok => liv /\ pir.sat \in {"work", "done"}
  /\ pir.sat = "work" => pir.wok
  /\ (pir.sat \in {"play", "wyrd"} \/ pir.wok) => pir.liv
  /\ pir.liv => pir.eve <= Len(hst)
  /\ (pir.sat = "wyrd" \/ pir.wok) => pir.eve = sen
  /\ pir.sat \in {"init", "play", "wyrd"} => sen = dun
  /\ pir.sat \in {"init", "boot"} => pir.wri = <<>>
  /\ pir.sat = "boot" =>
       sen = dun \/ (dun = 0 /\ req.sat # "idle" /\ Len(req.job) = sen)
  /\ pir.sat = "boot" => hst = <<>>
  /\ ~pir.wok => pir.gif = <<>>
  /\ red # <<>> => pir.sat = "play"

(* The king's queues. *)
QueuesGood ==
  /\ \A i \in 1 .. Len(pir.wri) :
       /\ WritGood(pir.wri[i])
       /\ pir.wri[i].typ = "work" => pir.sat = "wyrd" \/ pir.wok
  /\ \A i \in 1 .. Len(pir.ova) : pir.ova[i] \in Ovum
  /\ \A i \in 1 .. Len(pir.wal) : pir.wal[i] = "exit" => pir.sat = "done"

(* Replay: the queue continues what was sent, the one outstanding read     *)
(* continues the queue, and none of it goes past the target.               *)
PlayGood ==
  pir.sat = "play" =>
    /\ pay.eve <= dun
    /\ pir.eve <= pay.sen
    /\ pay.sen + Len(pay.que) <= pay.eve
    /\ \A i \in 1 .. Len(pay.que) :
         pay.que[i].eve = pay.sen + i /\ pay.que[i].job = db[pay.sen + i]
    /\ Len(red) <= 1
    /\ red # <<>> =>
         /\ red[1].eve = pay.sen + Len(pay.que) + 1
         /\ red[1].eve = pay.req
         /\ red[1].eve + red[1].len - 1 <= pay.eve
    /\ \A i \in 1 .. Len(pir.wri) :
         pir.wri[i].typ = "play" =>
           pir.wri[i].eve + Len(pir.wri[i].job) - 1 <= pay.sen

(* Effects: those of the events after the last one released wait in order, *)
(* and are those of the log.                                               *)
GiftsGood ==
  pir.wok =>
    /\ pir.rel <= dun
    /\ pir.eve = pir.rel + Len(pir.gif)
    /\ \A i \in 1 .. Len(pir.gif) :
         pir.gif[i].eve = pir.rel + i /\ pir.gif[i].job = Seen(pir.rel + i)
    /\ \A i \in 1 .. Len(fx) : fx[i].eve <= pir.rel

EffectsGood == EffectsDurable /\ EffectsOnce /\ GiftsGood

(* The worker agrees with the log as far as both go, and computes a new    *)
(* event only at the end of the log; also when the king is dead.           *)
WorkerGood ==
  /\ SnapshotInLog
  /\ \A e \in 1 .. Len(hst) : e <= Gulf => hst[e] = db[e]
  /\ liv => \A e \in 1 .. Len(hst) : e <= sen => hst[e] = Seen(e)
  /\ srf => \A i \in 1 .. Len(inn) :
       /\ WritGood(inn[i])
       /\ inn[i].typ = "work" =>
            Gulf <= Len(hst) /\ (liv => sen <= Len(hst))

(* A pier that was never started has an empty log. *)
NewGood == env.new => pir.sat = "down" /\ DOMAIN db = {}

LogGood == Core /\ Written /\ ReadsGood

PInv ==
  /\ TypeOK
  /\ LogGood
  /\ KingGood
  /\ QueuesGood
  /\ Pipes
  /\ PlayGood
  /\ EffectsGood
  /\ WorkerGood
  /\ NewGood

-----------------------------------------------------------------------------
(* Facts about the values *)

(* The king that is not running. *)
LEMMA DownIs ==
  /\ Down \in Piers
  /\ Down.sat = "down" /\ Down.liv = FALSE /\ Down.eve = 0 /\ Down.wok = FALSE
  /\ Down.wri = <<>> /\ Down.gif = <<>> /\ Down.wal = <<>> /\ Down.ova = <<>>
<1>1. <<>> \in Seq(Writs) /\ <<>> \in Seq(Fact) /\ <<>> \in Seq({"save", "exit"})
      /\ <<>> \in Seq(Job)
  OBVIOUS
<1>2. QED
  BY <1>1 DEF Down, Piers

(* No replay. *)
LEMMA NoPlayIs == NoPlay \in Plays
<1>1. <<>> \in Seq(Fact)
  OBVIOUS
<1>2. QED
  BY <1>1 DEF NoPlay, Plays

(* The empty pier satisfies the invariant. *)
LEMMA InitPInv == Init => PInv
<1>1. SUFFICES ASSUME Init PROVE PInv
  OBVIOUS
<1>2. Core
  BY <1>1, InitCore DEF Init
<1>3. DOMAIN db = {} /\ Gulf = 0
  BY <1>1 DEF Init, DiskStart, Gulf, LastKey
<1>4. /\ req = Idle /\ red = <<>> /\ put = <<>> /\ ~liv /\ pir = Down
      /\ pay = NoPlay /\ inn = <<>> /\ out = <<>> /\ srf = FALSE /\ hst = <<>>
      /\ chk = <<>> /\ fx = <<>> /\ env.new
  BY <1>1 DEF Init, DiskStart
<1>5. env \in Envs
  BY <1>1, PierAssumption DEF Init, Envs
<1>6. TypeOK
  <2>1. <<>> \in Seq(Writs) /\ <<>> \in Seq(Pleas) /\ <<>> \in Seq(Job)
        /\ <<>> \in Seq(Fact)
    OBVIOUS
  <2>2. QED
    BY <1>2, <1>4, <1>5, <2>1, DownIs, NoPlayIs DEF TypeOK, Core
<1>7. LogGood
  BY <1>2, <1>4 DEF LogGood, Written, ReadsGood, Idle
<1>8. KingGood /\ QueuesGood
  BY <1>4, DownIs DEF KingGood, QueuesGood
<1>9. Pipes /\ PlayGood /\ NewGood
  BY <1>3, <1>4, DownIs DEF Pipes, PlayGood, NewGood
<1>10. EffectsGood
  BY <1>4, DownIs DEF EffectsGood, EffectsDurable, EffectsOnce, GiftsGood
<1>11. WorkerGood
  BY <1>3, <1>4 DEF WorkerGood, SnapshotInLog
<1>12. QED
  BY <1>6, <1>7, <1>8, <1>9, <1>10, <1>11 DEF PInv

-----------------------------------------------------------------------------
(* The king ends *)

(* The end of the king in any way: what is left is the table, the          *)
(* snapshot, and perhaps a worker that goes on with the writs it has.      *)
LEMMA KingEnds ==
  ASSUME PInv, DiskGone, pir' = Down, pay' = NoPlay, out' = <<>>,
         inn' = inn \/ inn' = <<>>, srf' = srf \/ srf' = FALSE,
         UNCHANGED <<hst, chk, fx>>, env' \in Envs, env'.new = env.new
  PROVE  PInv'
<1>1. /\ TypeOK /\ LogGood /\ KingGood /\ QueuesGood /\ EffectsGood
      /\ WorkerGood /\ NewGood
  BY DEF PInv
<1>2. Core'
  BY <1>1, GoneCore DEF LogGood
<1>3. /\ liv' = FALSE /\ put' = <<>> /\ req' = Idle /\ red' = <<>>
      /\ UNCHANGED <<db, meta, sen, dun>> /\ Gulf' = Gulf
  BY DEF DiskGone, Gulf
<1>4. TypeOK'
  <2>1. <<>> \in Seq(Writs) /\ <<>> \in Seq(Pleas)
    OBVIOUS
  <2>2. QED
    BY <1>1, <1>2, <2>1, DownIs, NoPlayIs DEF TypeOK, Core
<1>5. LogGood'
  BY <1>2, <1>3 DEF LogGood, Written, ReadsGood, Idle
<1>6. (KingGood /\ QueuesGood)'
  BY <1>3, DownIs DEF KingGood, QueuesGood
<1>7. (Pipes /\ PlayGood)'
  BY DownIs DEF Pipes, PlayGood
<1>8. NewGood'
  BY <1>1, <1>3, DownIs DEF NewGood
<1>9. EffectsGood'
  BY <1>1, <1>3, DownIs DEF EffectsGood, EffectsDurable, EffectsOnce, GiftsGood
<1>10. WorkerGood'
  BY <1>1, <1>3 DEF WorkerGood, SnapshotInLog, WritGood
<1>11. QED
  BY <1>4, <1>5, <1>6, <1>7, <1>8, <1>9, <1>10 DEF PInv

(* u3_pier_bail(). *)
LEMMA BailInv == PInv /\ PierBail => PInv'
<1>1. SUFFICES ASSUME PInv, PierBail PROVE PInv'
  OBVIOUS
<1>2. env' \in Envs /\ env'.new = env.new
  BY <1>1 DEF PierBail, PInv, TypeOK, Envs
<1>3. QED
  BY <1>1, <1>2, KingEnds DEF PierBail

(* A crash of the king, or a failed assertion. *)
LEMMA KingGoneInv ==
  ASSUME PInv, NEW x \in {"dead", "abort"}, KingGone(x),
         x = "dead" => env.die < MaxDie
  PROVE  PInv'
<1>1. env' \in Envs /\ env'.new = env.new
  <2>1. env \in Envs /\ MaxDie \in Nat
    BY PierAssumption DEF PInv, TypeOK
  <2> DEFINE n == IF x = "dead" THEN env.die + 1 ELSE env.die
  <2>2. n \in 0 .. MaxDie
    BY <2>1 DEF Envs
  <2>3. env' = [env EXCEPT !.xit = x, !.die = n]
    BY DEF KingGone
  <2> HIDE DEF n
  <2>4. QED
    BY <2>1, <2>2, <2>3 DEF Envs
<1>2. QED
  BY <1>1, KingEnds DEF KingGone

(* _pier_done(). *)
LEMMA OverInv == PInv /\ Over => PInv'
<1>1. SUFFICES ASSUME PInv, Over PROVE PInv'
  OBVIOUS
<1>2. env' \in Envs /\ env'.new = env.new
  BY <1>1 DEF Over, PInv, TypeOK, Envs
<1>3. QED
  BY <1>1, <1>2, KingEnds DEF Over

-----------------------------------------------------------------------------
(* The king and the worker start *)

(* A king that starts finds the log as it was left, and a worker that has  *)
(* loaded the snapshot.                                                    *)
LEMMA KingStarts ==
  ASSUME PInv, DiskOpen, Spawn, NEW s \in {"boot", "init"},
         pir' \in Piers, pir'.sat = s, pir'.liv = FALSE, pir'.wok = FALSE,
         pir'.wri = <<>>, pir'.gif = <<>>, pir'.wal = <<>>, pir'.ova = <<>>,
         s = "boot" => DOMAIN db = {}, s = "init" => meta = Len(MetaKeys),
         UNCHANGED <<pay, chk, fx>>, env' \in Envs, env'.new = FALSE
  PROVE  PInv'
<1>1. TypeOK /\ LogGood /\ EffectsGood /\ WorkerGood
  BY DEF PInv
<1>2. Core'
  BY <1>1, OpenCore DEF LogGood
<1>3. /\ liv' = TRUE /\ put' = <<>> /\ req' = Idle /\ red' = <<>>
      /\ UNCHANGED <<db, meta>> /\ dun' = Gulf /\ sen' = Gulf /\ Gulf' = Gulf
      /\ Gulf \in Nat
  BY <1>1 DEF DiskOpen, Gulf, LogGood, Core, LogContiguous
<1>4. /\ srf' = TRUE /\ hst' = chk /\ inn' = <<>>
      /\ out' = <<Plea("ripe", Len(chk), <<>>)>>
  BY DEF Spawn
<1>5. Plea("ripe", Len(chk), <<>>) \in Pleas
  <2>1. <<>> \in Seq(Job) /\ Len(chk) \in Nat
    BY <1>1 DEF TypeOK
  <2>2. QED
    BY <2>1 DEF Plea, Pleas, PleaType
<1>6. Len(out') = 1 /\ out'[1].typ = "ripe" /\ out'[1].eve = Len(hst')
  BY <1>4 DEF Plea
<1>7. TypeOK'
  <2>1. <<>> \in Seq(Writs) /\ out' \in Seq(Pleas)
    BY <1>4, <1>5
  <2>2. QED
    BY <1>1, <1>2, <1>4, <2>1 DEF TypeOK, Core
<1>8. LogGood'
  BY <1>2, <1>3 DEF LogGood, Written, ReadsGood, Idle
<1>9. (KingGood /\ QueuesGood)'
  <2>1. s = "boot" => hst' = <<>>
    <3>1. s = "boot" => Gulf = 0
      BY DEF Gulf, LastKey
    <3>2. QED
      BY <1>1, <1>3, <1>4, <3>1 DEF WorkerGood, SnapshotInLog, TypeOK
  <2>2. QED
    BY <1>3, <2>1 DEF KingGood, QueuesGood
<1>10. (Pipes /\ PlayGood /\ NewGood)'
  <2>1. Len(hst') \in Nat
    BY <1>1, <1>4 DEF TypeOK
  <2>2. QED
    BY <1>4, <1>6, <2>1 DEF Pipes, PlayGood, NewGood
<1>11. EffectsGood'
  BY <1>1, <1>3 DEF EffectsGood, EffectsDurable, EffectsOnce, GiftsGood
<1>12. WorkerGood'
  <2>1. SnapshotInLog
    BY <1>1 DEF WorkerGood
  <2>2. \A e \in 1 .. Len(hst') : e <= Gulf => hst'[e] = db'[e]
    BY <1>3, <1>4, <2>1 DEF SnapshotInLog
  <2>3. \A e \in 1 .. Len(hst') : e <= sen' => hst'[e] = Seen(e)'
    BY <1>3, <1>4, <2>2 DEF Seen
  <2>4. QED
    BY <1>3, <1>4, <2>1, <2>2, <2>3 DEF WorkerGood, SnapshotInLog
<1>13. QED
  BY <1>7, <1>8, <1>9, <1>10, <1>11, <1>12 DEF PInv

(* u3_pier_boot(). *)
LEMMA StartBootInv == PInv /\ StartBoot => PInv'
<1>1. SUFFICES ASSUME PInv, StartBoot PROVE PInv'
  OBVIOUS
<1>2. env' \in Envs /\ env'.new = FALSE
  <2>1. env \in Envs /\ env.run < MaxRun /\ MaxRun \in Nat
        /\ env' = [env EXCEPT !.new = FALSE, !.xit = "none", !.run = env.run + 1]
    BY <1>1, PierAssumption DEF PInv, TypeOK, StartBoot
  <2>2. env.run + 1 \in 0 .. MaxRun
    BY <2>1 DEF Envs
  <2>3. QED
    BY <2>1, <2>2 DEF Envs
<1>3. DOMAIN db = {}
  BY <1>1 DEF PInv, NewGood, StartBoot
<1>4. /\ pir' \in Piers /\ pir'.sat = "boot" /\ pir'.liv = FALSE
      /\ pir'.wok = FALSE /\ pir'.wri = <<>> /\ pir'.gif = <<>>
      /\ pir'.wal = <<>> /\ pir'.ova = <<>>
  <2>1. "boot" \in States /\ pir' = [Down EXCEPT !.sat = "boot"]
    BY <1>1 DEF States, StartBoot
  <2>2. QED
    BY <2>1, DownIs DEF Piers
<1>5. QED
  BY <1>1, <1>2, <1>3, <1>4, KingStarts DEF StartBoot

(* u3_pier_stay(). *)
LEMMA StayInv == PInv /\ Stay => PInv'
<1>1. SUFFICES ASSUME PInv, Stay PROVE PInv'
  OBVIOUS
<1>2. env' \in Envs /\ env'.new = FALSE
  <2>1. env \in Envs /\ env.run < MaxRun /\ MaxRun \in Nat /\ ~env.new
        /\ env' = [env EXCEPT !.xit = "none", !.run = env.run + 1]
    BY <1>1, PierAssumption DEF PInv, TypeOK, Stay
  <2>2. env.run + 1 \in 0 .. MaxRun /\ env.new = FALSE
    BY <2>1 DEF Envs
  <2>3. QED
    BY <2>1, <2>2 DEF Envs
<1>3. /\ pir' \in Piers /\ pir'.sat = "init" /\ pir'.liv = FALSE
      /\ pir'.wok = FALSE /\ pir'.wri = <<>> /\ pir'.gif = <<>>
      /\ pir'.wal = <<>> /\ pir'.ova = <<>>
  <2>1. PICK b \in BOOLEAN : pir' = [Down EXCEPT !.sat = "init", !.pep = b]
    BY <1>1, PierAssumption DEF Stay
  <2>2. "init" \in States
    BY DEF States
  <2>3. QED
    BY <2>1, <2>2, DownIs DEF Piers
<1>4. QED
  BY <1>1, <1>2, <1>3, KingStarts DEF Stay

-----------------------------------------------------------------------------
(* The worker *)

(* The end of the worker. *)
LEMMA SerfEnds ==
  ASSUME PInv, UNCHANGED <<diskVars, pir, pay, out, hst, chk, fx>>,
         srf' = FALSE, inn' \in Seq(Writs), env' \in Envs, env'.new = env.new
  PROVE  PInv'
<1>1. UNCHANGED <<db, meta, liv, sen, dun, put, req, red>> /\ Gulf' = Gulf
  BY DEF diskVars, Gulf
<1>2. LogGood'
  <2>1. Core'
    BY <1>1, StutterCore DEF PInv, LogGood
  <2>2. QED
    BY <1>1, <2>1 DEF PInv, LogGood, Written, ReadsGood
<1>3. TypeOK'
  BY <1>2 DEF PInv, TypeOK, LogGood, Core
<1>4. (KingGood /\ QueuesGood)'
  BY <1>1 DEF PInv, KingGood, QueuesGood, WritGood
<1>5. Pipes'
  BY DEF PInv, Pipes, PleaFits
<1>6. (PlayGood /\ NewGood)'
  BY <1>1 DEF PInv, PlayGood, NewGood
<1>7. EffectsGood'
  BY <1>1 DEF PInv, EffectsGood, EffectsDurable, EffectsOnce, GiftsGood, Seen
<1>8. WorkerGood'
  BY <1>1 DEF PInv, WorkerGood, SnapshotInLog, Seen
<1>9. QED
  BY <1>2, <1>3, <1>4, <1>5, <1>6, <1>7, <1>8 DEF PInv

(* The worker handles the writ w at the head of its pipe, and answers q.   *)
(* What it applies is what the log holds, or comes after it.               *)
SerfStep(q, w) ==
  /\ srf /\ inn # <<>> /\ inn' = Tail(inn) /\ w = inn[1] /\ w.typ # "exit"
  /\ UNCHANGED <<diskVars, pir, pay, srf, fx, env>>
  /\ out' = IF pir.sat = "down" THEN out ELSE Append(out, q)
  /\ hst' \in Seq(Job) /\ chk' \in Seq(Job) /\ SnapshotInLog'

HstGrows ==
  /\ Len(hst) <= Len(hst')
  /\ \A e \in 1 .. Len(hst) : hst'[e] = hst[e]
  /\ \A e \in 1 .. Len(hst') : Len(hst) < e =>
       /\ e <= Gulf => hst'[e] = db[e]
       /\ (liv /\ e <= sen) => hst'[e] = Seen(e)

LEMMA SerfAnswers ==
  ASSUME PInv, NEW q \in Pleas, NEW w \in Writs,
         SerfStep(q, w), HstGrows, PleaFits(q, w)'
  PROVE  PInv'
<1>1. /\ UNCHANGED <<db, meta, liv, sen, dun, put, req, red>> /\ Gulf' = Gulf
      /\ UNCHANGED <<pir, pay, srf, fx, env>>
  BY DEF SerfStep, diskVars, Gulf
<1>2. LogGood'
  <2>1. Core'
    BY <1>1, StutterCore DEF PInv, LogGood
  <2>2. QED
    BY <1>1, <2>1 DEF PInv, LogGood, Written, ReadsGood
<1>3. /\ inn \in Seq(Writs) /\ out \in Seq(Pleas) /\ hst \in Seq(Job)
      /\ pir.wri \in Seq(Writs) /\ Len(inn) \in Nat /\ Len(out) \in Nat
      /\ Len(hst) \in Nat /\ Len(hst') \in Nat /\ Len(pir.wri) \in Nat
      /\ Gulf \in Nat /\ sen \in Nat /\ pir.eve \in Nat
  <2>1. Gulf \in Nat /\ sen \in Nat
    BY DEF PInv, LogGood, Core, LogContiguous, DiskTypeOK
  <2>2. /\ inn \in Seq(Writs) /\ out \in Seq(Pleas) /\ hst \in Seq(Job)
        /\ pir.wri \in Seq(Writs) /\ hst' \in Seq(Job) /\ pir.eve \in Nat
    BY DEF PInv, TypeOK, Piers, SerfStep
  <2>3. QED
    BY <2>1, <2>2
<1>4. /\ inn' \in Seq(Writs) /\ Len(inn') = Len(inn) - 1 /\ 0 < Len(inn)
      /\ \A i \in 1 .. Len(inn) - 1 : inn'[i] = inn[i + 1]
  BY <1>3 DEF SerfStep
<1>5. Append(out, q) \in Seq(Pleas)
  BY <1>3
<1>6. TypeOK'
  BY <1>1, <1>2, <1>4, <1>5 DEF SerfStep, PInv, TypeOK, LogGood, Core
<1>7. KingGood' /\ QueuesGood'
  <2>1. KingGood'
    <3>1. pir.sat # "boot"
      <4>1. CASE pir.sat = "boot"
        <5>1. pir.wri = <<>> /\ srf
          BY <4>1 DEF PInv, KingGood, SerfStep
        <5>2. (pir.liv /\ Len(inn) = Len(pir.wri) - Len(out)) \/ inn = pir.wri
          BY <4>1, <5>1 DEF PInv, Pipes
        <5>3. QED
          BY <1>3, <1>4, <5>1, <5>2
      <4>2. QED
        BY <4>1
    <3>2. QED
      BY <1>1, <1>3, <3>1 DEF PInv, KingGood, HstGrows
  <2>2. QueuesGood'
    BY <1>1 DEF PInv, QueuesGood, WritGood
  <2>3. QED
    BY <2>1, <2>2
<1>8. Pipes'
  <2>1. CASE pir.sat = "down"
    BY <1>1, <2>1 DEF Pipes
  <2>2. CASE pir.sat # "down" /\ pir.liv
    <3>1. /\ Len(inn) = Len(pir.wri) - Len(out)
          /\ \A i \in 1 .. Len(inn) : inn[i] = pir.wri[Len(out) + i]
          /\ \A i \in 1 .. Len(out) : PleaFits(out[i], pir.wri[i])
      BY <2>2 DEF PInv, Pipes, SerfStep
    <3>2. /\ Len(out') = Len(out) + 1 /\ out'[Len(out) + 1] = q
          /\ \A i \in 1 .. Len(out) : out'[i] = out[i]
      BY <1>3, <2>2 DEF SerfStep
    <3>3. w = pir.wri[Len(out) + 1]
      <4>1. 1 \in 1 .. Len(inn)
        BY <1>3, <1>4
      <4>2. inn[1] = pir.wri[Len(out) + 1]
        BY <3>1, <4>1
      <4>3. QED
        BY <4>2 DEF SerfStep
    <3>4. ASSUME NEW i \in 1 .. Len(out)
          PROVE  PleaFits(out[i], pir.wri[i])'
      <4>1. out'[i] = out[i] /\ PleaFits(out[i], pir.wri[i])
        BY <3>1, <3>2
      <4>2. i \in 1 .. Len(pir.wri) /\ pir.wri[i] \in Writs
        BY <1>3, <1>4, <3>1, SMTT(30)
      <4>3. pir.wri[i].eve \in Nat /\ Len(pir.wri[i].job) \in Nat
        BY <4>2, SMTT(30) DEF Writs
      <4>4. out[i].eve \in 1 .. Len(hst) =>
              /\ out[i].eve \in 1 .. Len(hst')
              /\ hst'[out[i].eve] = hst[out[i].eve]
        BY <1>3, SMTT(30) DEF HstGrows
      <4>5. pir.wri[i].eve + Len(pir.wri[i].job) - 1 <= Len(hst) =>
              pir.wri[i].eve + Len(pir.wri[i].job) - 1 <= Len(hst')
        BY <1>3, <4>3, SMTT(30) DEF HstGrows
      <4>6. QED
        BY <1>1, <4>1, <4>4, <4>5 DEF PleaFits
    <3>5. ASSUME NEW i \in 1 .. Len(out')
          PROVE  PleaFits(out[i], pir.wri[i])'
      <4>1. CASE i \in 1 .. Len(out)
        BY <3>4, <4>1
      <4>2. CASE i = Len(out) + 1
        BY <1>1, <3>2, <3>3, <4>2
      <4>3. QED
        BY <1>3, <3>2, <4>1, <4>2
    <3>6. /\ Len(inn') = Len(pir.wri) - Len(out')
          /\ \A i \in 1 .. Len(inn') : inn'[i] = pir.wri[Len(out') + i]
      <4>1. Len(inn') = Len(pir.wri) - Len(out')
        BY <1>3, <1>4, <3>1, <3>2
      <4>2. ASSUME NEW i \in 1 .. Len(inn')
            PROVE  inn'[i] = pir.wri[Len(out') + i]
        <5>1. /\ i \in 1 .. Len(inn) - 1 /\ i + 1 \in 1 .. Len(inn)
              /\ Len(out) + (i + 1) = Len(out') + i
          BY <1>3, <1>4, <3>2
        <5>2. inn'[i] = inn[i + 1] /\ inn[i + 1] = pir.wri[Len(out) + (i + 1)]
          BY <1>4, <3>1, <5>1
        <5>3. QED
          BY <5>1, <5>2
      <4>3. QED
        BY <4>1, <4>2
    <3>7. QED
      BY <1>1, <1>3, <1>4, <2>2, <3>1, <3>2, <3>5, <3>6 DEF Pipes
  <2>3. CASE pir.sat # "down" /\ ~pir.liv
    BY <1>3, <1>4, <2>3, SMTT(30) DEF PInv, Pipes, SerfStep
  <2>4. QED
    BY <2>1, <2>2, <2>3
<1>9. (PlayGood /\ NewGood)'
  BY <1>1 DEF PInv, PlayGood, NewGood
<1>10. EffectsGood'
  BY <1>1 DEF PInv, EffectsGood, EffectsDurable, EffectsOnce, GiftsGood, Seen
<1>11. WorkerGood'
  <2>1. \A e \in 1 .. Len(hst') : e <= Gulf => hst'[e] = db[e]
    BY <1>3, SMTT(30) DEF PInv, WorkerGood, HstGrows
  <2>2. liv => \A e \in 1 .. Len(hst') : e <= sen => hst'[e] = Seen(e)
    BY <1>3 DEF PInv, WorkerGood, HstGrows
  <2>3. ASSUME NEW i \in 1 .. Len(inn')
        PROVE  /\ WritGood(inn'[i])
               /\ inn'[i].typ = "work" =>
                    Gulf <= Len(hst') /\ (liv => sen <= Len(hst'))
    <3>1. i + 1 \in 1 .. Len(inn) /\ inn'[i] = inn[i + 1]
      BY <1>3, <1>4, SMTT(30)
    <3>2. QED
      BY <1>3, <3>1, SMTT(30) DEF PInv, WorkerGood, SerfStep, HstGrows
  <2>4. QED
    BY <1>1, <2>1, <2>2, <2>3 DEF WorkerGood, SerfStep, WritGood, Seen
<1>12. QED
  BY <1>2, <1>6, <1>7, <1>8, <1>9, <1>10, <1>11 DEF PInv

(* The events of the drivers, and what the worker makes of them. *)
LEMMA OvumIs ==
  ASSUME NEW o \in Ovum
  PROVE  o \in Job /\ Crud(o) \in Job
<1>1. PICK n \in 0 .. MaxOva : o = <<"ovum", n>>
  BY DEF Ovum
<1>2. Crud(o) = <<"crud", n>>
  BY <1>1 DEF Crud
<1>3. QED
  BY <1>1, <1>2, PierAssumption DEF PierJob

(* The types of the worker's state. *)
LEMMA SerfTypes ==
  ASSUME PInv
  PROVE  /\ inn \in Seq(Writs) /\ hst \in Seq(Job) /\ chk \in Seq(Job)
         /\ Len(inn) \in Nat /\ Len(hst) \in Nat
         /\ Gulf \in Nat /\ sen \in Nat /\ dun \in Nat /\ DOMAIN db = 1 .. Gulf
         /\ srf /\ inn # <<>> =>
              /\ inn[1] \in Writs /\ WritGood(inn[1]) /\ Tail(inn) \in Seq(Writs)
              /\ inn[1].typ = "work" =>
                   Gulf <= Len(hst) /\ (liv => sen <= Len(hst))
<1>1. /\ inn \in Seq(Writs) /\ hst \in Seq(Job) /\ chk \in Seq(Job)
  BY DEF PInv, TypeOK
<1>2. Gulf \in Nat /\ sen \in Nat /\ dun \in Nat /\ DOMAIN db = 1 .. Gulf
  BY DEF PInv, LogGood, Core, LogContiguous, DiskTypeOK
<1>3. Len(inn) \in Nat /\ Len(hst) \in Nat
  BY <1>1
<1>4. inn # <<>> => 1 \in 1 .. Len(inn) /\ inn[1] \in Writs /\ Tail(inn) \in Seq(Writs)
  BY <1>1
<1>5. QED
  BY <1>1, <1>2, <1>3, <1>4 DEF PInv, WorkerGood

(* _serf_work(): the new event comes after the end of the log. *)
LEMMA SerfWorkInv == PInv /\ SerfWork => PInv'
<1>1. SUFFICES ASSUME PInv, SerfWork PROVE PInv'
  OBVIOUS
<1>2. /\ srf /\ inn # <<>> /\ inn[1].typ = "work" /\ inn' = Tail(inn)
      /\ chk' = chk /\ UNCHANGED <<diskVars, pir, pay, srf, fx, env>>
  BY <1>1 DEF SerfWork, Takes, Answers
<1>3. PICK w \in Writs : w = inn[1]
  BY <1>1, <1>2, SerfTypes
<1>4. /\ hst \in Seq(Job) /\ chk \in Seq(Job) /\ Len(hst) \in Nat
      /\ w.typ = "work" /\ WritGood(w) /\ Gulf \in Nat /\ sen \in Nat
      /\ Gulf <= Len(hst) /\ (liv => sen <= Len(hst))
  BY <1>1, <1>2, <1>3, SerfTypes
<1>5. PICK o \in Ovum : w.job = <<o>>
  BY <1>4 DEF WritGood
<1>6. w.job[1] = o /\ o \in Job /\ Crud(o) \in Job
  BY <1>5, OvumIs
<1>7. SnapshotInLog'
  BY <1>1, <1>2 DEF PInv, WorkerGood, SnapshotInLog, diskVars, Gulf
<1>8. ASSUME NEW x \in Job, hst' = Append(hst, x)
      PROVE  /\ HstGrows /\ hst' \in Seq(Job)
             /\ Len(hst') \in Nat \ {0} /\ hst'[Len(hst')] = x
  <2>1. /\ hst' \in Seq(Job) /\ Len(hst') = Len(hst) + 1
        /\ Len(hst') \in Nat \ {0} /\ hst'[Len(hst')] = x
        /\ \A e \in 1 .. Len(hst) : hst'[e] = hst[e]
    BY <1>4, <1>8
  <2>2. QED
    BY <1>4, <2>1 DEF HstGrows
<1>9. ASSUME NEW q \in Pleas, Answers(q), HstGrows, PleaFits(q, w)', hst' \in Seq(Job)
      PROVE  PInv'
  <2>1. SerfStep(q, w)
    BY <1>2, <1>3, <1>4, <1>7, <1>9 DEF SerfStep, Answers
  <2>2. QED
    BY <1>1, <1>9, <2>1, SerfAnswers
<1>10. <<>> \in Seq(Job) /\ <<Crud(o)>> \in Seq(Job)
  BY <1>6
<1>11. CASE hst' = Append(hst, o) /\ Answers(Plea("done", Len(hst'), <<>>))
  <2>1. /\ HstGrows /\ hst' \in Seq(Job)
        /\ Len(hst') \in Nat \ {0} /\ hst'[Len(hst')] = o
    BY <1>6, <1>8, <1>11
  <2>2. PICK q \in Pleas : /\ q.typ = "done" /\ q.eve = Len(hst') /\ Answers(q)
    BY <1>10, <1>11, <2>1 DEF Plea, Pleas, PleaType
  <2>3. PleaFits(q, w)'
    BY <1>4, <1>6, <2>1, <2>2 DEF PleaFits
  <2>4. QED
    BY <1>9, <2>1, <2>2, <2>3
<1>12. CASE hst' = Append(hst, Crud(o)) /\ Answers(Plea("swap", Len(hst'), <<Crud(o)>>))
  <2>1. /\ HstGrows /\ hst' \in Seq(Job)
        /\ Len(hst') \in Nat \ {0} /\ hst'[Len(hst')] = Crud(o)
    BY <1>6, <1>8, <1>12
  <2>2. PICK q \in Pleas : /\ q.typ = "swap" /\ q.eve = Len(hst') /\ Answers(q)
                           /\ q.job = <<Crud(o)>>
    <3>1. PICK s \in Seq(Job) : s = <<Crud(o)>>
      BY <1>10
    <3>2. Answers(Plea("swap", Len(hst'), s))
      BY <1>12, <3>1
    <3>3. PICK q \in Pleas : /\ q.typ = "swap" /\ q.eve = Len(hst') /\ q.job = s
                             /\ q = Plea("swap", Len(hst'), s)
      BY <2>1 DEF Plea, Pleas, PleaType
    <3>4. QED
      BY <3>1, <3>2, <3>3
  <2>3. PleaFits(q, w)'
    BY <1>4, <2>1, <2>2 DEF PleaFits
  <2>4. QED
    BY <1>9, <2>1, <2>2, <2>3
<1>13. CASE hst' = hst /\ Answers(Plea("bail", 0, <<>>))
  <2>1. PICK q \in Pleas : q.typ = "bail" /\ Answers(q)
    BY <1>10, <1>13 DEF Plea, Pleas, PleaType
  <2>2. HstGrows
    BY <1>4, <1>13 DEF HstGrows
  <2>3. PleaFits(q, w)'
    BY <2>1 DEF PleaFits
  <2>4. QED
    BY <1>4, <1>9, <1>13, <2>1, <2>2, <2>3
<1>14. QED
  BY <1>1, <1>3, <1>6, <1>11, <1>12, <1>13 DEF SerfWork

(* u3_serf_play(): the batch is what the log holds next. *)
LEMMA SerfPlayInv == PInv /\ SerfPlay => PInv'
<1>1. SUFFICES ASSUME PInv, SerfPlay PROVE PInv'
  OBVIOUS
<1>2. /\ srf /\ inn # <<>> /\ inn[1].typ = "play" /\ inn' = Tail(inn)
      /\ inn[1].eve = Len(hst) + 1
      /\ chk' = chk /\ UNCHANGED <<diskVars, pir, pay, srf, fx, env>>
  BY <1>1 DEF SerfPlay, Takes, Answers
<1>3. PICK w \in Writs : w = inn[1]
  BY <1>1, <1>2, SerfTypes
<1>4. /\ hst \in Seq(Job) /\ chk \in Seq(Job) /\ Len(hst) \in Nat
      /\ w.typ = "play" /\ WritGood(w) /\ Gulf \in Nat /\ sen \in Nat
      /\ w.eve = Len(hst) + 1 /\ DOMAIN db = 1 .. Gulf
  BY <1>1, <1>2, <1>3, SerfTypes
<1>5. PICK s \in Seq(Job) : s = w.job
  BY DEF Writs
<1>6. /\ Len(s) \in Nat
      /\ \A i \in 1 .. Len(s) : Len(hst) + i \in 1 .. Gulf /\ s[i] = db[Len(hst) + i]
  <2>1. ASSUME NEW i \in 1 .. Len(s)
        PROVE  Len(hst) + i \in 1 .. Gulf /\ s[i] = db[Len(hst) + i]
    <3>1. w.eve + i - 1 = Len(hst) + i
      BY <1>4, <1>5
    <3>2. QED
      BY <1>4, <1>5, <3>1 DEF WritGood
  <2>2. QED
    BY <2>1
<1>7. SnapshotInLog'
  BY <1>1, <1>2 DEF PInv, WorkerGood, SnapshotInLog, diskVars, Gulf
<1>8. ASSUME NEW n \in 0 .. Len(s), hst' = hst \o SubSeq(s, 1, n)
      PROVE  HstGrows /\ hst' \in Seq(Job) /\ Len(hst') = Len(hst) + n
  <2> DEFINE t == SubSeq(s, 1, n)
  <2>1. t \in Seq(Job) /\ Len(t) = n /\ \A i \in 1 .. n : t[i] = s[i]
    BY <1>6
  <2> HIDE DEF t
  <2>2. /\ hst' \in Seq(Job) /\ Len(hst') = Len(hst) + n
        /\ \A i \in 1 .. Len(hst) + n :
             hst'[i] = IF i <= Len(hst) THEN hst[i] ELSE t[i - Len(hst)]
    BY <1>4, <1>8, <2>1, ConcatProperties, SMTT(30) DEF t
  <2>3. ASSUME NEW e \in 1 .. Len(hst'), Len(hst) < e
        PROVE  hst'[e] = db[e] /\ e \in 1 .. Gulf
    <3>1. /\ e - Len(hst) \in 1 .. n /\ e - Len(hst) \in 1 .. Len(s)
          /\ Len(hst) + (e - Len(hst)) = e /\ ~(e <= Len(hst))
      BY <1>4, <1>6, <2>2, <2>3
    <3>2. hst'[e] = t[e - Len(hst)] /\ t[e - Len(hst)] = s[e - Len(hst)]
      BY <2>1, <2>2, <3>1
    <3>3. QED
      BY <1>6, <3>1, <3>2
  <2>4. liv => \A e \in 1 .. Gulf : Seen(e) = db[e]
    BY <1>1, SeenTable DEF PInv, LogGood, TableSeen
  <2>5. QED
    BY <1>4, <2>2, <2>3, <2>4, SMTT(30) DEF HstGrows
<1>9. ASSUME NEW q \in Pleas, Answers(q), HstGrows, PleaFits(q, w)', hst' \in Seq(Job)
      PROVE  PInv'
  <2>1. SerfStep(q, w)
    BY <1>2, <1>3, <1>4, <1>7, <1>9 DEF SerfStep, Answers
  <2>2. QED
    BY <1>1, <1>9, <2>1, SerfAnswers
<1>10. <<>> \in Seq(Job)
  OBVIOUS
<1>11. CASE hst' = hst \o s /\ Answers(Plea("played", 0, <<>>))
  <2>1. HstGrows /\ hst' \in Seq(Job) /\ Len(hst') = Len(hst) + Len(s)
    <3>1. s = SubSeq(s, 1, Len(s)) /\ Len(s) \in 0 .. Len(s)
      BY <1>6
    <3>2. QED
      BY <1>8, <1>11, <3>1
  <2>2. PICK q \in Pleas : q.typ = "played" /\ Answers(q)
    BY <1>10, <1>11 DEF Plea, Pleas, PleaType
  <2>3. PleaFits(q, w)'
    <3>1. Len(w.job) = Len(s) /\ Len(s) \in Nat
      BY <1>5
    <3>2. w.eve = Len(hst) + 1 /\ Len(hst) \in Nat /\ Len(hst') = Len(hst) + Len(s)
      BY <1>4, <2>1
    <3>3. w.eve + Len(w.job) - 1 <= Len(hst')
      BY <3>1, <3>2
    <3>4. QED
      BY <1>4, <2>2, <3>3 DEF PleaFits
  <2>4. QED
    BY <1>9, <2>1, <2>2, <2>3
<1>12. ASSUME NEW n \in 0 .. Len(s), hst' = hst \o SubSeq(s, 1, n),
              Answers(Plea("stuck", Len(hst'), <<>>))
       PROVE  PInv'
  <2>1. HstGrows /\ hst' \in Seq(Job) /\ Len(hst') \in Nat
    BY <1>8, <1>12
  <2>2. PICK q \in Pleas : q.typ = "stuck" /\ Answers(q)
    BY <1>10, <1>12, <2>1 DEF Plea, Pleas, PleaType
  <2>3. PleaFits(q, w)'
    BY <2>2 DEF PleaFits
  <2>4. QED
    BY <1>9, <2>1, <2>2, <2>3
<1>13. CASE /\ \E n \in IF hst = <<>> THEN {0} ELSE 0 .. Len(s) - 1 :
                hst' = hst \o SubSeq(s, 1, n)
            /\ Answers(Plea("stuck", Len(hst'), <<>>))
  <2>1. PICK n \in IF hst = <<>> THEN {0} ELSE 0 .. Len(s) - 1 :
               hst' = hst \o SubSeq(s, 1, n)
    BY <1>13
  <2>2. n \in 0 .. Len(s)
    BY <1>6, <2>1
  <2>3. QED
    BY <1>12, <1>13, <2>1, <2>2
<1>14. QED
  BY <1>1, <1>3, <1>5, <1>11, <1>13 DEF SerfPlay

(* _serf_writ_live_save(): the snapshot is of a state that the log holds.  *)
LEMMA SerfSaveInv == PInv /\ SerfSave => PInv'
<1>1. SUFFICES ASSUME PInv, SerfSave PROVE PInv'
  OBVIOUS
<1>2. /\ srf /\ inn # <<>> /\ inn[1].typ \in {"save", "cram"} /\ inn' = Tail(inn)
      /\ inn[1].eve = Len(hst) /\ chk' = hst /\ hst' = hst
      /\ UNCHANGED <<diskVars, pir, pay, srf, fx, env>>
      /\ Answers(Plea("live", 0, <<>>))
  BY <1>1 DEF SerfSave, Takes, Answers
<1>3. PICK w \in Writs : w = inn[1]
  BY <1>1, <1>2, SerfTypes
<1>4. /\ hst \in Seq(Job) /\ Len(hst) \in Nat /\ Gulf \in Nat
      /\ w.typ \in {"save", "cram"} /\ WritGood(w) /\ w.eve = Len(hst)
  BY <1>1, <1>2, <1>3, SerfTypes
<1>5. Len(hst) <= Gulf
  BY <1>4 DEF WritGood
<1>6. SnapshotInLog'
  <2>1. Gulf' = Gulf /\ db' = db
    BY <1>2 DEF diskVars, Gulf
  <2>2. \A e \in 1 .. Len(hst) : hst[e] = db[e]
    BY <1>1, <1>4, <1>5 DEF PInv, WorkerGood
  <2>3. QED
    BY <1>2, <1>5, <2>1, <2>2 DEF SnapshotInLog
<1>7. PICK q \in Pleas : q.typ = "live" /\ Answers(q)
  <2>1. <<>> \in Seq(Job)
    OBVIOUS
  <2>2. QED
    BY <1>2, <2>1 DEF Plea, Pleas, PleaType
<1>8. PleaFits(q, w)'
  BY <1>7 DEF PleaFits
<1>9. HstGrows
  BY <1>2, <1>4 DEF HstGrows
<1>10. SerfStep(q, w)
  BY <1>2, <1>3, <1>4, <1>6, <1>7 DEF SerfStep, Answers
<1>11. QED
  BY <1>1, <1>8, <1>9, <1>10, SerfAnswers

(* Scries, |pack and |meld leave the worker as it is. *)
LEMMA SerfPeekInv == PInv /\ SerfPeek => PInv'
<1>1. SUFFICES ASSUME PInv, SerfPeek PROVE PInv'
  OBVIOUS
<1>2. /\ srf /\ inn # <<>> /\ inn[1].typ \in {"peek", "pack"} /\ inn' = Tail(inn)
      /\ chk' = chk /\ hst' = hst /\ UNCHANGED <<diskVars, pir, pay, srf, fx, env>>
      /\ Answers(Plea(IF inn[1].typ = "peek" THEN "peek" ELSE "live", 0, <<>>))
  BY <1>1 DEF SerfPeek, Takes, Answers
<1>3. PICK w \in Writs : w = inn[1]
  BY <1>1, <1>2, SerfTypes
<1>4. hst \in Seq(Job) /\ chk \in Seq(Job) /\ Len(hst) \in Nat /\ w.typ # "exit"
  BY <1>1, <1>2, <1>3, SerfTypes
<1>5. SnapshotInLog'
  BY <1>1, <1>2 DEF PInv, WorkerGood, SnapshotInLog, diskVars, Gulf
<1>6. PICK q \in Pleas : q.typ \in {"peek", "live"} /\ Answers(q)
  <2>1. <<>> \in Seq(Job)
    OBVIOUS
  <2>2. QED
    BY <1>2, <2>1 DEF Plea, Pleas, PleaType
<1>7. PleaFits(q, w)'
  BY <1>6 DEF PleaFits
<1>8. HstGrows
  BY <1>2, <1>4 DEF HstGrows
<1>9. SerfStep(q, w)
  BY <1>2, <1>3, <1>4, <1>5, <1>6 DEF SerfStep, Answers
<1>10. QED
  BY <1>1, <1>7, <1>8, <1>9, SerfAnswers

(* The worker stops. *)
LEMMA SerfExitInv == PInv /\ SerfExit => PInv'
<1>1. SUFFICES ASSUME PInv, SerfExit PROVE PInv'
  OBVIOUS
<1>2. inn' = Tail(inn) /\ srf /\ inn # <<>>
  BY <1>1 DEF SerfExit, Takes
<1>3. inn' \in Seq(Writs) /\ env \in Envs
  BY <1>1, <1>2, SerfTypes DEF PInv, TypeOK
<1>4. QED
  BY <1>1, <1>3, SerfEnds DEF SerfExit

(* The worker dies. *)
LEMMA SerfDiesInv == PInv /\ SerfDies => PInv'
<1>1. SUFFICES ASSUME PInv, SerfDies PROVE PInv'
  OBVIOUS
<1>2. env' \in Envs /\ env'.new = env.new
  <2>1. env \in Envs /\ MaxDie \in Nat
    BY <1>1, PierAssumption DEF PInv, TypeOK
  <2>2. CASE pir.sat = "down"
    BY <1>1, <2>1, <2>2 DEF SerfDies
  <2>3. CASE pir.sat # "down"
    <3>1. env' = [env EXCEPT !.die = env.die + 1] /\ env.die + 1 \in 0 .. MaxDie
      BY <1>1, <2>1, <2>3 DEF SerfDies, Envs
    <3>2. QED
      BY <2>1, <3>1 DEF Envs
  <2>4. QED
    BY <2>2, <2>3
<1>3. <<>> \in Seq(Writs)
  OBVIOUS
<1>4. QED
  BY <1>1, <1>2, <1>3, SerfEnds DEF SerfDies

-----------------------------------------------------------------------------
(* The log moves, and the king does not *)

(* No event of the table is dropped or changed. *)
TableGrows == \A e \in DOMAIN db : e \in DOMAIN db' /\ db'[e] = db[e]

(* A writ stays good when the table grows. *)
LEMMA WritGoodGrows ==
  ASSUME LogContiguous, LogContiguous', TableGrows
  PROVE  /\ Gulf <= Gulf'
         /\ \A w \in Writs : WritGood(w) => WritGood(w)'
<1>1. Gulf \in Nat /\ Gulf' \in Nat /\ DOMAIN db = 1 .. Gulf /\ DOMAIN db' = 1 .. Gulf'
  BY DEF LogContiguous
<1>2. Gulf <= Gulf'
  <2>1. CASE Gulf = 0
    BY <1>1, <2>1
  <2>2. CASE Gulf # 0
    <3>1. Gulf \in DOMAIN db
      BY <1>1, <2>2
    <3>2. Gulf \in DOMAIN db'
      BY <3>1 DEF TableGrows
    <3>3. QED
      BY <1>1, <3>2
  <2>3. QED
    BY <2>1, <2>2
<1>3. ASSUME NEW w \in Writs, WritGood(w)
      PROVE  WritGood(w)'
  <2>1. w.eve \in Nat
    BY DEF Writs
  <2>2. QED
    BY <1>1, <1>2, <1>3, <2>1 DEF WritGood, TableGrows
<1>4. QED
  BY <1>2, <1>3

(* Steps of the log that no callback takes part in: the write thread, the  *)
(* start of a read, the metadata of a boot.                                *)
LogMove ==
  /\ UNCHANGED <<pierVars, liv, sen, dun, put>>
  /\ TableGrows
  /\ db' = db \/ liv
  /\ meta' = meta \/ pir.sat = "boot"
  /\ (req'.sat = "idle" <=> req.sat = "idle") /\ req'.job = req.job
  /\ Len(red') = Len(red)
  /\ \A i \in 1 .. Len(red) : red'[i].eve = red[i].eve /\ red'[i].len = red[i].len

LEMMA LogMoves ==
  ASSUME PInv, LogMove, LogGood'
  PROVE  PInv'
<1>1. /\ UNCHANGED <<pir, pay, inn, out, srf, hst, chk, fx, env>>
      /\ UNCHANGED <<liv, sen, dun, put>>
  BY DEF LogMove, pierVars
<1>2. /\ Core /\ Core' /\ LogContiguous /\ LogContiguous' /\ TableGrows
  BY DEF PInv, LogGood, Core, LogMove
<1>3. /\ Gulf <= Gulf' /\ \A w \in Writs : WritGood(w) => WritGood(w)'
  BY <1>2, WritGoodGrows
<1>4. /\ Gulf \in Nat /\ Gulf' \in Nat /\ sen \in Nat /\ dun \in Nat
      /\ DOMAIN db = 1 .. Gulf /\ DOMAIN db' = 1 .. Gulf' /\ dun <= Gulf
  BY <1>2 DEF Core, DiskTypeOK, AckIsDurable, LogContiguous
<1>5. /\ inn \in Seq(Writs) /\ pir.wri \in Seq(Writs) /\ hst \in Seq(Job)
      /\ chk \in Seq(Job) /\ fx \in Seq(Fact)
      /\ \A i \in 1 .. Len(inn) : inn[i] \in Writs
      /\ \A i \in 1 .. Len(pir.wri) : pir.wri[i] \in Writs
  <2>1. /\ inn \in Seq(Writs) /\ pir.wri \in Seq(Writs) /\ hst \in Seq(Job)
        /\ chk \in Seq(Job) /\ fx \in Seq(Fact)
    BY DEF PInv, TypeOK, Piers
  <2>2. QED
    BY <2>1
<1>6. \A e \in Nat : 0 < e => Seen(e)' = Seen(e)
  BY <1>1, <1>2, <1>4 DEF Seen, TableGrows
<1>7. TypeOK'
  BY <1>1, <1>2 DEF PInv, TypeOK, Core
<1>8. KingGood'
  <2>1. red' = <<>> <=> red = <<>>
    <3>1. red \in Seq(Reads) /\ red' \in Seq(Reads)
      BY <1>2 DEF Core, DiskTypeOK
    <3>2. QED
      BY <3>1 DEF LogMove
  <2>2. QED
    BY <1>1, <2>1 DEF PInv, KingGood, LogMove
<1>9. QueuesGood'
  BY <1>1, <1>3, <1>5 DEF PInv, QueuesGood
<1>10. Pipes'
  BY <1>1 DEF PInv, Pipes, PleaFits
<1>11. PlayGood'
  <2>1. SUFFICES ASSUME pir.sat = "play" PROVE PlayGood'
    BY <1>1 DEF PlayGood
  <2>2. PlayGood /\ red \in Seq(Reads) /\ red' \in Seq(Reads)
        /\ pay.sen \in Nat /\ pay.eve \in Nat /\ pay.que \in Seq(Fact)
    BY <1>2 DEF PInv, Core, DiskTypeOK, TypeOK, Plays
  <2>3. \A i \in 1 .. Len(pay.que) : db'[pay.sen + i] = db[pay.sen + i]
    <3>1. TAKE i \in 1 .. Len(pay.que)
    <3>2. pay.sen + i \in DOMAIN db
      BY <1>4, <2>1, <2>2, SMTT(30) DEF PlayGood
    <3>3. QED
      BY <1>2, <3>2 DEF TableGrows
  <2>4. Len(red') = Len(red) /\ (red # <<>> => 1 \in 1 .. Len(red))
        /\ (red' # <<>> => red # <<>>)
    BY <2>2 DEF LogMove
  <2>5. red # <<>> => red'[1].eve = red[1].eve /\ red'[1].len = red[1].len
    BY <2>4 DEF LogMove
  <2>6. QED
    BY <1>1, <2>1, <2>2, <2>3, <2>4, <2>5 DEF PlayGood
<1>12. EffectsGood'
  <2>1. (EffectsDurable /\ EffectsOnce)'
    BY <1>1, <1>2 DEF PInv, EffectsGood, EffectsDurable, EffectsOnce, TableGrows
  <2>2. GiftsGood'
    <3>1. pir.rel \in Nat
      BY DEF PInv, TypeOK, Piers
    <3>2. \A i \in 1 .. Len(pir.gif) : Seen(pir.rel + i)' = Seen(pir.rel + i)
      BY <1>1, <1>2, <1>4, <3>1 DEF Seen, TableGrows
    <3>3. QED
      BY <1>1, <3>2 DEF PInv, EffectsGood, GiftsGood
  <2>3. QED
    BY <2>1, <2>2 DEF EffectsGood
<1>13. WorkerGood'
  <2>1. SnapshotInLog'
    <3>1. Len(chk) <= Gulf /\ Len(chk) \in Nat
          /\ \A i \in 1 .. Len(chk) : chk[i] = db[i]
      BY <1>5 DEF PInv, WorkerGood, SnapshotInLog
    <3>2. \A i \in 1 .. Len(chk) : chk[i] = db'[i]
      BY <1>2, <1>4, <3>1 DEF TableGrows
    <3>3. QED
      BY <1>1, <1>3, <1>4, <3>1, <3>2 DEF SnapshotInLog
  <2>2. liv => \A e \in 1 .. Len(hst) : e <= sen => hst[e] = Seen(e)'
    BY <1>6 DEF PInv, WorkerGood
  <2>3. \A e \in 1 .. Len(hst) : e <= Gulf' => hst[e] = db'[e]
    <3>1. CASE db' = db
      BY <1>1, <3>1 DEF PInv, WorkerGood, Gulf
    <3>2. CASE liv
      <4>1. TableSeen'
        BY <1>1, <1>2, <3>2, SeenTableNext DEF LogGood
      <4>2. QED
        BY <1>1, <1>4, <2>2, <3>2, <4>1 DEF TableSeen
    <3>3. QED
      BY <3>1, <3>2 DEF LogMove
  <2>4. ASSUME srf, NEW i \in 1 .. Len(inn), inn[i].typ = "work"
        PROVE  Gulf' <= Len(hst) /\ (liv => sen <= Len(hst))
    <3>1. Gulf <= Len(hst) /\ (liv => sen <= Len(hst))
      BY <2>4 DEF PInv, WorkerGood
    <3>2. CASE db' = db
      BY <3>1, <3>2 DEF Gulf
    <3>3. CASE liv
      <4>1. Gulf' <= sen /\ Len(hst) \in Nat
        BY <1>1, <1>2, <1>5, <3>3, SeenTableNext DEF LogGood, TableSeen
      <4>2. QED
        BY <1>4, <3>1, <3>3, <4>1
    <3>4. QED
      BY <3>2, <3>3 DEF LogMove
  <2>5. srf => \A i \in 1 .. Len(inn) : WritGood(inn[i])'
    BY <1>1, <1>3, <1>5 DEF PInv, WorkerGood
  <2>6. QED
    BY <1>1, <2>1, <2>2, <2>3, <2>4, <2>5 DEF WorkerGood
<1>14. NewGood'
  BY <1>1 DEF PInv, NewGood, KingGood, LogMove
<1>15. QED
  BY <1>7, <1>8, <1>9, <1>10, <1>11, <1>12, <1>13, <1>14 DEF PInv

(* The write thread. *)
LEMMA WriteThreadInv == PInv /\ WriteThread => PInv'
<1>1. SUFFICES ASSUME PInv, WriteThread PROVE PInv'
  OBVIOUS
<1>2. /\ DiskCommitCb /\ red' = red /\ UNCHANGED pierVars
      /\ UNCHANGED <<meta, liv, sen, dun, put>> /\ Core /\ ReadsGood
  BY <1>1 DEF WriteThread, DiskCommitCb, PInv, LogGood
<1>3. TableGrows
  BY <1>2, CommitCbGrows DEF TableGrows
<1>4. /\ req \in Reqs /\ req.sat = "wait" /\ req'.sat \in {"good", "fail"}
      /\ req'.job = req.job /\ red \in Seq(Reads)
  BY <1>2 DEF DiskCommitCb, Core, DiskTypeOK, Reqs
<1>5. liv
  BY <1>2, <1>4 DEF Core, Dead, Idle
<1>6. Core' /\ Written'
  BY <1>2, CommitCbCore, CommitCbSeen
<1>7. ReadsGood'
  <2>1. ASSUME NEW i \in 1 .. Len(red) PROVE Good(db, red[i])'
    <3>1. PICK r \in Reads : r = red[i]
      BY <1>4
    <3>2. Good(db, r)
      BY <1>2, <3>1 DEF ReadsGood
    <3>3. Good(db', r)
      BY <1>3, <3>2 DEF Good, TableGrows
    <3>4. QED
      BY <1>2, <3>1, <3>3
  <2>2. QED
    BY <1>2, <2>1 DEF ReadsGood
<1>8. LogMove
  BY <1>2, <1>3, <1>4, <1>5 DEF LogMove
<1>9. QED
  BY <1>1, <1>6, <1>7, <1>8, LogMoves DEF LogGood

(* _disk_read_start_cb(). *)
LEMMA ReadLogInv == PInv /\ ReadLog => PInv'
<1>1. SUFFICES ASSUME PInv, ReadLog PROVE PInv'
  OBVIOUS
<1>2. /\ DiskReadStart /\ UNCHANGED pierVars /\ UNCHANGED writeVars
      /\ UNCHANGED <<db, meta, liv, sen, dun, put, req>>
      /\ Core /\ ReadsGood /\ Written
  BY <1>1 DEF ReadLog, writeVars, PInv, LogGood
<1>3. liv
  BY <1>2 DEF DiskReadStart, Core, Dead
<1>4. /\ red' \in Seq(Reads) /\ Len(red') = Len(red)
      /\ \A i \in 1 .. Len(red) :
           red'[i].eve = red[i].eve /\ red'[i].len = red[i].len
      /\ ReadsGood'
  BY <1>2, ReadStartGood
<1>5. Core'
  BY <1>2, <1>3, <1>4, ReadCore
<1>6. Written'
  BY <1>2 DEF Written
<1>7. LogMove
  BY <1>2, <1>4 DEF LogMove, TableGrows
<1>8. QED
  BY <1>1, <1>4, <1>5, <1>6, <1>7, LogMoves DEF LogGood

(* The metadata of a boot. *)
LEMMA BootMetaInv == PInv /\ BootMeta => PInv'
<1>1. SUFFICES ASSUME PInv, BootMeta PROVE PInv'
  OBVIOUS
<1>2. /\ DiskSaveMeta /\ red' = red /\ UNCHANGED pierVars
      /\ UNCHANGED <<db, liv, sen, dun, put, req>> /\ sen = 0 /\ pir.sat = "boot"
      /\ Core /\ Written /\ ReadsGood
  BY <1>1 DEF BootMeta, Booting, DiskSaveMeta, PInv, LogGood
<1>3. Core'
  BY <1>2, SaveMetaCore
<1>4. Written' /\ ReadsGood'
  BY <1>2 DEF Written, ReadsGood
<1>5. LogMove
  BY <1>2 DEF LogMove, TableGrows
<1>6. QED
  BY <1>1, <1>3, <1>4, <1>5, LogMoves DEF LogGood

(* The boot sequence is planned, and the write thread started. *)
LEMMA BootPlanInv == PInv /\ BootPlan => PInv'
<1>1. SUFFICES ASSUME PInv, BootPlan PROVE PInv'
  OBVIOUS
<1>2. /\ DiskBoot(BootSeq) /\ red' = red /\ meta = Len(MetaKeys)
      /\ pir.sat = "boot" /\ sen = 0 /\ UNCHANGED <<db, meta, liv, dun>>
      /\ UNCHANGED <<pir, pay, inn, out, srf, hst, chk, fx, env>>
  BY <1>1 DEF BootPlan, Booting, DiskBoot, pierVars
<1>3. liv /\ Core /\ Written /\ ReadsGood /\ KingGood
  BY <1>1, <1>2 DEF PInv, KingGood, LogGood
<1>4. /\ dun = 0 /\ put = <<>> /\ req.sat = "idle" /\ Gulf = 0 /\ red \in Seq(Reads)
      /\ DOMAIN db = {}
  <2>1. dun \in Nat /\ put \in Seq(Fact) /\ Len(put) = sen - dun /\ red \in Seq(Reads)
    BY <1>3 DEF Core, DiskTypeOK, DiskAsserts, QueueIsGap
  <2>2. dun = 0 /\ put = <<>>
    BY <1>2, <2>1
  <2>3. req.sat = "idle"
    BY <1>3, <2>2 DEF Core, DiskAsserts, WriteIsPrefix
  <2>4. Gulf = 0
    BY <1>3, <2>2, <2>3 DEF Core, AckIsDurable
  <2>5. QED
    BY <1>3, <2>1, <2>2, <2>3, <2>4 DEF Core, LogContiguous
<1>5. /\ BootLen \in Nat /\ 0 < BootLen /\ BootSeq \in [1 .. BootLen -> Job]
  BY PierAssumption DEF BootSeq, PierJob
<1>6. Core'
  BY <1>2, <1>3, <1>4, <1>5, BootCore
<1>7. /\ sen' = BootLen /\ req'.sat = "wait" /\ Len(req'.job) = sen'
  <2>1. Len(BootSeq) = BootLen
    BY <1>5
  <2>2. sen' = BootLen
    BY <1>2, <1>5, <2>1 DEF DiskBoot
  <2>3. req' = Batch(put', sen' - dun)
    BY <1>2, <1>4, <1>5, <2>2 DEF DiskBoot, Commit
  <2>4. sen' - dun = BootLen
    BY <1>4, <1>5, <2>2
  <2>5. QED
    BY <1>5, <2>2, <2>3, <2>4 DEF Batch
<1>8. LogGood'
  BY <1>2, <1>3, <1>6, <1>7 DEF LogGood, Written, ReadsGood
<1>9. Gulf' = Gulf
  BY <1>2 DEF Gulf
<1>10. TypeOK'
  BY <1>1, <1>2, <1>6 DEF PInv, TypeOK, Core
<1>11. KingGood'
  BY <1>2, <1>3, <1>4, <1>7, SMTT(30) DEF KingGood
<1>12. QueuesGood' /\ Pipes' /\ PlayGood' /\ NewGood'
  BY <1>1, <1>2, <1>9
     DEF PInv, QueuesGood, WritGood, Pipes, PleaFits, PlayGood, NewGood
<1>13. EffectsGood'
  BY <1>1, <1>2, <1>3
     DEF PInv, EffectsGood, EffectsDurable, EffectsOnce, GiftsGood, KingGood
<1>14. WorkerGood'
  <2>1. pir.wri = <<>> /\ pir.sat # "down" /\ inn \in Seq(Writs) /\ out \in Seq(Pleas)
        /\ hst \in Seq(Job)
    BY <1>1, <1>2, <1>3 DEF KingGood, PInv, TypeOK
  <2>2. srf => inn = <<>>
    <3>1. srf /\ pir.liv => Len(inn) = Len(pir.wri) - Len(out)
      BY <1>1, <2>1 DEF PInv, Pipes
    <3>2. srf /\ ~pir.liv => inn = pir.wri
      BY <1>1, <2>1 DEF PInv, Pipes
    <3>3. QED
      BY <2>1, <3>1, <3>2
  <2>3. SnapshotInLog /\ \A e \in 1 .. Len(hst) : e <= Gulf => hst[e] = db[e]
    BY <1>1 DEF PInv, WorkerGood
  <2>4. hst = <<>>
    BY <1>2, <1>3 DEF KingGood
  <2>5. QED
    BY <1>2, <1>9, <2>2, <2>3, <2>4 DEF WorkerGood, SnapshotInLog
<1>15. QED
  BY <1>8, <1>10, <1>11, <1>12, <1>13, <1>14 DEF PInv

-----------------------------------------------------------------------------
(* A callback of the king *)

(* What it leaves of the writ queue, before it plans more: a plea takes    *)
(* the writ it answers along, a %ripe finds no writ.                       *)
KeepsTo(old, l) ==
  \/ out' = out /\ old = pir.wri /\ l = pir.liv
  \/ /\ out # <<>> /\ out' = Tail(out)
     /\ pir.liv /\ l
     /\ pir.wri # <<>> /\ old = Tail(pir.wri)
  \/ /\ out # <<>> /\ out' = Tail(out)
     /\ ~pir.liv /\ l
     /\ pir.wri = <<>> /\ old = <<>>

Keeps(old) == KeepsTo(old, pir'.liv)

(* It sends the writs that it plans behind them. *)
Sends(old) ==
  /\ Len(old) <= Len(pir'.wri)
  /\ \A i \in 1 .. Len(old) : pir'.wri[i] = old[i]
  /\ inn' = inn \o SubSeq(pir'.wri, Len(old) + 1, Len(pir'.wri))

(* A writ that it may plan. *)
MaySend(w) ==
  /\ WritGood(w)
  /\ ~pir'.liv => w.typ = "exit"
  /\ w.typ = "work" =>
       /\ pir'.sat = "wyrd" \/ pir'.wok
       /\ Gulf <= Len(hst) /\ (liv' => sen' <= Len(hst))

(* The log it leaves behind still agrees with the worker. *)
LogFits ==
  liv' =>
    /\ liv
    /\ \A e \in 1 .. Len(hst) : e <= sen' => hst[e] = Seen(e)'
    /\ sen <= Len(hst) => sen' <= Len(hst)

KingStep(old) ==
  /\ pir.sat # "down"
  /\ UNCHANGED <<db, srf, hst, chk>>
  /\ Keeps(old)
  /\ Sends(old)
  /\ \A i \in Len(old) + 1 .. Len(pir'.wri) : MaySend(pir'.wri[i])
  /\ (old # <<>> /\ (pir.sat = "wyrd" \/ pir.wok)) =>
       pir'.sat = "wyrd" \/ pir'.wok
  /\ LogFits
  /\ \A i \in 1 .. Len(pir'.ova) : pir'.ova[i] \in Ovum
  /\ \A i \in 1 .. Len(pir'.wal) : pir'.wal[i] = "exit" => pir'.sat = "done"
  /\ env'.new = env.new

(* Its state has the right types. *)
KingTypes ==
  pir' \in Piers /\ pay' \in Plays /\ fx' \in Seq(Fact) /\ env' \in Envs

(* The queues before it. *)
LEMMA KingFacts ==
  ASSUME PInv
  PROVE  /\ pir.wri \in Seq(Writs) /\ inn \in Seq(Writs) /\ out \in Seq(Pleas)
         /\ Len(pir.wri) \in Nat /\ Len(inn) \in Nat /\ Len(out) \in Nat
         /\ hst \in Seq(Job) /\ Len(hst) \in Nat /\ pir.eve \in Nat
         /\ Gulf \in Nat /\ sen \in Nat /\ dun \in Nat /\ DOMAIN db = 1 .. Gulf
         /\ dun <= Gulf /\ (liv => dun <= sen)
         /\ pir.gif \in Seq(Fact) /\ Len(pir.gif) \in Nat /\ pir.rel \in Nat
         /\ pir.wal \in Seq({"save", "exit"}) /\ pir.ova \in Seq(Job)
         /\ pir.pec \in Nat
<1>1. /\ pir.wri \in Seq(Writs) /\ inn \in Seq(Writs) /\ out \in Seq(Pleas)
      /\ hst \in Seq(Job) /\ pir.eve \in Nat
      /\ pir.gif \in Seq(Fact) /\ pir.rel \in Nat
      /\ pir.wal \in Seq({"save", "exit"}) /\ pir.ova \in Seq(Job)
      /\ pir.pec \in Nat
  BY DEF PInv, TypeOK, Piers
<1>2. Gulf \in Nat /\ sen \in Nat /\ dun \in Nat /\ DOMAIN db = 1 .. Gulf
      /\ dun <= Gulf
  BY DEF PInv, LogGood, Core, LogContiguous, DiskTypeOK, AckIsDurable
<1>3. liv => dun <= sen
  BY SeenTable DEF PInv, LogGood, TableSeen
<1>4. QED
  BY <1>1, <1>2, <1>3, SMTT(30)

(* What is left of the queue is part of it, and the pipes agree with it. *)
LEMMA KeepsIs ==
  ASSUME PInv, pir.sat # "down", NEW old, Keeps(old), pir' \in Piers,
         UNCHANGED <<hst, srf>>
  PROVE  /\ old \in Seq(Writs) /\ Len(old) \in Nat
         /\ \A i \in 1 .. Len(old) :
              /\ WritGood(old[i])
              /\ old[i].typ = "work" => pir.sat = "wyrd" \/ pir.wok
         /\ out' \in Seq(Pleas) /\ Len(out') \in Nat
         /\ pir'.liv =>
              /\ Len(out') <= Len(old)
              /\ \A i \in 1 .. Len(out') : PleaFits(out'[i], old[i])
              /\ srf =>
                   /\ Len(inn) = Len(old) - Len(out')
                   /\ \A i \in 1 .. Len(inn) : inn[i] = old[Len(out') + i]
         /\ ~pir'.liv => ~pir.liv /\ out' = out /\ old = pir.wri
<1>1. /\ pir.wri \in Seq(Writs) /\ inn \in Seq(Writs) /\ out \in Seq(Pleas)
      /\ Len(pir.wri) \in Nat /\ Len(inn) \in Nat /\ Len(out) \in Nat
  BY KingFacts, SMTT(30)
<1>2. /\ Pipes
      /\ \A i \in 1 .. Len(pir.wri) :
           /\ WritGood(pir.wri[i])
           /\ pir.wri[i].typ = "work" => pir.sat = "wyrd" \/ pir.wok
  BY DEF PInv, QueuesGood
<1>3. CASE out' = out /\ old = pir.wri /\ pir'.liv = pir.liv
  BY <1>1, <1>2, <1>3 DEF Pipes
<1>4. CASE /\ out # <<>> /\ out' = Tail(out)
           /\ pir.liv /\ pir'.liv
           /\ pir.wri # <<>> /\ old = Tail(pir.wri)
  <2>1. /\ old \in Seq(Writs) /\ Len(old) = Len(pir.wri) - 1 /\ Len(old) \in Nat
        /\ \A i \in 1 .. Len(old) : i + 1 \in 1 .. Len(pir.wri) /\ old[i] = pir.wri[i + 1]
        /\ out' \in Seq(Pleas) /\ Len(out') = Len(out) - 1 /\ Len(out') \in Nat
        /\ \A i \in 1 .. Len(out') : i + 1 \in 1 .. Len(out) /\ out'[i] = out[i + 1]
    BY <1>1, <1>4, SMTT(30)
  <2>2. /\ Len(out) <= Len(pir.wri)
        /\ \A i \in 1 .. Len(out) : PleaFits(out[i], pir.wri[i])
        /\ srf =>
             /\ Len(inn) = Len(pir.wri) - Len(out)
             /\ \A i \in 1 .. Len(inn) : inn[i] = pir.wri[Len(out) + i]
    BY <1>2, <1>4 DEF Pipes
  <2>3. ASSUME NEW i \in 1 .. Len(out')
        PROVE  PleaFits(out'[i], old[i])
    <3>1. i \in 1 .. Len(old)
      BY <1>1, <2>1, <2>2
    <3>2. QED
      BY <2>1, <2>2, <3>1
  <2>4. ASSUME srf, NEW i \in 1 .. Len(inn)
        PROVE  inn[i] = old[Len(out') + i]
    <3>1. inn[i] = pir.wri[Len(out) + i]
      BY <2>2, <2>4
    <3>2. Len(out') + i \in 1 .. Len(old) /\ (Len(out') + i) + 1 = Len(out) + i
      BY <1>1, <2>1, <2>2, <2>4
    <3>3. QED
      BY <2>1, <3>1, <3>2
  <2>5. QED
    BY <1>1, <1>2, <1>4, <2>1, <2>2, <2>3, <2>4, SMTT(30)
<1>5. CASE /\ out # <<>> /\ out' = Tail(out)
           /\ ~pir.liv /\ pir'.liv
           /\ pir.wri = <<>> /\ old = <<>>
  <2>1. Len(out) = 1 /\ (srf => inn = <<>>)
    BY <1>2, <1>5 DEF Pipes
  <2>2. out' = <<>>
    BY <1>1, <1>5, <2>1
  <2>3. <<>> \in Seq(Writs) /\ <<>> \in Seq(Pleas) /\ Len(<<>>) = 0 /\ 1 .. 0 = {}
    OBVIOUS
  <2>4. old \in Seq(Writs) /\ out' \in Seq(Pleas) /\ Len(old) = 0 /\ Len(out') = 0
    BY <1>5, <2>2, <2>3
  <2>5. srf => Len(inn) = 0
    BY <2>1, <2>3
  <2>6. QED
    BY <1>5, <2>4, <2>5
<1>6. QED
  BY <1>3, <1>4, <1>5 DEF Keeps, KeepsTo

(* The pipes after it. *)
LEMMA KingPipes ==
  ASSUME PInv, NEW old, KingStep(old), pir' \in Piers
  PROVE  /\ Pipes'
         /\ inn' \in Seq(Writs) /\ out' \in Seq(Pleas)
         /\ \A i \in 1 .. Len(inn') :
              (i \in 1 .. Len(inn) /\ inn'[i] = inn[i]) \/ MaySend(inn'[i])
<1>1. /\ pir.sat # "down" /\ UNCHANGED <<hst, srf>> /\ Keeps(old) /\ Sends(old)
      /\ \A i \in Len(old) + 1 .. Len(pir'.wri) : MaySend(pir'.wri[i])
  BY DEF KingStep
<1>2. /\ old \in Seq(Writs) /\ Len(old) \in Nat
      /\ out' \in Seq(Pleas) /\ Len(out') \in Nat
      /\ pir'.liv =>
           /\ Len(out') <= Len(old)
           /\ \A i \in 1 .. Len(out') : PleaFits(out'[i], old[i])
           /\ srf =>
                /\ Len(inn) = Len(old) - Len(out')
                /\ \A i \in 1 .. Len(inn) : inn[i] = old[Len(out') + i]
      /\ ~pir'.liv => ~pir.liv /\ out' = out /\ old = pir.wri
  BY <1>1, KeepsIs
<1>3. inn \in Seq(Writs) /\ Len(inn) \in Nat
  BY KingFacts
<1>4. PICK wri \in Seq(Writs) : wri = pir'.wri
  BY DEF Piers
<1> DEFINE new == SubSeq(wri, Len(old) + 1, Len(wri))
<1>5. /\ Len(wri) \in Nat /\ Len(old) <= Len(wri)
      /\ \A i \in 1 .. Len(old) : wri[i] = old[i]
      /\ inn' = inn \o new
  BY <1>1, <1>4 DEF Sends
<1>6. /\ new \in Seq(Writs) /\ Len(new) = Len(wri) - Len(old)
      /\ \A i \in 1 .. Len(new) : new[i] = wri[Len(old) + i]
  BY <1>2, <1>5
<1> HIDE DEF new
<1>7. /\ inn' \in Seq(Writs) /\ Len(inn') = Len(inn) + Len(new) /\ Len(new) \in Nat
      /\ \A i \in 1 .. Len(inn) + Len(new) :
           inn'[i] = IF i <= Len(inn) THEN inn[i] ELSE new[i - Len(inn)]
  <2>1. inn' = inn \o new /\ new \in Seq(Writs) /\ Len(new) \in Nat
    BY <1>5, <1>6
  <2>2. QED
    BY <1>3, <2>1, ConcatProperties
<1>8. ASSUME NEW i \in 1 .. Len(inn')
      PROVE  (i \in 1 .. Len(inn) /\ inn'[i] = inn[i]) \/ MaySend(inn'[i])
  <2>1. CASE i <= Len(inn)
    BY <1>3, <1>7, <2>1
  <2>2. CASE ~(i <= Len(inn))
    <3>1. /\ i - Len(inn) \in 1 .. Len(new)
          /\ Len(old) + (i - Len(inn)) \in Len(old) + 1 .. Len(wri)
      BY <1>2, <1>3, <1>5, <1>6, <1>7, <2>2, SMTT(30)
    <3>2. inn'[i] = wri[Len(old) + (i - Len(inn))]
      BY <1>6, <1>7, <2>2, <3>1
    <3>3. QED
      BY <1>1, <1>4, <3>1, <3>2
  <2>3. QED
    BY <2>1, <2>2
<1>9. Pipes'
  <2>1. CASE pir'.liv
    <3>1. Len(out') <= Len(wri)
      BY <1>2, <1>5, <2>1
    <3>2. ASSUME NEW i \in 1 .. Len(out')
          PROVE  PleaFits(out[i], pir.wri[i])'
      <4>1. PleaFits(out'[i], old[i]) /\ i \in 1 .. Len(old) /\ wri[i] = old[i]
        BY <1>2, <1>5, <2>1
      <4>2. PleaFits(out'[i], wri[i])
        BY <4>1
      <4>3. QED
        BY <1>1, <1>4, <4>2 DEF PleaFits
    <3>3. ASSUME srf
          PROVE  /\ Len(inn') = Len(wri) - Len(out')
                 /\ \A i \in 1 .. Len(inn') : inn'[i] = wri[Len(out') + i]
      <4>1. /\ Len(inn) = Len(old) - Len(out')
            /\ \A i \in 1 .. Len(inn) : inn[i] = old[Len(out') + i]
        BY <1>2, <2>1, <3>3
      <4>2. Len(inn') = Len(wri) - Len(out')
        BY <1>2, <1>3, <1>5, <1>6, <1>7, <4>1
      <4>3. ASSUME NEW i \in 1 .. Len(inn') PROVE inn'[i] = wri[Len(out') + i]
        <5>1. CASE i <= Len(inn)
          <6>1. i \in 1 .. Len(inn) /\ Len(out') + i \in 1 .. Len(old)
            BY <1>2, <1>3, <4>1, <5>1
          <6>2. QED
            BY <1>5, <1>7, <4>1, <5>1, <6>1
        <5>2. CASE ~(i <= Len(inn))
          <6>1. /\ i - Len(inn) \in 1 .. Len(new)
                /\ Len(old) + (i - Len(inn)) = Len(out') + i
            BY <1>2, <1>3, <1>6, <1>7, <4>1, <5>2, SMTT(30)
          <6>2. QED
            BY <1>6, <1>7, <5>2, <6>1
        <5>3. QED
          BY <5>1, <5>2
      <4>4. QED
        BY <4>2, <4>3
    <3>4. QED
      BY <1>1, <1>4, <2>1, <3>1, <3>2, <3>3 DEF Pipes
  <2>2. CASE ~pir'.liv
    <3>1. /\ ~pir.liv /\ out' = out /\ old = pir.wri
      BY <1>2, <2>2
    <3>2. /\ Len(out) = 1 /\ out[1].typ = "ripe" /\ out[1].eve <= Len(hst)
          /\ \A i \in 1 .. Len(old) : old[i].typ = "exit"
          /\ srf => inn = old
      BY <1>1, <3>1 DEF PInv, Pipes
    <3>3. \A i \in 1 .. Len(wri) : wri[i].typ = "exit"
      <4>1. TAKE i \in 1 .. Len(wri)
      <4>2. CASE i <= Len(old)
        BY <1>2, <1>5, <3>2, <4>2, SMTT(30)
      <4>3. CASE ~(i <= Len(old))
        <5>1. i \in Len(old) + 1 .. Len(wri)
          BY <1>2, <1>5, <4>3
        <5>2. QED
          BY <1>1, <1>4, <2>2, <5>1 DEF MaySend
      <4>4. QED
        BY <4>2, <4>3
    <3>4. srf => inn' = wri
      <4>1. SUFFICES ASSUME srf PROVE inn' = wri
        OBVIOUS
      <4>2. inn = old /\ Len(inn') = Len(wri)
        BY <1>2, <1>3, <1>5, <1>6, <1>7, <3>2, <4>1
      <4>3. \A i \in 1 .. Len(wri) : inn'[i] = wri[i]
        <5>1. TAKE i \in 1 .. Len(wri)
        <5>2. CASE i <= Len(inn)
          BY <1>3, <1>5, <1>7, <4>2, <5>2
        <5>3. CASE ~(i <= Len(inn))
          <6>1. i - Len(inn) \in 1 .. Len(new) /\ Len(old) + (i - Len(inn)) = i
            BY <1>2, <1>3, <1>5, <1>6, <4>2, <5>3
          <6>2. QED
            BY <1>6, <1>7, <4>2, <5>3, <6>1
        <5>4. QED
          BY <5>2, <5>3
      <4>4. QED
        BY <1>4, <1>7, <4>2, <4>3
    <3>5. QED
      BY <1>1, <1>4, <2>2, <3>1, <3>2, <3>3, <3>4 DEF Pipes
  <2>3. QED
    BY <2>1, <2>2
<1>10. QED
  BY <1>2, <1>7, <1>8, <1>9

(* A callback keeps the invariant if it keeps what is the king's own.      *)
LEMMA KingStepInv ==
  ASSUME PInv, NEW old, KingStep(old), KingTypes, pir'.sat # "down",
         LogGood', KingGood', PlayGood', EffectsGood'
  PROVE  PInv'
<1>1. /\ pir.sat # "down" /\ UNCHANGED <<db, srf, hst, chk>> /\ Gulf' = Gulf
      /\ pir' \in Piers /\ LogFits /\ Keeps(old)
  BY DEF KingStep, KingTypes, Gulf
<1>2. /\ Pipes' /\ inn' \in Seq(Writs) /\ out' \in Seq(Pleas)
      /\ \A i \in 1 .. Len(inn') :
           (i \in 1 .. Len(inn) /\ inn'[i] = inn[i]) \/ MaySend(inn'[i])
  BY <1>1, KingPipes
<1>3. TypeOK'
  BY <1>1, <1>2 DEF PInv, TypeOK, KingTypes, LogGood, Core
<1>4. QueuesGood'
  <2>1. /\ Len(old) \in Nat
        /\ \A i \in 1 .. Len(old) :
             /\ WritGood(old[i])
             /\ old[i].typ = "work" => pir.sat = "wyrd" \/ pir.wok
    BY <1>1, KeepsIs
  <2>2. pir'.wri \in Seq(Writs) /\ Len(pir'.wri) \in Nat
    BY <1>1 DEF Piers
  <2>3. ASSUME NEW i \in 1 .. Len(pir'.wri)
        PROVE  /\ WritGood(pir.wri[i])'
               /\ pir'.wri[i].typ = "work" => pir'.sat = "wyrd" \/ pir'.wok
    <3>1. CASE i <= Len(old)
      <4>1. i \in 1 .. Len(old) /\ old # <<>> /\ pir'.wri[i] = old[i]
        BY <2>1, <3>1 DEF KingStep, Sends
      <4>2. QED
        BY <1>1, <2>1, <4>1 DEF KingStep, WritGood
    <3>2. CASE ~(i <= Len(old))
      <4>1. i \in Len(old) + 1 .. Len(pir'.wri)
        BY <2>1, <2>2, <3>2
      <4>2. MaySend(pir'.wri[i])
        BY <4>1 DEF KingStep
      <4>3. QED
        BY <1>1, <4>2 DEF MaySend, WritGood
    <3>3. QED
      BY <3>1, <3>2
  <2>4. QED
    BY <2>3 DEF QueuesGood, KingStep
<1>5. NewGood'
  BY <1>1 DEF PInv, NewGood, KingStep
<1>6. WorkerGood'
  <2>1. /\ SnapshotInLog /\ \A e \in 1 .. Len(hst) : e <= Gulf => hst[e] = db[e]
    BY DEF PInv, WorkerGood
  <2>2. liv' => \A e \in 1 .. Len(hst) : e <= sen' => hst[e] = Seen(e)'
    BY <1>1 DEF LogFits
  <2>3. ASSUME srf, NEW i \in 1 .. Len(inn')
        PROVE  /\ WritGood(inn[i])'
               /\ inn'[i].typ = "work" =>
                    Gulf <= Len(hst) /\ (liv' => sen' <= Len(hst))
    <3>1. CASE MaySend(inn'[i])
      BY <1>1, <3>1 DEF MaySend, WritGood
    <3>2. CASE i \in 1 .. Len(inn) /\ inn'[i] = inn[i]
      <4>1. /\ WritGood(inn[i])
            /\ inn[i].typ = "work" => Gulf <= Len(hst) /\ (liv => sen <= Len(hst))
        BY <2>3, <3>2 DEF PInv, WorkerGood
      <4>2. QED
        BY <1>1, <3>2, <4>1 DEF LogFits, WritGood
    <3>3. QED
      BY <1>2, <3>1, <3>2
  <2>4. QED
    BY <1>1, <2>1, <2>2, <2>3 DEF WorkerGood, SnapshotInLog
<1>7. QED
  BY <1>2, <1>3, <1>4, <1>5, <1>6 DEF PInv

-----------------------------------------------------------------------------
(* _pier_work() *)

(* What no part of it changes. *)
Alike(p, q) == q.sat = p.sat /\ q.liv = p.liv /\ q.eve = p.eve

(* The fields of the king's memory. *)
LEMMA PierFields ==
  ASSUME NEW p \in Piers
  PROVE  /\ p.sat \in States \cup {"down"} /\ p.liv \in BOOLEAN /\ p.eve \in Nat
         /\ p.wri \in Seq(Writs) /\ Len(p.wri) \in Nat /\ p.wok \in BOOLEAN
         /\ p.gif \in Seq(Fact) /\ Len(p.gif) \in Nat /\ p.rel \in Nat
         /\ p.wal \in Seq({"save", "exit"}) /\ Len(p.wal) \in Nat
         /\ p.ova \in Seq(Job) /\ Len(p.ova) \in Nat /\ p.pec \in Nat
         /\ p.pin \in BOOLEAN
<1>1. /\ p.sat \in States \cup {"down"} /\ p.liv \in BOOLEAN /\ p.eve \in Nat
      /\ p.wri \in Seq(Writs) /\ p.wok \in BOOLEAN
      /\ p.gif \in Seq(Fact) /\ p.rel \in Nat
      /\ p.wal \in Seq({"save", "exit"})
      /\ p.ova \in Seq(Job) /\ p.pec \in Nat /\ p.pin \in BOOLEAN
  BY DEF Piers
<1>2. QED
  BY <1>1, SMTT(30)

(* _pier_gift_kick(): the effects up to the last committed event go. *)
LEMMA GiftKickIs ==
  ASSUME NEW p \in Piers, NEW n \in 0 .. Len(p.gif), Gap(p.gif, p.rel),
         NEW k, k = GiftKick(p, p.rel + n)
  PROVE  /\ k \in Piers /\ Alike(p, k) /\ k.rel = p.rel + n
         /\ k.wri = p.wri /\ k.wok = p.wok /\ k.wal = p.wal /\ k.ova = p.ova
         /\ k.pec = p.pec
         /\ k.gif \in Seq(Fact) /\ Len(k.gif) = Len(p.gif) - n
         /\ \A i \in 1 .. Len(p.gif) - n : k.gif[i] = p.gif[n + i]
<1>1. p.gif \in Seq(Fact) /\ Len(p.gif) \in Nat /\ p.rel \in Nat
  BY PierFields
<1> DEFINE g == Undone(p.gif, p.rel + n)
           r == IF n = 0 THEN p.rel ELSE p.gif[n].eve
<1>2. /\ g \in Seq(Fact) /\ Len(g) = Len(p.gif) - n
      /\ \A i \in 1 .. Len(p.gif) - n : g[i] = p.gif[n + i]
  BY <1>1, RestIs
<1>3. r = p.rel + n /\ r \in Nat
  BY <1>1 DEF Gap
<1>4. Len(p.gif) - Len(g) = n
  BY <1>1, <1>2
<1>5. k = [p EXCEPT !.gif = g, !.rel = r]
  BY <1>4 DEF GiftKick
<1> HIDE DEF g, r
<1>6. k \in Piers /\ k.gif = g /\ k.rel = r /\ Alike(p, k) /\ k.wri = p.wri
      /\ k.wok = p.wok /\ k.wal = p.wal /\ k.ova = p.ova /\ k.pec = p.pec
  BY <1>1, <1>2, <1>3, <1>5, ZenonT(60) DEF Piers, Alike
<1>7. QED
  BY <1>2, <1>3, <1>6

(* A writ planned at the end of the queue. *)
LEMMA LordPlanIs ==
  ASSUME NEW p \in Piers, NEW w \in Writs, NEW q, q = LordPlan(p, w)
  PROVE  /\ q \in Piers /\ Alike(p, q) /\ q.rel = p.rel /\ q.wok = p.wok
         /\ q.gif = p.gif /\ q.wal = p.wal /\ q.ova = p.ova /\ q.pec = p.pec
         /\ Len(q.wri) = Len(p.wri) + 1 /\ q.wri[Len(p.wri) + 1] = w
         /\ \A i \in 1 .. Len(p.wri) : q.wri[i] = p.wri[i]
<1>1. p.wri \in Seq(Writs) /\ p.pin \in BOOLEAN
  BY PierFields
<1> DEFINE s == Append(p.wri, w)
           b == p.pin \/ w.typ = "work"
<1>2. /\ s \in Seq(Writs) /\ Len(s) = Len(p.wri) + 1 /\ s[Len(p.wri) + 1] = w
      /\ \A i \in 1 .. Len(p.wri) : s[i] = p.wri[i]
  BY <1>1
<1>3. b \in BOOLEAN
  BY <1>1
<1>4. q = [p EXCEPT !.wri = s, !.pin = b]
  BY DEF LordPlan
<1> HIDE DEF s, b
<1>5. /\ q \in Piers /\ Alike(p, q) /\ q.rel = p.rel /\ q.wok = p.wok
      /\ q.gif = p.gif /\ q.wal = p.wal /\ q.ova = p.ova /\ q.pec = p.pec
      /\ q.wri = s
  BY <1>2, <1>3, <1>4, ZenonT(60) DEF Piers, Alike
<1>6. QED
  BY <1>2, <1>5

(* The writs of _pier_work(): a snapshot only of what is committed, and    *)
(* new events only in the work state.                                      *)
WorkWrit(p, d, w) ==
  /\ w.typ \in {"work", "peek", "save", "exit"}
  /\ w.typ = "work" => p.sat = "work" /\ \E o \in Ovum : w.job = <<o>>
  /\ w.typ = "save" => w.eve = d

(* Writs are added behind queue s, each of which has the property.         *)
Grows(p, d, s, t) ==
  /\ Len(s) <= Len(t)
  /\ \A i \in 1 .. Len(s) : t[i] = s[i]
  /\ \A i \in Len(s) + 1 .. Len(t) : WorkWrit(p, d, t[i])

(* A writ without events. *)
LEMMA WritIs ==
  ASSUME NEW t \in WritType, NEW e \in Nat
  PROVE  /\ Writ(t, e, <<>>) \in Writs
         /\ Writ(t, e, <<>>).typ = t /\ Writ(t, e, <<>>).eve = e
<1>1. <<>> \in Seq(Job)
  OBVIOUS
<1>2. QED
  BY <1>1 DEF Writ, Writs

(* The barrier that _pier_wall() runs is the last. *)
Stops(p, d) == Walled(p, d) /\ p.wal[1] = "exit"

(* Every member of t is one of s. *)
Drawn(s, t) == \A i \in 1 .. Len(t) : \E j \in 1 .. Len(s) : t[i] = s[j]

(* _pier_wall(): at most one writ; the last barrier takes the u3_work. *)
LEMMA WallIs ==
  ASSUME NEW p \in Piers, NEW d \in Nat, NEW w, w = Wall(p, d)
  PROVE  /\ w \in Piers /\ Alike(p, w) /\ w.rel = p.rel
         /\ Grows(p, d, p.wri, w.wri)
         /\ \/ /\ w.wok = p.wok /\ w.gif = p.gif /\ w.ova = p.ova
               /\ ~Stops(p, d)
            \/ /\ ~w.wok /\ w.gif = <<>> /\ w.ova = <<>>
               /\ Stops(p, d)
         /\ Drawn(p.wal, w.wal)
<1>1. /\ p.wri \in Seq(Writs) /\ p.wal \in Seq({"save", "exit"}) /\ p.eve \in Nat
      /\ Len(p.wri) \in Nat
  BY PierFields
<1>2. CASE ~Walled(p, d)
  <2>1. w = p
    BY <1>2 DEF Wall
  <2>2. QED
    BY <1>1, <1>2, <2>1 DEF Alike, Grows, Stops, Drawn
<1>3. CASE Walled(p, d)
  <2>1. /\ p.eve = d /\ p.wal # <<>> /\ p.wri = <<>> /\ p.wal[1] \in {"save", "exit"}
        /\ Tail(p.wal) \in Seq({"save", "exit"})
        /\ \A i \in 1 .. Len(Tail(p.wal)) :
             i + 1 \in 1 .. Len(p.wal) /\ Tail(p.wal)[i] = p.wal[i + 1]
    BY <1>1, <1>3 DEF Walled
  <2>2. CASE p.wal[1] = "save"
    <3> DEFINE a == [p EXCEPT !.wal = Tail(p.wal)]
               x == Writ("save", p.eve, <<>>)
    <3>1. /\ a \in Piers /\ Alike(p, a) /\ a.rel = p.rel /\ a.wri = p.wri
          /\ a.wok = p.wok /\ a.gif = p.gif /\ a.ova = p.ova /\ a.wal = Tail(p.wal)
      BY <2>1 DEF Piers, Alike
    <3>2. x \in Writs /\ x.typ = "save" /\ x.eve = d
      BY <1>1, <2>1, WritIs DEF WritType
    <3>3. w = LordPlan(a, x)
      <4>1. w = LordLive(a, "save")
        BY <1>3, <2>2 DEF Wall
      <4>2. a.wri = <<>> /\ a.eve = p.eve
        BY <2>1, <3>1 DEF Alike
      <4>3. QED
        BY <4>1, <4>2 DEF LordLive
    <3> HIDE DEF a, x
    <3>4. /\ w \in Piers /\ Alike(a, w) /\ w.rel = a.rel /\ w.wok = a.wok
          /\ w.gif = a.gif /\ w.wal = a.wal /\ w.ova = a.ova
          /\ Len(w.wri) = Len(a.wri) + 1 /\ w.wri[Len(a.wri) + 1] = x
          /\ \A i \in 1 .. Len(a.wri) : w.wri[i] = a.wri[i]
      BY <3>1, <3>2, <3>3, LordPlanIs, SMTT(30)
    <3>5. Grows(p, d, p.wri, w.wri)
      BY <1>1, <3>1, <3>2, <3>4 DEF Grows, WorkWrit
    <3>6. QED
      BY <2>1, <2>2, <3>1, <3>4, <3>5 DEF Alike, Stops, Drawn
  <2>3. CASE p.wal[1] = "exit"
    <3> DEFINE a == [p EXCEPT !.wal = Tail(p.wal), !.wok = FALSE,
                              !.gif = <<>>, !.ova = <<>>]
               x == Writ("exit", 0, <<>>)
    <3>1. /\ a \in Piers /\ Alike(p, a) /\ a.rel = p.rel /\ a.wri = p.wri
          /\ a.wok = FALSE /\ a.gif = <<>> /\ a.ova = <<>> /\ a.wal = Tail(p.wal)
      <4>1. <<>> \in Seq(Fact) /\ <<>> \in Seq(Job)
        OBVIOUS
      <4>2. QED
        BY <2>1, <4>1 DEF Piers, Alike
    <3>2. x \in Writs /\ x.typ = "exit"
      BY WritIs DEF WritType
    <3>3. w = LordPlan(a, x)
      BY <1>3, <2>3 DEF Wall
    <3> HIDE DEF a, x
    <3>4. /\ w \in Piers /\ Alike(a, w) /\ w.rel = a.rel /\ w.wok = a.wok
          /\ w.gif = a.gif /\ w.wal = a.wal /\ w.ova = a.ova
          /\ Len(w.wri) = Len(a.wri) + 1 /\ w.wri[Len(a.wri) + 1] = x
          /\ \A i \in 1 .. Len(a.wri) : w.wri[i] = a.wri[i]
      BY <3>1, <3>2, <3>3, LordPlanIs, SMTT(30)
    <3>5. Grows(p, d, p.wri, w.wri)
      BY <1>1, <3>1, <3>2, <3>4 DEF Grows, WorkWrit
    <3>6. QED
      BY <1>3, <2>1, <2>3, <3>1, <3>4, <3>5 DEF Alike, Stops, Drawn
  <2>4. QED
    BY <2>1, <2>2, <2>3
<1>4. QED
  BY <1>2, <1>3

(* _pier_work_send() takes no more ova and scries than there are. *)
LEMMA EggsIs ==
  ASSUME NEW p \in Piers, NEW k \in 0 .. Len(p.ova) + p.pec
  PROVE  Eggs(p, k) \in 0 .. Len(p.ova) /\ k - Eggs(p, k) \in 0 .. p.pec
<1>1. Len(p.ova) \in Nat /\ p.pec \in Nat /\ k \in Nat
  BY PierFields
<1> DEFINE both == Lesser(Len(p.ova), p.pec)
<1>2. /\ both \in Nat /\ both <= Len(p.ova) /\ both <= p.pec
      /\ both = Len(p.ova) \/ both = p.pec
  BY <1>1 DEF Lesser
<1> HIDE DEF both
<1>3. CASE k <= 2 * both
  <2>1. Eggs(p, k) = (k + 1) \div 2
    BY <1>1, <1>2, <1>3 DEF Eggs, both
  <2>2. /\ (k + 1) \div 2 \in Nat
        /\ 2 * ((k + 1) \div 2) <= k + 1 /\ k <= 2 * ((k + 1) \div 2)
    BY <1>1
  <2>3. QED
    BY <1>1, <1>2, <1>3, <2>1, <2>2
<1>4. CASE k > 2 * both /\ Len(p.ova) > both
  <2>1. Eggs(p, k) = k - both
    BY <1>1, <1>2, <1>4 DEF Eggs, both
  <2>2. QED
    BY <1>1, <1>2, <1>4, <2>1
<1>5. CASE k > 2 * both /\ Len(p.ova) <= both
  <2>1. Eggs(p, k) = both
    BY <1>1, <1>2, <1>5 DEF Eggs, both
  <2>2. QED
    BY <1>1, <1>2, <1>5, <2>1
<1>6. QED
  BY <1>1, <1>2, <1>3, <1>4, <1>5

(* _pier_work_send(): ova and scry requests behind the queue. *)
LEMMA WorkSendIs ==
  ASSUME NEW p \in Piers, NEW d \in Nat, p.sat = "work",
         \A i \in 1 .. Len(p.ova) : p.ova[i] \in Ovum,
         NEW q, q = WorkSend(p)
  PROVE  /\ q \in Piers /\ Alike(p, q) /\ q.rel = p.rel /\ q.wok = p.wok
         /\ q.gif = p.gif /\ q.wal = p.wal
         /\ Grows(p, d, p.wri, q.wri)
         /\ \A i \in 1 .. Len(q.ova) : q.ova[i] \in Ovum
<1>1. /\ Len(p.ova) \in Nat /\ p.pec \in Nat /\ p.wri \in Seq(Writs)
      /\ Len(p.wri) \in Nat /\ p.ova \in Seq(Job) /\ p.pin \in BOOLEAN
  BY PierFields
<1> DEFINE n == Lesser(WorkLen(p), Len(p.ova) + p.pec)
           writ(k) == IF Eggs(p, k) > Eggs(p, k - 1)
                      THEN Writ("work", 0, <<p.ova[Eggs(p, k)]>>)
                      ELSE Writ("peek", 0, <<>>)
           sent == [k \in 1 .. n |-> writ(k)]
           rest == SubSeq(p.ova, Eggs(p, n) + 1, Len(p.ova))
           pec == p.pec - (n - Eggs(p, n))
           pin == p.pin \/ Eggs(p, n) > 0
           wri == p.wri \o sent
<1>2. n \in 0 .. Len(p.ova) + p.pec
  <2>1. WorkLen(p) \in Nat
    BY <1>1, PierAssumption, SMTT(30) DEF WorkLen, Greater
  <2>2. QED
    BY <1>1, <2>1 DEF Lesser
<1>3. q = [p EXCEPT !.wri = wri, !.pin = pin, !.ova = rest, !.pec = pec]
  BY DEF WorkSend
<1>4. Eggs(p, n) \in 0 .. Len(p.ova) /\ n - Eggs(p, n) \in 0 .. p.pec
  BY <1>2, EggsIs
<1> HIDE DEF n
<1>5. ASSUME NEW k \in 1 .. n
      PROVE  writ(k) \in Writs /\ WorkWrit(p, d, writ(k))
  <2>1. k \in 0 .. Len(p.ova) + p.pec /\ k - 1 \in 0 .. Len(p.ova) + p.pec
    BY <1>1, <1>2
  <2>2. Eggs(p, k) \in 0 .. Len(p.ova) /\ Eggs(p, k - 1) \in 0 .. Len(p.ova)
    BY <2>1, EggsIs
  <2>3. CASE Eggs(p, k) > Eggs(p, k - 1)
    <3>1. Eggs(p, k) \in 1 .. Len(p.ova)
      BY <1>1, <2>2, <2>3
    <3>2. PICK o \in Ovum : o = p.ova[Eggs(p, k)]
      BY <3>1
    <3>3. <<o>> \in Seq(Job)
      BY <3>2, OvumIs
    <3>4. writ(k) = Writ("work", 0, <<o>>)
      BY <2>3, <3>2
    <3>5. QED
      BY <3>3, <3>4 DEF Writ, Writs, WritType, WorkWrit
  <2>4. CASE ~(Eggs(p, k) > Eggs(p, k - 1))
    <3>1. writ(k) = Writ("peek", 0, <<>>)
      BY <2>4
    <3>2. QED
      BY <3>1, WritIs DEF WritType, WorkWrit
  <2>5. QED
    BY <2>3, <2>4
<1> HIDE DEF writ
<1>6. sent \in Seq(Writs) /\ Len(sent) = n /\ \A k \in 1 .. n : sent[k] = writ(k)
  BY <1>1, <1>2, <1>5
<1>7. rest \in Seq(Job) /\ \A i \in 1 .. Len(rest) : rest[i] \in Ovum
  <2>1. /\ rest \in Seq(Job) /\ Len(rest) = Len(p.ova) - Eggs(p, n)
        /\ \A i \in 1 .. Len(rest) : rest[i] = p.ova[Eggs(p, n) + i]
    <3>1. PICK m \in 0 .. Len(p.ova) : m = Eggs(p, n)
      BY <1>4
    <3>2. /\ SubSeq(p.ova, m + 1, Len(p.ova)) \in Seq(Job)
          /\ Len(SubSeq(p.ova, m + 1, Len(p.ova))) = Len(p.ova) - m
          /\ \A i \in 1 .. Len(p.ova) - m :
               SubSeq(p.ova, m + 1, Len(p.ova))[i] = p.ova[m + i]
      BY <1>1
    <3>3. QED
      BY <3>1, <3>2, SMTT(30)
  <2>2. \A i \in 1 .. Len(rest) : Eggs(p, n) + i \in 1 .. Len(p.ova)
    BY <1>1, <1>4, <2>1, SMTT(30)
  <2>3. QED
    BY <2>1, <2>2
<1>8. pec \in Nat /\ pin \in BOOLEAN
  BY <1>1, <1>4
<1> HIDE DEF sent, rest, pec, pin
<1>9. /\ wri \in Seq(Writs) /\ Len(wri) = Len(p.wri) + n
      /\ \A i \in 1 .. Len(p.wri) + n :
           wri[i] = IF i <= Len(p.wri) THEN p.wri[i] ELSE sent[i - Len(p.wri)]
  <2>1. n \in Nat
    BY <1>1, <1>2
  <2>2. QED
    BY <1>1, <1>6, <2>1, ConcatProperties, ZenonT(60)
<1> HIDE DEF wri
<1>10. Grows(p, d, p.wri, wri)
  <2>1. Len(p.wri) <= Len(wri) /\ \A i \in 1 .. Len(p.wri) : wri[i] = p.wri[i]
    BY <1>1, <1>2, <1>9, SMTT(30)
  <2>2. ASSUME NEW i \in Len(p.wri) + 1 .. Len(wri) PROVE WorkWrit(p, d, wri[i])
    <3>1. i - Len(p.wri) \in 1 .. n /\ i \in 1 .. Len(p.wri) + n /\ ~(i <= Len(p.wri))
      BY <1>1, <1>2, <1>9
    <3>2. wri[i] = writ(i - Len(p.wri))
      BY <1>6, <1>9, <3>1
    <3>3. QED
      BY <1>5, <3>1, <3>2
  <2>3. QED
    BY <2>1, <2>2 DEF Grows
<1>11. /\ q \in Piers /\ Alike(p, q) /\ q.rel = p.rel /\ q.wok = p.wok
       /\ q.gif = p.gif /\ q.wal = p.wal /\ q.wri = wri /\ q.ova = rest
  BY <1>3, <1>7, <1>8, <1>9, ZenonT(60) DEF Piers, Alike
<1>12. QED
  BY <1>7, <1>10, <1>11

(* Writs added in two parts. *)
LEMMA GrowsOn ==
  ASSUME NEW p, NEW q, q.sat = p.sat, NEW d, NEW s \in Seq(Writs),
         NEW t \in Seq(Writs), NEW u \in Seq(Writs),
         Grows(p, d, s, t), Grows(q, d, t, u)
  PROVE  Grows(p, d, s, u)
<1>1. Len(s) \in Nat /\ Len(t) \in Nat /\ Len(u) \in Nat
  OBVIOUS
<1>2. Len(s) <= Len(u)
  BY <1>1 DEF Grows
<1>3. \A i \in 1 .. Len(s) : u[i] = s[i]
  BY <1>1 DEF Grows
<1>4. ASSUME NEW i \in Len(s) + 1 .. Len(u) PROVE WorkWrit(p, d, u[i])
  <2>1. CASE i <= Len(t)
    <3>1. i \in 1 .. Len(t) /\ i \in Len(s) + 1 .. Len(t)
      BY <1>1, <2>1
    <3>2. u[i] = t[i] /\ WorkWrit(p, d, t[i])
      BY <3>1 DEF Grows
    <3>3. QED
      BY <3>2
  <2>2. CASE ~(i <= Len(t))
    <3>1. i \in Len(t) + 1 .. Len(u)
      BY <1>1, <2>2
    <3>2. WorkWrit(q, d, u[i])
      BY <3>1, SMTT(30) DEF Grows
    <3>3. QED
      BY <3>2 DEF WorkWrit
  <2>3. QED
    BY <2>1, <2>2
<1>5. QED
  BY <1>2, <1>3, <1>4 DEF Grows

(* _pier_work() as a whole: effects up to d are released, at most one      *)
(* barrier runs, new work is sent; only the last barrier takes the u3_work.*)
LEMMA WorkIs ==
  ASSUME NEW p \in Piers, NEW n \in 0 .. Len(p.gif), NEW d, d = p.rel + n,
         Gap(p.gif, p.rel), \A i \in 1 .. Len(p.ova) : p.ova[i] \in Ovum,
         \A i \in 1 .. Len(p.wal) : p.wal[i] = "exit" => p.sat = "done",
         Work(p, d)
  PROVE  /\ pir' \in Piers /\ Alike(p, pir') /\ pir'.rel = d
         /\ Grows(p, d, p.wri, pir'.wri)
         /\ inn' = inn \o SubSeq(pir'.wri, Len(p.wri) + 1, Len(pir'.wri))
         /\ fx' = fx \o SubSeq(p.gif, 1, n)
         /\ \A i \in 1 .. Len(pir'.ova) : pir'.ova[i] \in Ovum
         /\ \A i \in 1 .. Len(pir'.wal) : pir'.wal[i] = "exit" => p.sat = "done"
         /\ \/ /\ pir'.wok = p.wok /\ ~Stops(p, d)
               /\ Len(pir'.gif) = Len(p.gif) - n
               /\ \A i \in 1 .. Len(p.gif) - n : pir'.gif[i] = p.gif[n + i]
            \/ /\ ~pir'.wok /\ pir'.gif = <<>> /\ p.sat = "done"
               /\ Stops(p, d)
<1>1. d \in Nat
  BY PierFields, SMTT(30)
<1>2. PICK k \in {GiftKick(p, d)} :
      \E w \in {Wall(k, d)} :
      \E q \in {IF w.sat = "work" THEN WorkSend(w) ELSE w} :
        /\ pir' = q
        /\ inn' = inn \o SubSeq(q.wri, Len(p.wri) + 1, Len(q.wri))
        /\ fx' = fx \o SubSeq(p.gif, 1, Len(p.gif) - Len(k.gif))
  BY DEF Work
<1>3. PICK w \in {Wall(k, d)} :
      \E q \in {IF w.sat = "work" THEN WorkSend(w) ELSE w} :
        /\ pir' = q
        /\ inn' = inn \o SubSeq(q.wri, Len(p.wri) + 1, Len(q.wri))
        /\ fx' = fx \o SubSeq(p.gif, 1, Len(p.gif) - Len(k.gif))
  BY <1>2
<1>4. PICK q \in {IF w.sat = "work" THEN WorkSend(w) ELSE w} :
        /\ pir' = q
        /\ inn' = inn \o SubSeq(q.wri, Len(p.wri) + 1, Len(q.wri))
        /\ fx' = fx \o SubSeq(p.gif, 1, Len(p.gif) - Len(k.gif))
  BY <1>3
<1>5. /\ k \in Piers /\ Alike(p, k) /\ k.rel = d
      /\ k.wri = p.wri /\ k.wok = p.wok /\ k.wal = p.wal /\ k.ova = p.ova
      /\ k.gif \in Seq(Fact) /\ Len(k.gif) = Len(p.gif) - n
      /\ \A i \in 1 .. Len(p.gif) - n : k.gif[i] = p.gif[n + i]
  <2>1. k = GiftKick(p, p.rel + n)
    BY <1>2
  <2>2. QED
    BY <2>1, GiftKickIs, ZenonT(60)
<1>6. /\ w \in Piers /\ Alike(k, w) /\ w.rel = k.rel
      /\ Grows(k, d, k.wri, w.wri)
      /\ \/ /\ w.wok = k.wok /\ w.gif = k.gif /\ w.ova = k.ova
            /\ ~Stops(k, d)
         \/ /\ ~w.wok /\ w.gif = <<>> /\ w.ova = <<>>
            /\ Stops(k, d)
      /\ Drawn(k.wal, w.wal)
  <2>1. w = Wall(k, d) /\ k \in Piers /\ d \in Nat
    BY <1>1, <1>3, <1>5
  <2>2. /\ w \in Piers /\ Alike(k, w) /\ w.rel = k.rel
        /\ Grows(k, d, k.wri, w.wri)
    BY <2>1, WallIs
  <2>3. \/ /\ w.wok = k.wok /\ w.gif = k.gif /\ w.ova = k.ova
           /\ ~Stops(k, d)
        \/ /\ ~w.wok /\ w.gif = <<>> /\ w.ova = <<>>
           /\ Stops(k, d)
    BY <2>1, WallIs, ZenonT(60)
  <2>4. Drawn(k.wal, w.wal)
    BY <2>1, WallIs
  <2>5. QED
    BY <2>2, <2>3, <2>4
<1>7. \A i \in 1 .. Len(w.ova) : w.ova[i] \in Ovum
  <2>1. w.ova = p.ova \/ w.ova = <<>>
    BY <1>5, <1>6
  <2>2. QED
    BY <2>1
<1>8. /\ q \in Piers /\ Alike(w, q) /\ q.rel = w.rel /\ q.wok = w.wok
      /\ q.gif = w.gif /\ q.wal = w.wal
      /\ Grows(w, d, w.wri, q.wri)
      /\ \A i \in 1 .. Len(q.ova) : q.ova[i] \in Ovum
  <2>1. CASE w.sat = "work"
    <3>1. q = WorkSend(w)
      BY <1>4, <2>1
    <3>2. QED
      BY <1>6, <1>7, <2>1, <3>1, <1>1, WorkSendIs, SMTT(30)
  <2>2. CASE w.sat # "work"
    <3>1. q = w
      BY <1>4, <2>2
    <3>2. Len(w.wri) \in Nat
      BY <1>6, PierFields
    <3>3. QED
      BY <1>6, <1>7, <3>1, <3>2, SMTT(30) DEF Alike, Grows
  <2>3. QED
    BY <2>1, <2>2
<1>9. Alike(p, q) /\ w.sat = p.sat /\ k.sat = p.sat
  BY <1>5, <1>6, <1>8 DEF Alike
<1>10. Grows(p, d, p.wri, q.wri)
  <2>1. p.wri \in Seq(Writs) /\ w.wri \in Seq(Writs) /\ q.wri \in Seq(Writs)
    BY <1>6, <1>8, PierFields
  <2>2. Grows(k, d, p.wri, w.wri) /\ Grows(w, d, w.wri, q.wri)
    BY <1>5, <1>6, <1>8
  <2>3. Grows(k, d, p.wri, q.wri)
    BY <1>9, <2>1, <2>2, GrowsOn, SMTT(30)
  <2>4. QED
    BY <1>9, <2>3 DEF Grows, WorkWrit
<1>11. \A i \in 1 .. Len(q.wal) : q.wal[i] = "exit" => p.sat = "done"
  <2>1. \A i \in 1 .. Len(w.wal) : \E j \in 1 .. Len(p.wal) : w.wal[i] = p.wal[j]
    BY <1>5, <1>6, SMTT(30) DEF Drawn
  <2>2. q.wal = w.wal
    BY <1>8
  <2>3. QED
    BY <2>1, <2>2
<1>12. Len(p.gif) - Len(k.gif) = n
  <2>1. Len(p.gif) \in Nat /\ p.rel \in Nat
    BY PierFields
  <2>2. QED
    BY <1>5, <2>1
<1>13. CASE w.wok = k.wok /\ w.gif = k.gif /\ ~Stops(k, d)
  <2>0. ~Stops(p, d)
    BY <1>5, <1>13 DEF Stops, Walled, Alike
  <2>1. /\ q.wok = p.wok /\ q.gif = k.gif /\ q.rel = d
    BY <1>5, <1>6, <1>8, <1>13
  <2>2. fx' = fx \o SubSeq(p.gif, 1, n)
    BY <1>4, <1>12
  <2>3. QED
    BY <1>4, <1>5, <1>8, <1>9, <1>10, <1>11, <1>12, <2>0, <2>1, <2>2
<1>14. CASE ~w.wok /\ w.gif = <<>> /\ Stops(k, d)
  <2>1. Stops(p, d)
    BY <1>5, <1>14 DEF Stops, Walled, Alike
  <2>2. p.sat = "done"
    <3>1. p.wal \in Seq({"save", "exit"}) /\ p.wal # <<>>
      BY <2>1, PierFields DEF Stops, Walled
    <3>2. 1 \in 1 .. Len(p.wal)
      BY <3>1
    <3>3. QED
      BY <2>1, <3>2 DEF Stops
  <2>3. QED
    BY <1>4, <1>5, <1>6, <1>8, <1>9, <1>10, <1>11, <1>12, <1>14, <2>1, <2>2
<1>15. QED
  BY <1>6, <1>13, <1>14

(* The state p from which a callback calls _pier_work(), when the log has  *)
(* taken its part of the step.                                             *)
WorkFrom(p, d, r) ==
  /\ pir.wok /\ p.wok /\ p.sat = pir.sat /\ p.liv = pir.liv
  /\ p.rel = r /\ pir.rel = r /\ p.wal = pir.wal /\ p.ova = pir.ova
  /\ d = dun' /\ r <= d /\ d <= p.eve /\ p.eve = sen' /\ p.eve <= Len(hst)
  /\ Len(p.gif) = p.eve - r
  /\ \A i \in 1 .. Len(p.gif) :
       p.gif[i].eve = r + i /\ p.gif[i].job = Seen(r + i)'
  /\ \/ out' = out /\ p.wri = pir.wri
     \/ /\ out # <<>> /\ out' = Tail(out)
        /\ pir.wri # <<>> /\ p.wri = Tail(pir.wri)
  /\ UNCHANGED <<db, srf, hst, chk, pay>> /\ meta' = meta
  /\ env' \in Envs /\ env'.new = env.new
  /\ red' = <<>>
  /\ ~liv' => Stops(p, d)

(* Effects are released in order, and only those of committed events. *)
LEMMA Released ==
  ASSUME PInv, NEW p \in Piers, NEW d \in Nat, NEW r \in Nat, Work(p, d),
         WorkFrom(p, d, r), LogGood'
  PROVE  /\ fx' \in Seq(Fact)
         /\ EffectsDurable' /\ EffectsOnce'
         /\ \A i \in 1 .. Len(fx') : fx'[i].eve <= d
<1>1. Gap(p.gif, r) /\ p.gif \in Seq(Fact) /\ Len(p.gif) \in Nat /\ r <= d
      /\ d <= r + Len(p.gif) /\ p.eve \in Nat /\ p.rel = r
  BY PierFields, SMTT(30) DEF WorkFrom, Gap
<1> DEFINE n == d - r
           g == SubSeq(p.gif, 1, n)
<1>2. n \in Nat /\ n <= Len(p.gif)
  BY <1>1
<1>3. fx' = fx \o g
  <2>1. n \in 0 .. Len(p.gif) /\ d = p.rel + n /\ Gap(p.gif, p.rel)
    BY <1>1, <1>2
  <2>2. /\ \A i \in 1 .. Len(p.ova) : p.ova[i] \in Ovum
        /\ \A i \in 1 .. Len(p.wal) : p.wal[i] = "exit" => p.sat = "done"
    BY DEF WorkFrom, PInv, QueuesGood
  <2>3. QED
    BY <2>1, <2>2, WorkIs
<1>4. g \in Seq(Fact) /\ Len(g) = n /\ \A i \in 1 .. n : g[i] = p.gif[i]
  BY <1>1, <1>2
<1> HIDE DEF g
<1>5. /\ fx \in Seq(Fact) /\ Len(fx) \in Nat
      /\ EffectsDurable /\ EffectsOnce /\ \A i \in 1 .. Len(fx) : fx[i].eve <= r
  <2>1. fx \in Seq(Fact)
    BY DEF PInv, TypeOK
  <2>2. QED
    BY <2>1 DEF PInv, EffectsGood, GiftsGood, WorkFrom
<1>6. /\ fx' \in Seq(Fact) /\ Len(fx') = Len(fx) + n
      /\ \A i \in 1 .. Len(fx) + n :
           fx'[i] = IF i <= Len(fx) THEN fx[i] ELSE g[i - Len(fx)]
  <2>1. Len(g) \in Nat /\ g \in Seq(Fact) /\ Len(g) = n
    BY <1>2, <1>4
  <2>2. /\ fx \o g \in Seq(Fact) /\ Len(fx \o g) = Len(fx) + Len(g)
        /\ \A i \in 1 .. Len(fx) + Len(g) :
             (fx \o g)[i] = IF i <= Len(fx) THEN fx[i] ELSE g[i - Len(fx)]
    BY <1>5, <2>1, ConcatProperties
  <2>3. QED
    BY <1>3, <2>1, <2>2
<1>7. db' = db /\ dun' = d /\ DOMAIN db' = 1 .. Gulf' /\ d <= Gulf' /\ Gulf' \in Nat
  BY DEF WorkFrom, LogGood, Core, AckIsDurable, LogContiguous
<1>8. ASSUME NEW i \in 1 .. Len(fx'), ~(i <= Len(fx))
      PROVE  /\ fx'[i].eve = r + (i - Len(fx)) /\ fx'[i].eve <= d /\ r < fx'[i].eve
             /\ fx'[i].eve \in DOMAIN db' /\ db'[fx'[i].eve] = fx'[i].job
  <2>1. i - Len(fx) \in 1 .. n /\ i - Len(fx) \in 1 .. Len(p.gif)
        /\ i \in 1 .. Len(fx) + n
    BY <1>1, <1>2, <1>5, <1>6, <1>8, SMTT(30)
  <2>2. PICK j \in 1 .. n : j = i - Len(fx)
    BY <2>1
  <2>3. fx'[i] = p.gif[j] /\ j \in 1 .. Len(p.gif)
    BY <1>4, <1>6, <1>8, <2>1, <2>2
  <2>4. p.gif[j].eve = r + j /\ p.gif[j].job = Seen(r + j)'
    BY <2>3 DEF WorkFrom
  <2>5. r + j <= dun' /\ r + j \in 1 .. Gulf' /\ r < r + j
    BY <1>1, <1>2, <1>7, <2>2, SMTT(30)
  <2>6. Seen(r + j)' = db'[r + j]
    BY <2>5 DEF Seen
  <2>7. QED
    BY <1>7, <2>2, <2>3, <2>4, <2>5, <2>6
<1>9. ASSUME NEW i \in 1 .. Len(fx'), i <= Len(fx)
      PROVE  /\ i \in 1 .. Len(fx) /\ fx'[i] = fx[i] /\ fx[i].eve <= r
             /\ fx[i].eve \in Nat
             /\ fx'[i].eve \in DOMAIN db' /\ db'[fx'[i].eve] = fx'[i].job
  <2>1. i \in 1 .. Len(fx) /\ i \in 1 .. Len(fx) + n
    BY <1>5, <1>6, <1>9
  <2>2. fx'[i] = fx[i] /\ fx[i] \in Fact
    BY <1>5, <1>6, <1>9, <2>1
  <2>3. QED
    BY <1>5, <1>7, <2>1, <2>2, SMTT(30) DEF EffectsDurable, Fact
<1>10. EffectsDurable'
  BY <1>8, <1>9 DEF EffectsDurable
<1>11. \A i \in 1 .. Len(fx') : fx'[i].eve <= d
  BY <1>1, <1>8, <1>9, SMTT(30)
<1>12. EffectsOnce'
  <2>1. SUFFICES ASSUME NEW i \in 1 .. Len(fx'), NEW j \in 1 .. Len(fx'), i < j
                 PROVE  fx'[i].eve < fx'[j].eve
    BY DEF EffectsOnce
  <2>2. i \in Nat /\ j \in Nat
    BY <1>6
  <2>3. CASE j <= Len(fx)
    <3>1. i <= Len(fx)
      BY <1>5, <2>1, <2>2, <2>3
    <3>2. QED
      BY <1>5, <1>9, <2>1, <2>3, <3>1 DEF EffectsOnce
  <2>4. CASE ~(j <= Len(fx)) /\ i <= Len(fx)
    BY <1>8, <1>9, <2>4, SMTT(30)
  <2>5. CASE ~(j <= Len(fx)) /\ ~(i <= Len(fx))
    BY <1>5, <1>8, <2>1, <2>2, <2>5
  <2>6. QED
    BY <2>3, <2>4, <2>5
<1>13. QED
  BY <1>6, <1>10, <1>11, <1>12

(* A callback that ends in _pier_work() keeps the invariant. *)
LEMMA WorkInv ==
  ASSUME PInv, NEW p \in Piers, NEW d \in Nat, NEW r \in Nat, Work(p, d),
         WorkFrom(p, d, r), LogGood', LogFits
  PROVE  PInv'
<1>1. /\ pir.wok /\ p.wok /\ p.sat = pir.sat /\ p.liv = pir.liv /\ p.rel = r
      /\ p.wal = pir.wal /\ p.ova = pir.ova
      /\ d = dun' /\ r <= d /\ d <= p.eve /\ p.eve = sen' /\ p.eve <= Len(hst)
      /\ Len(p.gif) = p.eve - r
      /\ UNCHANGED <<db, srf, hst, chk, pay>> /\ meta' = meta
      /\ env' \in Envs /\ env'.new = env.new /\ red' = <<>>
      /\ ~liv' => Stops(p, d)
  BY DEF WorkFrom
<1>2. p.gif \in Seq(Fact) /\ Len(p.gif) \in Nat /\ p.eve \in Nat
      /\ p.wri \in Seq(Writs) /\ Len(p.wri) \in Nat
  BY PierFields
<1>3. PICK n \in 0 .. Len(p.gif) : d = r + n
  <2>1. d - r \in 0 .. Len(p.gif) /\ d = r + (d - r)
    <3>1. r <= d /\ d <= p.eve /\ Len(p.gif) = p.eve - r
      BY <1>1
    <3>2. QED
      BY <1>2, <3>1
  <2>2. QED
    BY <2>1
<1>4. \A i \in 1 .. Len(p.gif) :
        p.gif[i].eve = r + i /\ p.gif[i].job = Seen(r + i)'
  BY DEF WorkFrom
<1>5. /\ \A i \in 1 .. Len(p.ova) : p.ova[i] \in Ovum
      /\ \A i \in 1 .. Len(p.wal) : p.wal[i] = "exit" => p.sat = "done"
  BY <1>1 DEF PInv, QueuesGood
<1>6. Gap(p.gif, p.rel)
  BY <1>1, <1>4 DEF Gap
<1>7. d = p.rel + n
  BY <1>1, <1>3
<1>8. /\ pir' \in Piers /\ Alike(p, pir') /\ pir'.rel = d
      /\ Grows(p, d, p.wri, pir'.wri)
      /\ inn' = inn \o SubSeq(pir'.wri, Len(p.wri) + 1, Len(pir'.wri))
      /\ \A i \in 1 .. Len(pir'.ova) : pir'.ova[i] \in Ovum
      /\ \A i \in 1 .. Len(pir'.wal) : pir'.wal[i] = "exit" => p.sat = "done"
      /\ \/ /\ pir'.wok = p.wok /\ ~Stops(p, d)
            /\ Len(pir'.gif) = Len(p.gif) - n
            /\ \A i \in 1 .. Len(p.gif) - n : pir'.gif[i] = p.gif[n + i]
         \/ /\ ~pir'.wok /\ pir'.gif = <<>> /\ p.sat = "done"
            /\ Stops(p, d)
  <2>1. /\ pir' \in Piers /\ Alike(p, pir') /\ pir'.rel = d
        /\ Grows(p, d, p.wri, pir'.wri)
        /\ inn' = inn \o SubSeq(pir'.wri, Len(p.wri) + 1, Len(pir'.wri))
    BY <1>5, <1>6, <1>7, WorkIs
  <2>2. /\ \A i \in 1 .. Len(pir'.ova) : pir'.ova[i] \in Ovum
        /\ \A i \in 1 .. Len(pir'.wal) : pir'.wal[i] = "exit" => p.sat = "done"
    BY <1>5, <1>6, <1>7, WorkIs
  <2>3. \/ /\ pir'.wok = p.wok /\ ~Stops(p, d)
           /\ Len(pir'.gif) = Len(p.gif) - n
           /\ \A i \in 1 .. Len(p.gif) - n : pir'.gif[i] = p.gif[n + i]
        \/ /\ ~pir'.wok /\ pir'.gif = <<>> /\ p.sat = "done"
           /\ Stops(p, d)
    BY <1>5, <1>6, <1>7, WorkIs, ZenonT(60)
  <2>4. QED
    BY <2>1, <2>2, <2>3
<1>9. /\ pir.sat \in {"work", "done"} /\ pir.liv /\ liv /\ meta = Len(MetaKeys)
      /\ (pir.sat = "work" => pir'.wok)
  <2>1. /\ pir.sat \in {"work", "done"} /\ pir.liv /\ liv /\ meta = Len(MetaKeys)
    BY <1>1 DEF PInv, KingGood
  <2>2. QED
    BY <1>1, <1>8, <2>1
<1>10. pir'.sat = pir.sat /\ pir'.liv = pir.liv /\ pir'.eve = sen'
  BY <1>1, <1>8 DEF Alike
<1>11. liv' \/ (pir.sat = "done" /\ ~pir'.wok)
  <2>1. SUFFICES ASSUME ~liv' PROVE pir.sat = "done" /\ ~pir'.wok
    OBVIOUS
  <2>2. Stops(p, d) /\ p.wal[1] = "exit" /\ p.wal # <<>>
    BY <1>1, <2>1 DEF Stops, Walled
  <2>3. p.wal \in Seq({"save", "exit"})
    BY PierFields
  <2>4. 1 \in 1 .. Len(p.wal)
    BY <2>2, <2>3
  <2>5. pir.sat = "done"
    BY <1>1, <1>5, <2>2, <2>4
  <2>6. QED
    BY <1>8, <2>2, <2>5
<1>12. /\ fx' \in Seq(Fact) /\ EffectsDurable' /\ EffectsOnce'
       /\ \A i \in 1 .. Len(fx') : fx'[i].eve <= d
  BY Released
<1>13. KingTypes
  BY <1>1, <1>8, <1>12 DEF KingTypes, PInv, TypeOK
<1>14. KingGood'
  BY <1>1, <1>8, <1>9, <1>10, <1>11 DEF KingGood
<1>15. PlayGood'
  BY <1>9, <1>10 DEF PlayGood
<1>16. EffectsGood'
  <2>1. SUFFICES ASSUME pir'.wok PROVE GiftsGood'
    BY <1>12 DEF EffectsGood, GiftsGood
  <2>2. /\ Len(pir'.gif) = Len(p.gif) - n
        /\ \A i \in 1 .. Len(p.gif) - n : pir'.gif[i] = p.gif[n + i]
    BY <1>8, <2>1
  <2>3. pir'.eve = d + Len(pir'.gif)
    BY <1>1, <1>2, <1>3, <1>10, <2>2
  <2>4. ASSUME NEW i \in 1 .. Len(pir'.gif)
        PROVE  pir'.gif[i].eve = d + i /\ pir'.gif[i].job = Seen(d + i)'
    <3>1. n + i \in 1 .. Len(p.gif) /\ i \in 1 .. Len(p.gif) - n /\ r + (n + i) = d + i
      BY <1>2, <1>3, <2>2
    <3>2. pir'.gif[i] = p.gif[n + i]
      BY <2>2, <3>1
    <3>3. p.gif[n + i].eve = r + (n + i) /\ p.gif[n + i].job = Seen(r + (n + i))'
      BY <1>4, <3>1
    <3>4. QED
      BY <3>1, <3>2, <3>3
  <2>5. QED
    BY <1>1, <1>8, <1>12, <2>3, <2>4 DEF GiftsGood
<1>17. KingStep(p.wri)
  <2>1. Keeps(p.wri)
    BY <1>1, <1>9, <1>10 DEF Keeps, KeepsTo, WorkFrom
  <2>2. Sends(p.wri)
    BY <1>8 DEF Sends, Grows
  <2>3. ASSUME NEW i \in Len(p.wri) + 1 .. Len(pir'.wri) PROVE MaySend(pir'.wri[i])
    <3>1. WorkWrit(p, d, pir'.wri[i])
      BY <1>8 DEF Grows
    <3>2. dun' <= Gulf' /\ Gulf' = Gulf /\ Gulf' \in Nat
      BY <1>1 DEF LogGood, Core, AckIsDurable, LogContiguous, Gulf
    <3>3. WritGood(pir'.wri[i])
      <4>1. pir'.wri[i].typ = "save" => pir'.wri[i].eve <= Gulf
        BY <1>1, <3>1, <3>2 DEF WorkWrit
      <4>2. QED
        BY <3>1, <4>1 DEF WorkWrit, WritGood
    <3>4. ASSUME pir'.wri[i].typ = "work"
          PROVE  pir'.wok /\ Gulf <= Len(hst) /\ sen' <= Len(hst)
      <4>1. pir'.wok /\ liv'
        BY <1>1, <1>9, <1>11, <3>1, <3>4 DEF WorkWrit
      <4>2. Gulf' <= sen' /\ sen' \in Nat
        BY <1>1, <1>2, <4>1, SeenTableNext DEF LogGood, TableSeen
      <4>3. Len(hst) \in Nat
        BY KingFacts
      <4>4. QED
        BY <1>1, <3>2, <4>1, <4>2, <4>3
    <3>5. QED
      BY <1>9, <1>10, <3>3, <3>4 DEF MaySend
  <2>4. p.wri # <<>> => pir'.wok
    BY <1>1, <1>8 DEF Stops, Walled
  <2>5. QED
    BY <1>1, <1>8, <1>9, <1>10, <2>1, <2>2, <2>3, <2>4 DEF KingStep
<1>18. pir'.sat # "down"
  BY <1>9, <1>10
<1>19. QED
  BY <1>13, <1>14, <1>15, <1>16, <1>17, <1>18, KingStepInv

-----------------------------------------------------------------------------
(* The callbacks of the work state *)

(* A plea that is heard answers the first writ. *)
LEMMA HearsIs ==
  ASSUME PInv, NEW T, Hears(T)
  PROVE  /\ pir.sat # "down" /\ ~Booting /\ out # <<>> /\ out[1] \in Pleas
         /\ out[1].typ \in T /\ PleaExpected(out[1])
         /\ 1 \in 1 .. Len(out)
         /\ out[1].typ # "ripe" =>
              /\ pir.liv /\ pir.wri # <<>> /\ pir.wri[1] \in Writs
              /\ PleaFits(out[1], pir.wri[1]) /\ WritGood(pir.wri[1])
         /\ out[1].typ = "ripe" =>
              /\ ~pir.liv /\ Len(out) = 1 /\ out[1].eve <= Len(hst)
<1>1. /\ pir.sat # "down" /\ ~Booting /\ out # <<>> /\ out[1].typ \in T
      /\ PleaExpected(out[1])
  BY DEF Hears, Heeds
<1>2. out \in Seq(Pleas) /\ pir.wri \in Seq(Writs) /\ Len(out) \in Nat /\ Len(pir.wri) \in Nat
  BY KingFacts, SMTT(30)
<1>3. 1 \in 1 .. Len(out) /\ out[1] \in Pleas
  BY <1>1, <1>2
<1>4. CASE pir.liv
  <2>1. Len(out) <= Len(pir.wri) /\ PleaFits(out[1], pir.wri[1])
    BY <1>1, <1>3, <1>4 DEF PInv, Pipes
  <2>2. 1 \in 1 .. Len(pir.wri)
    BY <1>2, <1>3, <2>1
  <2>3. pir.wri # <<>> /\ pir.wri[1] \in Writs /\ WritGood(pir.wri[1])
    BY <1>2, <2>2 DEF PInv, QueuesGood
  <2>4. QED
    BY <1>1, <1>3, <1>4, <2>1, <2>3 DEF PleaFits
<1>5. CASE ~pir.liv
  <2>1. Len(out) = 1 /\ out[1].typ = "ripe" /\ out[1].eve <= Len(hst)
    BY <1>1, <1>5 DEF PInv, Pipes
  <2>2. QED
    BY <1>1, <1>3, <1>5, <2>1
<1>6. QED
  BY <1>4, <1>5

(* The pop of a writ. *)
LEMMA LordPopIs ==
  ASSUME NEW p \in Piers, p.wri # <<>>, NEW q, q = LordPop(p) \/ q = LordPopWork(p)
  PROVE  /\ q \in Piers /\ Alike(p, q) /\ q.wri = Tail(p.wri)
         /\ q.wok = p.wok /\ q.gif = p.gif /\ q.rel = p.rel /\ q.wal = p.wal
         /\ q.ova = p.ova /\ q.pec = p.pec /\ q.pep = p.pep
<1>1. Tail(p.wri) \in Seq(Writs)
  BY PierFields
<1>2. CASE q = LordPop(p)
  BY <1>1, <1>2 DEF LordPop, Piers, Alike
<1>3. CASE q = LordPopWork(p)
  <2> DEFINE b == \E i \in 2 .. Len(p.wri) : p.wri[i].typ = "work"
  <2>1. b \in BOOLEAN
    OBVIOUS
  <2>2. q = [p EXCEPT !.wri = Tail(p.wri), !.pin = b]
    BY <1>3 DEF LordPopWork
  <2> HIDE DEF b
  <2>3. QED
    BY <1>1, <2>1, <2>2 DEF Piers, Alike
<1>4. QED
  BY <1>2, <1>3

(* The event of a %work plea is what the worker has applied under its      *)
(* number, and u3_disk_plan() puts it at the end of the log.               *)
LEMMA PlanFact ==
  ASSUME PInv, Hears({"done", "swap"}), DiskPlan(PleaFact), red' = red, hst' = hst
  PROVE  /\ PleaFact \in Fact /\ PleaFact.eve = sen + 1 /\ out[1].eve = sen + 1
         /\ sen + 1 <= Len(hst) /\ liv /\ meta = Len(MetaKeys)
         /\ sen' = sen + 1 /\ UNCHANGED <<db, dun, meta, liv>>
         /\ pir.sat = "wyrd" \/ pir.wok
         /\ pir.wri # <<>> /\ pir.liv /\ pir.wri[1].typ = "work" /\ out # <<>>
         /\ LogGood' /\ LogFits
         /\ \A e \in 1 .. sen : Seen(e)' = Seen(e)
         /\ \A e \in Nat : e = sen + 1 => Seen(e)' = PleaFact.job
<1>1. /\ out[1].typ \in {"done", "swap"} /\ PleaExpected(out[1]) /\ out # <<>>
      /\ pir.liv /\ pir.wri # <<>> /\ pir.wri[1] \in Writs /\ out[1] \in Pleas
      /\ PleaFits(out[1], pir.wri[1]) /\ WritGood(pir.wri[1])
  BY HearsIs
<1>2. /\ out[1].eve = sen + 1 /\ pir.wri[1].typ = "work"
      /\ pir.sat = "wyrd" \/ pir.wok
  BY <1>1 DEF PleaExpected
<1>3. liv /\ meta = Len(MetaKeys) /\ Core /\ Written /\ ReadsGood
  BY <1>2 DEF PInv, KingGood, LogGood
<1>4. sen \in Nat /\ Len(hst) \in Nat /\ red \in Seq(Reads) /\ dun \in Nat
  BY <1>3, KingFacts DEF Core, DiskTypeOK
<1>5. PICK j \in Job : j = PleaFact.job /\ hst[sen + 1] = j
  <2>1. CASE out[1].typ = "done"
    <3>1. PICK o \in Ovum : pir.wri[1].job = <<o>>
      BY <1>1, <1>2 DEF WritGood
    <3>2. pir.wri[1].job[1] = o /\ o \in Job
      BY <3>1, OvumIs
    <3>3. QED
      BY <1>1, <1>2, <2>1, <3>2 DEF PleaFits, PleaFact
  <2>2. CASE out[1].typ = "swap"
    <3>1. out[1].job \in Seq(Job) /\ Len(out[1].job) = 1
      BY <1>1, <2>2 DEF PleaFits, Pleas
    <3>2. out[1].job[1] \in Job
      BY <3>1
    <3>3. QED
      BY <1>1, <1>2, <2>2, <3>2 DEF PleaFits, PleaFact
  <2>3. QED
    BY <1>1, <2>1, <2>2
<1>6. sen + 1 \in 1 .. Len(hst)
  BY <1>1, <1>2 DEF PleaFits
<1>7. PICK f \in Fact : f = PleaFact /\ f = [eve |-> sen + 1, job |-> j] /\ f.job = j
                        /\ f.eve = sen + 1
  BY <1>2, <1>4, <1>5 DEF Fact, PleaFact
<1>8. DiskPlan(f) /\ DiskPlan([eve |-> sen + 1, job |-> j])
  BY <1>7
<1>9. Core'
  BY <1>3, <1>4, <1>8, PlanCore
<1>10. /\ Written' /\ \A e \in 1 .. sen : Seen(e)' = Seen(e)
       /\ Seen(sen)' = j
  BY <1>3, <1>7, <1>8, PlanSeen
<1>11. sen' = sen + 1 /\ UNCHANGED <<db, dun, meta, liv>>
  BY <1>8 DEF DiskPlan
<1>12. \A e \in Nat : e = sen + 1 => Seen(e)' = j
  BY <1>10, <1>11 DEF Seen
<1>13. LogGood'
  BY <1>3, <1>9, <1>10, <1>11 DEF LogGood, ReadsGood
<1>14. LogFits
  <2>1. ASSUME NEW e \in 1 .. Len(hst), e <= sen' PROVE hst[e] = Seen(e)'
    <3>1. CASE e <= sen
      <4>1. e \in 1 .. sen
        BY <1>4, <3>1
      <4>2. hst[e] = Seen(e)
        BY <1>3, <3>1 DEF PInv, WorkerGood
      <4>3. QED
        BY <1>10, <4>1, <4>2
    <3>2. CASE e = sen + 1
      BY <1>5, <1>12, <3>2
    <3>3. QED
      BY <1>4, <1>11, <2>1, <3>1, <3>2
  <2>2. QED
    BY <1>3, <1>4, <1>6, <1>11, <2>1 DEF LogFits
<1>15. QED
  BY <1>1, <1>2, <1>3, <1>4, <1>5, <1>6, <1>7, <1>10, <1>11, <1>12, <1>13, <1>14

(* The facts of the work state that _pier_work() starts from. *)
LEMMA WorkFacts ==
  ASSUME PInv, pir.wok
  PROVE  /\ pir.sat \in {"work", "done"} /\ pir.liv /\ liv /\ red = <<>>
         /\ pir.eve = sen /\ pir.eve <= Len(hst) /\ pir.rel <= dun /\ dun <= sen
         /\ Len(pir.gif) = pir.eve - pir.rel
         /\ \A i \in 1 .. Len(pir.gif) :
              pir.gif[i].eve = pir.rel + i /\ pir.gif[i].job = Seen(pir.rel + i)
<1>1. /\ pir.sat \in {"work", "done"} /\ pir.liv /\ liv /\ red = <<>>
      /\ pir.eve = sen /\ pir.eve <= Len(hst)
  BY DEF PInv, KingGood
<1>2. /\ pir.rel <= dun /\ pir.eve = pir.rel + Len(pir.gif)
      /\ \A i \in 1 .. Len(pir.gif) :
           pir.gif[i].eve = pir.rel + i /\ pir.gif[i].job = Seen(pir.rel + i)
  BY DEF PInv, EffectsGood, GiftsGood
<1>3. QED
  BY <1>1, <1>2, KingFacts, SMTT(30)

(* _pier_on_lord_work_done(). *)
LEMMA OnWorkDoneInv == PInv /\ OnWorkDone => PInv'
<1>1. SUFFICES ASSUME PInv, OnWorkDone PROVE PInv'
  OBVIOUS
<1> DEFINE p == [LordPopWork(pir) EXCEPT !.eve = out[1].eve,
                                         !.gif = Append(LordPopWork(pir).gif, PleaFact)]
<1>2. /\ Hears({"done", "swap"}) /\ pir.sat # "wyrd" /\ DiskPlan(PleaFact)
      /\ Work(p, dun) /\ out' = Tail(out)
      /\ UNCHANGED <<srf, hst, chk, red, pay, env>>
  BY <1>1 DEF OnWorkDone, Heard
<1>3. /\ PleaFact \in Fact /\ PleaFact.eve = sen + 1 /\ out[1].eve = sen + 1
      /\ sen + 1 <= Len(hst) /\ liv /\ pir.wok /\ pir.wri # <<>> /\ out # <<>>
      /\ sen' = sen + 1 /\ UNCHANGED <<db, dun, meta, liv>>
      /\ LogGood' /\ LogFits
      /\ \A e \in 1 .. sen : Seen(e)' = Seen(e)
      /\ \A e \in Nat : e = sen + 1 => Seen(e)' = PleaFact.job
  BY <1>1, <1>2, PlanFact
<1>4. /\ pir.sat \in {"work", "done"} /\ pir.liv /\ red = <<>>
      /\ pir.eve = sen /\ pir.rel <= dun /\ dun <= sen
      /\ Len(pir.gif) = pir.eve - pir.rel
      /\ \A i \in 1 .. Len(pir.gif) :
           pir.gif[i].eve = pir.rel + i /\ pir.gif[i].job = Seen(pir.rel + i)
  BY <1>1, <1>3, WorkFacts
<1>5. /\ pir \in Piers /\ sen \in Nat /\ dun \in Nat /\ pir.gif \in Seq(Fact)
      /\ pir.rel \in Nat /\ Len(pir.gif) \in Nat
  BY <1>1, KingFacts DEF PInv, TypeOK
<1>6. PICK r \in Nat : r = pir.rel
  BY <1>5
<1> DEFINE c == LordPopWork(pir)
           g == Append(c.gif, PleaFact)
<1>7. /\ c \in Piers /\ Alike(pir, c) /\ c.wri = Tail(pir.wri) /\ c.wok = pir.wok
      /\ c.gif = pir.gif /\ c.rel = pir.rel /\ c.wal = pir.wal /\ c.ova = pir.ova
  BY <1>3, <1>5, LordPopIs, ZenonT(60)
<1>8. /\ g \in Seq(Fact) /\ Len(g) = Len(pir.gif) + 1 /\ g[Len(pir.gif) + 1] = PleaFact
      /\ \A i \in 1 .. Len(pir.gif) : g[i] = pir.gif[i]
  BY <1>3, <1>5, <1>7
<1>9. p = [c EXCEPT !.eve = sen + 1, !.gif = g]
  BY <1>3
<1> HIDE DEF c, g, p
<1>10. /\ p \in Piers /\ p.eve = sen + 1 /\ p.gif = g /\ p.wri = Tail(pir.wri)
       /\ p.sat = pir.sat /\ p.liv = pir.liv /\ p.wok = pir.wok /\ p.rel = r
       /\ p.wal = pir.wal /\ p.ova = pir.ova
  <2>1. sen + 1 \in Nat
    BY <1>5
  <2>2. QED
    BY <1>6, <1>7, <1>8, <1>9, <2>1 DEF Piers, Alike
<1>11. Len(p.gif) = p.eve - r
  BY <1>4, <1>5, <1>6, <1>8, <1>10, SMTT(30)
<1>12. ASSUME NEW i \in 1 .. Len(p.gif)
       PROVE  p.gif[i].eve = r + i /\ p.gif[i].job = Seen(r + i)'
  <2>1. CASE i \in 1 .. Len(pir.gif)
    <3>1. p.gif[i] = pir.gif[i]
      BY <1>8, <1>10, <2>1
    <3>2. pir.gif[i].eve = r + i /\ pir.gif[i].job = Seen(r + i)
      BY <1>4, <1>6, <2>1
    <3>3. r + i \in 1 .. sen
      BY <1>4, <1>5, <1>6, <2>1, SMTT(30)
    <3>4. Seen(r + i)' = Seen(r + i)
      BY <1>3, <3>3
    <3>5. QED
      BY <3>1, <3>2, <3>4
  <2>2. CASE i = Len(pir.gif) + 1
    <3>1. p.gif[i] = PleaFact /\ r + i = sen + 1 /\ r + i \in Nat
      BY <1>4, <1>5, <1>6, <1>8, <1>10, <2>2, SMTT(30)
    <3>2. Seen(r + i)' = PleaFact.job
      BY <1>3, <3>1
    <3>3. QED
      BY <1>3, <3>1, <3>2
  <2>3. QED
    BY <1>5, <1>8, <1>10, <2>1, <2>2, SMTT(30)
<1>13. WorkFrom(p, dun, r)
  <2>1. dun = dun' /\ r <= dun /\ dun <= p.eve /\ p.eve = sen' /\ p.eve <= Len(hst)
    BY <1>3, <1>4, <1>5, <1>6, <1>10
  <2>2. env' \in Envs
    BY <1>1, <1>2 DEF PInv, TypeOK
  <2>3. QED
    BY <1>2, <1>3, <1>4, <1>6, <1>10, <1>11, <1>12, <2>1, <2>2 DEF WorkFrom
<1>14. QED
  BY <1>1, <1>2, <1>3, <1>5, <1>10, <1>13, WorkInv

(* u3_disk_exit() in a process that goes on, or nothing at all: the events *)
(* of the table stay.                                                      *)
LEMMA LogExitIs ==
  ASSUME PInv, liv, LogExit
  PROVE  /\ LogGood' /\ red' = <<>>
         /\ UNCHANGED <<db, meta, sen, dun>>
         /\ liv' => put' = put
<1>1. Core /\ Written
  BY DEF PInv, LogGood
<1>2. CASE DiskGone
  <2>1. /\ liv' = FALSE /\ put' = <<>> /\ req' = Idle /\ red' = <<>>
        /\ UNCHANGED <<db, meta, sen, dun>>
    BY <1>2 DEF DiskGone
  <2>2. Core'
    BY <1>1, <1>2, GoneCore
  <2>3. QED
    BY <2>1, <2>2 DEF LogGood, Written, ReadsGood, Idle
<1>3. CASE red' = <<>> /\ UNCHANGED writeVars
  <2>1. UNCHANGED <<db, meta, liv, sen, dun, put, req>> /\ red' = <<>>
    BY <1>3 DEF writeVars
  <2>2. red' \in Seq(Reads)
    BY <2>1
  <2>3. Core'
    BY <1>1, <1>3, <2>2, ReadCore
  <2>4. QED
    BY <1>1, <2>1, <2>3 DEF LogGood, Written, ReadsGood
<1>4. QED
  BY <1>2, <1>3 DEF LogExit

(* _pier_work() when nothing was committed or planned. *)
LEMMA WorkAgain ==
  ASSUME PInv, pir.wok, NEW p \in Piers, Alike(pir, p), p.wok = pir.wok,
         p.gif = pir.gif, p.rel = pir.rel, p.wal = pir.wal, p.ova = pir.ova,
         \/ out' = out /\ p.wri = pir.wri
         \/ /\ out # <<>> /\ out' = Tail(out)
            /\ pir.wri # <<>> /\ p.wri = Tail(pir.wri),
         WorkLog(p, dun), Work(p, dun), UNCHANGED <<srf, hst, chk, pay>>,
         env' \in Envs, env'.new = env.new
  PROVE  PInv'
<1>1. /\ pir.sat \in {"work", "done"} /\ pir.liv /\ liv /\ red = <<>>
      /\ pir.eve = sen /\ pir.eve <= Len(hst) /\ pir.rel <= dun /\ dun <= sen
      /\ Len(pir.gif) = pir.eve - pir.rel
      /\ \A i \in 1 .. Len(pir.gif) :
           pir.gif[i].eve = pir.rel + i /\ pir.gif[i].job = Seen(pir.rel + i)
  BY WorkFacts
<1>2. /\ sen \in Nat /\ dun \in Nat /\ pir.rel \in Nat /\ Len(pir.gif) \in Nat
  BY KingFacts
<1>3. PICK r \in Nat : r = pir.rel
  BY <1>2
<1>4. p.eve = sen /\ p.sat = pir.sat /\ p.liv = pir.liv
  BY <1>1 DEF Alike
<1>5. ASSUME LogGood', LogFits, UNCHANGED <<db, meta, sen, dun>>, red' = <<>>,
             ~liv' => Stops(p, dun), \A e \in 1 .. sen : Seen(e)' = Seen(e)
      PROVE  PInv'
  <2>1. ASSUME NEW i \in 1 .. Len(p.gif)
        PROVE  p.gif[i].eve = r + i /\ p.gif[i].job = Seen(r + i)'
    <3>1. p.gif[i].eve = r + i /\ p.gif[i].job = Seen(r + i)
      BY <1>1, <1>3
    <3>2. r + i \in 1 .. sen
      BY <1>1, <1>2, <1>3, SMTT(30)
    <3>3. QED
      BY <1>5, <3>1, <3>2
  <2>2. WorkFrom(p, dun, r)
    BY <1>1, <1>3, <1>4, <1>5, <2>1 DEF WorkFrom
  <2>3. QED
    BY <1>2, <1>5, <2>2, WorkInv
<1>6. \A e \in 1 .. Len(hst) : e <= sen => hst[e] = Seen(e)
  BY <1>1 DEF PInv, WorkerGood
<1>7. CASE Stops(p, dun)
  <2>1. sen = dun
    BY <1>4, <1>7 DEF Stops, Walled
  <2>2. LogExit
    BY <1>7 DEF WorkLog, Stops
  <2>3. /\ LogGood' /\ red' = <<>> /\ UNCHANGED <<db, meta, sen, dun>>
    BY <1>1, <2>2, LogExitIs
  <2>4. \A e \in 1 .. sen : Seen(e)' = Seen(e)
    BY <1>2, <2>1, <2>3 DEF Seen
  <2>5. LogFits
    BY <1>1, <1>2, <1>6, <2>3, <2>4 DEF LogFits
  <2>6. QED
    BY <1>5, <1>7, <2>3, <2>4, <2>5
<1>8. CASE ~Stops(p, dun)
  <2>1. UNCHANGED <<db, meta, liv, sen, dun, put, req, red>>
    BY <1>8 DEF WorkLog, Stops, diskVars
  <2>2. Core'
    BY <2>1, StutterCore DEF PInv, LogGood
  <2>3. LogGood'
    BY <2>1, <2>2 DEF PInv, LogGood, Written, ReadsGood
  <2>4. \A e \in 1 .. sen : Seen(e)' = Seen(e)
    BY <2>1 DEF Seen
  <2>5. LogFits
    BY <1>1, <1>2, <1>6, <2>1, <2>4 DEF LogFits
  <2>6. QED
    BY <1>1, <1>5, <2>1, <2>3, <2>4, <2>5
<1>9. QED
  BY <1>7, <1>8

(* _pier_on_lord_work_bail(). *)
LEMMA OnWorkBailInv == PInv /\ OnWorkBail => PInv'
<1>1. SUFFICES ASSUME PInv, OnWorkBail PROVE PInv'
  OBVIOUS
<1>2. /\ Hears({"bail"}) /\ pir.sat # "wyrd"
      /\ WorkLog(LordPopWork(pir), dun) /\ Work(LordPopWork(pir), dun)
      /\ env' = [env EXCEPT !.rej = env.rej \cup {pir.wri[1].job[1][2]}]
      /\ out' = Tail(out) /\ UNCHANGED <<srf, hst, chk, pay>>
  BY <1>1 DEF OnWorkBail, Heard
<1>3. /\ out[1].typ = "bail" /\ PleaExpected(out[1]) /\ out # <<>>
      /\ pir.wri # <<>> /\ pir.wri[1] \in Writs /\ WritGood(pir.wri[1])
  BY <1>1, <1>2, HearsIs
<1>4. pir.wri[1].typ = "work" /\ pir.wok
  BY <1>2, <1>3 DEF PleaExpected
<1>5. PICK o \in Ovum : pir.wri[1].job = <<o>>
  BY <1>3, <1>4 DEF WritGood
<1>6. PICK n \in 0 .. MaxOva : o = <<"ovum", n>>
  BY DEF Ovum
<1>7. env' \in Envs /\ env'.new = env.new
  <2>1. env \in Envs /\ env' = [env EXCEPT !.rej = env.rej \cup {n}]
    BY <1>1, <1>2, <1>5, <1>6 DEF PInv, TypeOK
  <2>2. env.rej \cup {n} \in SUBSET (0 .. MaxOva)
    BY <2>1 DEF Envs
  <2>3. QED
    BY <2>1, <2>2 DEF Envs
<1>8. PICK p : p = LordPopWork(pir)
  OBVIOUS
<1>9. /\ p \in Piers /\ Alike(pir, p) /\ p.wri = Tail(pir.wri)
      /\ p.wok = pir.wok /\ p.gif = pir.gif /\ p.rel = pir.rel /\ p.wal = pir.wal
      /\ p.ova = pir.ova
  BY <1>1, <1>3, <1>8, LordPopIs DEF PInv, TypeOK
<1>10. QED
  BY <1>1, <1>2, <1>3, <1>4, <1>7, <1>8, <1>9, WorkAgain

(* Every turn of the loop. *)
LEMMA OnLoopInv == PInv /\ OnLoop => PInv'
<1>1. SUFFICES ASSUME PInv, OnLoop PROVE PInv'
  OBVIOUS
<1>2. /\ pir.wok /\ WorkLog(pir, dun) /\ Work(pir, dun)
      /\ UNCHANGED <<pay, out, srf, hst, chk, env>>
  BY <1>1 DEF OnLoop
<1>3. pir \in Piers /\ env' \in Envs /\ Alike(pir, pir)
  BY <1>1, <1>2 DEF PInv, TypeOK, Alike
<1>4. QED
  BY <1>1, <1>2, <1>3, WorkAgain

-----------------------------------------------------------------------------
(* The callbacks that leave the log alone *)

(* What is left of the queue was in it. *)
LEMMA KeepsOld ==
  ASSUME PInv, NEW old, Keeps(old)
  PROVE  \A i \in 1 .. Len(old) : \E j \in 1 .. Len(pir.wri) : old[i] = pir.wri[j]
<1>1. pir.wri \in Seq(Writs)
  BY KingFacts
<1>2. CASE old = pir.wri
  BY <1>2
<1>3. CASE pir.wri # <<>> /\ old = Tail(pir.wri)
  <2>1. \A i \in 1 .. Len(old) : i + 1 \in 1 .. Len(pir.wri) /\ old[i] = pir.wri[i + 1]
    BY <1>1, <1>3
  <2>2. QED
    BY <2>1
<1>4. CASE old = <<>>
  <2>1. Len(old) = 0
    BY <1>4
  <2>2. QED
    BY <2>1
<1>5. QED
  BY <1>2, <1>3, <1>4 DEF Keeps, KeepsTo

(* The log, the worker and the replay are not touched; at most a |pack is  *)
(* sent, and the work state is left for an exit.                           *)
Quiet(old) ==
  /\ pir.sat \notin {"down", "init", "boot"}
  /\ UNCHANGED <<db, meta, liv, sen, dun, put, req, red, pay, srf, hst, chk, fx>>
  /\ pir'.liv = pir.liv /\ pir'.eve = pir.eve /\ pir'.wok = pir.wok
  /\ pir'.gif = pir.gif /\ pir'.rel = pir.rel
  /\ pir'.sat = pir.sat \/ (pir.sat = "work" /\ pir'.sat = "done")
  /\ Keeps(old) /\ Sends(old)
  /\ \A i \in Len(old) + 1 .. Len(pir'.wri) : pir'.wri[i].typ = "pack" /\ pir'.liv
  /\ \A i \in 1 .. Len(pir'.ova) : pir'.ova[i] \in Ovum
  /\ \A i \in 1 .. Len(pir'.wal) : pir'.wal[i] = "exit" => pir'.sat = "done"

LEMMA QuietInv ==
  ASSUME PInv, NEW old, Quiet(old), pir' \in Piers, env' \in Envs,
         env'.new = env.new
  PROVE  PInv'
<1>1. /\ UNCHANGED <<db, meta, liv, sen, dun, put, req, red>>
      /\ UNCHANGED <<pay, srf, hst, chk, fx>>
      /\ pir.sat \notin {"down", "init", "boot"}
      /\ pir'.liv = pir.liv /\ pir'.eve = pir.eve /\ pir'.wok = pir.wok
      /\ pir'.gif = pir.gif /\ pir'.rel = pir.rel
      /\ pir'.sat = pir.sat \/ (pir.sat = "work" /\ pir'.sat = "done")
      /\ Keeps(old) /\ Sends(old)
  BY DEF Quiet
<1>2. LogGood'
  <2>1. Core'
    BY <1>1, StutterCore DEF PInv, LogGood
  <2>2. QED
    BY <1>1, <2>1 DEF PInv, LogGood, Written, ReadsGood
<1>3. KingTypes
  BY <1>1 DEF KingTypes, PInv, TypeOK
<1>4. KingGood'
  BY <1>1 DEF PInv, KingGood
<1>5. EffectsGood'
  BY <1>1 DEF PInv, EffectsGood, EffectsDurable, EffectsOnce, GiftsGood, Seen
<1>6. PlayGood'
  <2>1. SUFFICES ASSUME pir'.sat = "play" PROVE PlayGood'
    BY DEF PlayGood
  <2>2. pir.sat = "play"
    BY <1>1, <2>1
  <2>3. Len(old) \in Nat /\ Len(pir'.wri) \in Nat
    BY <1>1, KeepsIs, PierFields
  <2>4. ASSUME NEW i \in 1 .. Len(pir'.wri), pir'.wri[i].typ = "play"
        PROVE  pir'.wri[i].eve + Len(pir'.wri[i].job) - 1 <= pay.sen
    <3>1. i \in 1 .. Len(old)
      <4>1. CASE ~(i <= Len(old))
        <5>1. i \in Len(old) + 1 .. Len(pir'.wri)
          BY <2>3, <4>1
        <5>2. QED
          BY <2>4, <5>1 DEF Quiet
      <4>2. QED
        BY <2>3, <4>1
    <3>2. PICK j \in 1 .. Len(pir.wri) : pir'.wri[i] = pir.wri[j]
      BY <1>1, <3>1, KeepsOld, SMTT(30) DEF Sends
    <3>3. QED
      BY <2>2, <2>4, <3>2 DEF PInv, PlayGood
  <2>5. QED
    BY <1>1, <2>2, <2>4 DEF PInv, PlayGood
<1>7. KingStep(old)
  <2>1. \A i \in Len(old) + 1 .. Len(pir'.wri) : MaySend(pir'.wri[i])
    BY DEF Quiet, MaySend, WritGood
  <2>2. LogFits
    <3>1. \A e \in 1 .. Len(hst) : Seen(e)' = Seen(e)
      BY <1>1 DEF Seen
    <3>2. QED
      BY <1>1, <3>1 DEF PInv, WorkerGood, LogFits
  <2>3. QED
    BY <1>1, <2>1, <2>2 DEF KingStep, Quiet
<1>8. QED
  BY <1>1, <1>2, <1>3, <1>4, <1>5, <1>6, <1>7, KingStepInv

(* Nothing is sent. *)
LEMMA SendsNone ==
  ASSUME PInv, NEW old, pir'.wri = old, inn' = inn, old \in Seq(Writs)
  PROVE  Sends(old) /\ \A i \in Len(old) + 1 .. Len(pir'.wri) : FALSE
<1>1. Len(old) \in Nat /\ inn \in Seq(Writs)
  BY KingFacts
<1>2. SubSeq(old, Len(old) + 1, Len(old)) = <<>>
  BY <1>1
<1>3. inn \o <<>> = inn
  BY <1>1
<1>4. QED
  BY <1>1, <1>2, <1>3 DEF Sends

(* _lord_plea_peek(), _lord_plea_live(). *)
LEMMA OnAnswerInv == PInv /\ OnAnswer => PInv'
<1>1. SUFFICES ASSUME PInv, OnAnswer PROVE PInv'
  OBVIOUS
<1>2. /\ Hears({"peek", "live"}) /\ pir' = LordPop(pir) /\ out' = Tail(out)
      /\ UNCHANGED <<srf, hst, chk>> /\ UNCHANGED <<diskVars, pay, inn, fx, env>>
  BY <1>1 DEF OnAnswer, Heard
<1>3. /\ pir.sat # "down" /\ out # <<>> /\ pir.liv /\ pir.wri # <<>>
  BY <1>1, <1>2, HearsIs
<1>4. pir \in Piers /\ env \in Envs /\ pir.wri \in Seq(Writs)
  BY <1>1, KingFacts DEF PInv, TypeOK
<1>5. /\ pir' \in Piers /\ Alike(pir, pir') /\ pir'.wri = Tail(pir.wri)
      /\ pir'.wok = pir.wok /\ pir'.gif = pir.gif /\ pir'.rel = pir.rel
      /\ pir'.wal = pir.wal /\ pir'.ova = pir.ova
  BY <1>2, <1>3, <1>4, LordPopIs
<1>6. Keeps(Tail(pir.wri))
  BY <1>2, <1>3, <1>5 DEF Keeps, KeepsTo, Alike
<1>7. /\ Sends(Tail(pir.wri))
      /\ \A i \in Len(Tail(pir.wri)) + 1 .. Len(pir'.wri) : FALSE
  <2>1. Tail(pir.wri) \in Seq(Writs)
    BY <1>3, <1>4
  <2>2. QED
    BY <1>1, <1>2, <1>5, <2>1, SendsNone
<1>8. pir.sat \notin {"down", "init", "boot"}
  BY <1>1, <1>3 DEF PInv, KingGood
<1>9. Quiet(Tail(pir.wri))
  BY <1>1, <1>2, <1>5, <1>6, <1>7, <1>8 DEF Quiet, diskVars, Alike, PInv, QueuesGood
<1>10. QED
  BY <1>1, <1>2, <1>4, <1>5, <1>9, QuietInv

(* A request that plans no writ. *)
LEMMA RequestInv ==
  ASSUME PInv, pir.wok, pir' \in Piers, pir'.wri = pir.wri,
         pir'.liv = pir.liv, pir'.eve = pir.eve, pir'.wok = pir.wok,
         pir'.gif = pir.gif, pir'.rel = pir.rel,
         pir'.sat = pir.sat \/ (pir.sat = "work" /\ pir'.sat = "done"),
         UNCHANGED <<diskVars, pay, inn, out, srf, hst, chk, fx>>,
         env' \in Envs, env'.new = env.new,
         \A i \in 1 .. Len(pir'.ova) : pir'.ova[i] \in Ovum,
         \A i \in 1 .. Len(pir'.wal) : pir'.wal[i] = "exit" => pir'.sat = "done"
  PROVE  PInv'
<1>1. pir.sat \notin {"down", "init", "boot"}
  BY WorkFacts
<1>2. Keeps(pir.wri)
  BY DEF Keeps, KeepsTo
<1>3. Sends(pir.wri) /\ \A i \in Len(pir.wri) + 1 .. Len(pir'.wri) : FALSE
  BY KingFacts, SendsNone
<1>4. Quiet(pir.wri)
  BY <1>1, <1>2, <1>3 DEF Quiet, diskVars
<1>5. QED
  BY <1>4, QuietInv

(* u3_auto_plan(). *)
LEMMA PlanOvumInv == PInv /\ PlanOvum => PInv'
<1>1. SUFFICES ASSUME PInv, PlanOvum PROVE PInv'
  OBVIOUS
<1>2. /\ pir.wok /\ env.ova < MaxOva /\ env' = [env EXCEPT !.ova = env.ova + 1]
      /\ pir' = [pir EXCEPT !.ova = pir.ova \o Ova(1)]
      /\ UNCHANGED <<diskVars, pay, inn, out, srf, hst, chk, fx>>
  BY <1>1 DEF PlanOvum
<1>3. env \in Envs /\ pir \in Piers /\ MaxOva \in Nat /\ pir.ova \in Seq(Job)
  BY <1>1, KingFacts, PierAssumption DEF PInv, TypeOK
<1>4. env.ova + 1 \in 0 .. MaxOva /\ env.ova \in Nat
  BY <1>2, <1>3 DEF Envs
<1>5. env' \in Envs /\ env'.new = env.new
  BY <1>2, <1>3, <1>4 DEF Envs
<1>6. PICK o \in Ovum : o = <<"ovum", env.ova + 1>>
  BY <1>4 DEF Ovum
<1>7. Ova(1) = <<o>> /\ o \in Job
  BY <1>6, OvumIs DEF Ova
<1> DEFINE s == Append(pir.ova, o)
<1>8. /\ s \in Seq(Job) /\ Len(s) = Len(pir.ova) + 1 /\ s[Len(pir.ova) + 1] = o
      /\ \A i \in 1 .. Len(pir.ova) : s[i] = pir.ova[i]
      /\ Len(pir.ova) \in Nat
  BY <1>3, <1>7
<1>9. pir.ova \o Ova(1) = s
  BY <1>3, <1>7, AppendIsConcat
<1>10. \A i \in 1 .. Len(s) : s[i] \in Ovum
  BY <1>1, <1>8 DEF PInv, QueuesGood
<1> HIDE DEF s
<1>11. /\ pir' \in Piers /\ pir'.ova = s /\ pir'.wri = pir.wri
       /\ pir'.liv = pir.liv /\ pir'.eve = pir.eve /\ pir'.wok = pir.wok
       /\ pir'.gif = pir.gif /\ pir'.rel = pir.rel /\ pir'.sat = pir.sat
       /\ pir'.wal = pir.wal
  BY <1>2, <1>3, <1>8, <1>9 DEF Piers
<1>12. \A i \in 1 .. Len(pir.wal) : pir.wal[i] = "exit" => pir.sat = "done"
  BY <1>1 DEF PInv, QueuesGood
<1>13. QED
  BY <1>1, <1>2, <1>5, <1>10, <1>11, <1>12, RequestInv

(* u3_pier_peek(). *)
LEMMA PlanPeekInv == PInv /\ PlanPeek => PInv'
<1>1. SUFFICES ASSUME PInv, PlanPeek PROVE PInv'
  OBVIOUS
<1>2. /\ pir.wok /\ env.peek < MaxPeek /\ env' = [env EXCEPT !.peek = env.peek + 1]
      /\ pir' = [pir EXCEPT !.pec = pir.pec + 1]
      /\ UNCHANGED <<diskVars, pay, inn, out, srf, hst, chk, fx>>
  BY <1>1 DEF PlanPeek
<1>3. env \in Envs /\ pir \in Piers /\ MaxPeek \in Nat /\ pir.pec + 1 \in Nat
  <2>1. pir.pec \in Nat
    BY <1>1, KingFacts
  <2>2. pir.pec + 1 \in Nat
    BY <2>1
  <2>3. QED
    BY <1>1, <2>2, PierAssumption DEF PInv, TypeOK
<1>4. env.peek + 1 \in 0 .. MaxPeek
  BY <1>2, <1>3 DEF Envs
<1>5. env' \in Envs /\ env'.new = env.new
  BY <1>2, <1>3, <1>4 DEF Envs
<1>6. /\ pir' \in Piers /\ pir'.ova = pir.ova /\ pir'.wri = pir.wri
      /\ pir'.liv = pir.liv /\ pir'.eve = pir.eve /\ pir'.wok = pir.wok
      /\ pir'.gif = pir.gif /\ pir'.rel = pir.rel /\ pir'.sat = pir.sat
      /\ pir'.wal = pir.wal
  BY <1>2, <1>3 DEF Piers
<1>7. /\ \A i \in 1 .. Len(pir.ova) : pir.ova[i] \in Ovum
      /\ \A i \in 1 .. Len(pir.wal) : pir.wal[i] = "exit" => pir.sat = "done"
  BY <1>1 DEF PInv, QueuesGood
<1>8. QED
  BY <1>1, <1>2, <1>5, <1>6, <1>7, RequestInv

(* u3_pier_pack(), u3_pier_meld(). *)
LEMMA PlanPackInv == PInv /\ PlanPack => PInv'
<1>1. SUFFICES ASSUME PInv, PlanPack PROVE PInv'
  OBVIOUS
<1> DEFINE w == Writ("pack", 0, <<>>)
<1>2. /\ pir.wok /\ env.pack < MaxPack /\ env' = [env EXCEPT !.pack = env.pack + 1]
      /\ pir' = LordPlan(pir, w) /\ inn' = Append(inn, w)
      /\ UNCHANGED <<diskVars, pay, out, srf, hst, chk, fx>>
  BY <1>1 DEF PlanPack
<1>3. env \in Envs /\ pir \in Piers /\ MaxPack \in Nat /\ inn \in Seq(Writs)
      /\ pir.wri \in Seq(Writs) /\ Len(pir.wri) \in Nat
  BY <1>1, KingFacts, PierAssumption DEF PInv, TypeOK
<1>4. env.pack + 1 \in 0 .. MaxPack
  BY <1>2, <1>3, SMTT(30) DEF Envs
<1>5. env' \in Envs /\ env'.new = env.new
  BY <1>2, <1>3, <1>4 DEF Envs
<1>6. w \in Writs /\ w.typ = "pack"
  BY WritIs DEF WritType
<1> HIDE DEF w
<1>7. /\ pir' \in Piers /\ Alike(pir, pir') /\ pir'.rel = pir.rel /\ pir'.wok = pir.wok
      /\ pir'.gif = pir.gif /\ pir'.wal = pir.wal /\ pir'.ova = pir.ova
      /\ Len(pir'.wri) = Len(pir.wri) + 1 /\ pir'.wri[Len(pir.wri) + 1] = w
      /\ \A i \in 1 .. Len(pir.wri) : pir'.wri[i] = pir.wri[i]
  <2>1. pir' = LordPlan(pir, w) /\ pir \in Piers /\ w \in Writs
    BY <1>2, <1>3, <1>6
  <2>2. QED
    BY <2>1, LordPlanIs
<1>8. Keeps(pir.wri)
  BY <1>2, <1>7 DEF Keeps, KeepsTo, Alike
<1>9. Sends(pir.wri)
  <2>1. SubSeq(pir'.wri, Len(pir.wri) + 1, Len(pir'.wri)) = <<w>>
    <3>1. PICK t \in Seq(Writs) : t = pir'.wri
      BY <1>7 DEF Piers
    <3>2. Len(t) = Len(pir.wri) + 1 /\ t[Len(pir.wri) + 1] = w
      BY <1>7, <3>1
    <3>3. SubSeq(t, Len(t), Len(t)) = <<w>>
      <4>1. Len(t) \in 1 .. Len(t) /\ t[Len(t)] = w
        BY <1>3, <3>2
      <4>2. /\ SubSeq(t, Len(t), Len(t)) \in Seq(Writs)
            /\ Len(SubSeq(t, Len(t), Len(t))) = 1
            /\ SubSeq(t, Len(t), Len(t))[1] = w
        BY <4>1
      <4>3. \A u \in Seq(Writs) : Len(u) = 1 => u = <<u[1]>>
        OBVIOUS
      <4>4. QED
        BY <4>2, <4>3
    <3>4. QED
      BY <3>1, <3>2, <3>3
  <2>2. inn' = inn \o <<w>>
    BY <1>2, <1>3, <1>6
  <2>3. QED
    BY <1>3, <1>7, <2>1, <2>2, SMTT(30) DEF Sends
<1>10. pir.sat \notin {"down", "init", "boot"} /\ pir.liv
  BY <1>1, <1>2, WorkFacts
<1>11. \A i \in Len(pir.wri) + 1 .. Len(pir'.wri) : pir'.wri[i].typ = "pack"
  BY <1>3, <1>6, <1>7
<1>12. Quiet(pir.wri)
  BY <1>1, <1>2, <1>7, <1>8, <1>9, <1>10, <1>11
     DEF Quiet, diskVars, Alike, PInv, QueuesGood
<1>13. QED
  BY <1>1, <1>5, <1>7, <1>12, QuietInv

(* _save_time_cb(). *)
LEMMA SaveTimerInv == PInv /\ SaveTimer => PInv'
<1>1. SUFFICES ASSUME PInv, SaveTimer PROVE PInv'
  OBVIOUS
<1>2. /\ pir.sat = "work" /\ env.save < MaxSave
      /\ env' = [env EXCEPT !.save = env.save + 1]
      /\ pir' = [pir EXCEPT !.wal = Append(pir.wal, "save")]
      /\ UNCHANGED <<diskVars, pay, inn, out, srf, hst, chk, fx>>
  BY <1>1 DEF SaveTimer
<1>3. env \in Envs /\ pir \in Piers /\ MaxSave \in Nat
      /\ pir.wal \in Seq({"save", "exit"}) /\ pir.wok
  BY <1>1, <1>2, KingFacts, PierAssumption DEF PInv, TypeOK, KingGood
<1>4. env.save + 1 \in 0 .. MaxSave
  BY <1>2, <1>3, SMTT(30) DEF Envs
<1>5. env' \in Envs /\ env'.new = env.new
  BY <1>2, <1>3, <1>4 DEF Envs
<1> DEFINE s == Append(pir.wal, "save")
<1>6. /\ s \in Seq({"save", "exit"}) /\ Len(s) = Len(pir.wal) + 1
      /\ s[Len(pir.wal) + 1] = "save" /\ Len(pir.wal) \in Nat
      /\ \A i \in 1 .. Len(pir.wal) : s[i] = pir.wal[i]
  BY <1>3
<1> HIDE DEF s
<1>7. \A i \in 1 .. Len(s) : s[i] = "exit" => pir.sat = "done"
  <2>1. TAKE i \in 1 .. Len(s)
  <2>2. i \in 1 .. Len(pir.wal) \/ i = Len(pir.wal) + 1
    BY <1>6
  <2>3. QED
    BY <1>1, <1>6, <2>2 DEF PInv, QueuesGood
<1>8. /\ pir' \in Piers /\ pir'.wal = s /\ pir'.wri = pir.wri
      /\ pir'.liv = pir.liv /\ pir'.eve = pir.eve /\ pir'.wok = pir.wok
      /\ pir'.gif = pir.gif /\ pir'.rel = pir.rel /\ pir'.sat = pir.sat
      /\ pir'.ova = pir.ova
  BY <1>2, <1>3, <1>6 DEF Piers, s
<1>9. \A i \in 1 .. Len(pir.ova) : pir.ova[i] \in Ovum
  BY <1>1 DEF PInv, QueuesGood
<1>10. QED
  BY <1>1, <1>2, <1>3, <1>5, <1>7, <1>8, <1>9, RequestInv

-----------------------------------------------------------------------------
(* Shutdown short of the work state *)

(* u3_lord_save(), u3_lord_cram(). *)
LEMMA LordLiveIs ==
  ASSUME NEW p \in Piers, NEW t \in WritType, NEW q, q = LordLive(p, t)
  PROVE  /\ q \in Piers /\ Alike(p, q) /\ q.rel = p.rel /\ q.wok = p.wok
         /\ q.gif = p.gif /\ q.wal = p.wal /\ q.ova = p.ova
         /\ Len(p.wri) <= Len(q.wri)
         /\ \A i \in 1 .. Len(p.wri) : q.wri[i] = p.wri[i]
         /\ \A i \in Len(p.wri) + 1 .. Len(q.wri) :
              q.wri[i].typ = t /\ q.wri[i].eve = p.eve
<1>1. Len(p.wri) \in Nat /\ p.eve \in Nat /\ p.wri \in Seq(Writs)
  BY PierFields
<1>2. CASE p.wri = <<>>
  <2>1. PICK w \in Writs : w = Writ(t, p.eve, <<>>) /\ w.typ = t /\ w.eve = p.eve
    BY <1>1, WritIs
  <2>2. q = LordPlan(p, w)
    BY <1>2, <2>1 DEF LordLive
  <2>3. /\ q \in Piers /\ Alike(p, q) /\ q.rel = p.rel /\ q.wok = p.wok
        /\ q.gif = p.gif /\ q.wal = p.wal /\ q.ova = p.ova
        /\ Len(q.wri) = Len(p.wri) + 1 /\ q.wri[Len(p.wri) + 1] = w
        /\ \A i \in 1 .. Len(p.wri) : q.wri[i] = p.wri[i]
    BY <2>2, LordPlanIs
  <2>4. QED
    BY <1>1, <2>1, <2>3
<1>3. CASE p.wri # <<>>
  <2>1. q = p
    BY <1>3 DEF LordLive
  <2>2. QED
    BY <1>1, <2>1 DEF Alike
<1>4. QED
  BY <1>2, <1>3

(* The king p that u3_pier_exit() stops, short of the work state. *)
ExitFrom(old, p) ==
  /\ pir.sat \in {"init", "boot", "play"} /\ ~Booting
  /\ KeepsTo(old, p.liv)
  /\ p.wok = FALSE /\ p.gif = <<>> /\ p.ova = pir.ova
  /\ p.liv => p.eve <= Len(hst)
  /\ Len(old) <= Len(p.wri)
  /\ \A i \in 1 .. Len(old) : p.wri[i] = old[i]
  /\ \A i \in Len(old) + 1 .. Len(p.wri) :
       p.wri[i].typ = "save" /\ p.wri[i].eve <= Gulf /\ p.liv
  /\ UNCHANGED <<srf, hst, chk, fx, env>>

(* A shutdown short of the work state. *)
LEMMA ExitNowInv ==
  ASSUME PInv, NEW old, NEW p \in Piers, ExitFrom(old, p), ExitNow(p, old)
  PROVE  PInv'
<1>1. /\ pir.sat \in {"init", "boot", "play"} /\ ~Booting
      /\ KeepsTo(old, p.liv)
      /\ p.wok = FALSE /\ p.gif = <<>> /\ p.ova = pir.ova
      /\ p.liv => p.eve <= Len(hst)
      /\ UNCHANGED <<srf, hst, chk, fx, env>>
  BY DEF ExitFrom
<1>2. /\ Len(old) <= Len(p.wri)
      /\ \A i \in 1 .. Len(old) : p.wri[i] = old[i]
      /\ \A i \in Len(old) + 1 .. Len(p.wri) :
           p.wri[i].typ = "save" /\ p.wri[i].eve <= Gulf /\ p.liv
  BY DEF ExitFrom
<1> DEFINE a == [p EXCEPT !.sat = "done"]
           w == Writ("exit", 0, <<>>)
<1>3. /\ pir' = LordPlan(a, w) /\ pay' = NoPlay /\ LogExit
      /\ inn' = inn \o SubSeq(pir'.wri, Len(old) + 1, Len(pir'.wri))
  BY DEF ExitNow
<1>4. /\ a \in Piers /\ a.sat = "done" /\ a.liv = p.liv /\ a.eve = p.eve
      /\ a.wok = p.wok /\ a.gif = p.gif /\ a.ova = p.ova /\ a.wri = p.wri
  BY DEF Piers, States
<1>5. w \in Writs /\ w.typ = "exit"
  BY WritIs DEF WritType
<1> HIDE DEF a, w
<1>6. /\ pir' \in Piers /\ Alike(a, pir') /\ pir'.wok = a.wok
      /\ pir'.gif = a.gif /\ pir'.ova = a.ova
      /\ Len(pir'.wri) = Len(a.wri) + 1 /\ pir'.wri[Len(a.wri) + 1] = w
      /\ \A i \in 1 .. Len(a.wri) : pir'.wri[i] = a.wri[i]
  <2>1. pir' = LordPlan(a, w) /\ a \in Piers /\ w \in Writs
    BY <1>3, <1>4, <1>5
  <2>2. QED
    BY <2>1, LordPlanIs
<1>7. /\ pir'.sat = "done" /\ pir'.liv = p.liv /\ pir'.eve = p.eve /\ ~pir'.wok
      /\ pir'.gif = <<>> /\ pir'.ova = pir.ova
  BY <1>1, <1>4, <1>6 DEF Alike
<1>8. liv /\ ~pir.wok /\ meta = Len(MetaKeys)
  <2>1. liv /\ ~pir.wok /\ (pir.sat # "boot" => meta = Len(MetaKeys))
    BY <1>1 DEF PInv, KingGood
  <2>2. CASE pir.sat = "boot"
    <3>1. sen # 0 /\ sen \in Nat
      BY <1>1, <2>2, KingFacts DEF Booting
    <3>2. QED
      BY <2>1, <3>1 DEF PInv, LogGood, Core, MetaBeforePlan
  <2>3. QED
    BY <2>1, <2>2
<1>9. /\ LogGood' /\ red' = <<>> /\ UNCHANGED <<db, meta, sen, dun>>
      /\ liv' => put' = put
  BY <1>3, <1>8, LogExitIs
<1>10. KingTypes
  BY <1>1, <1>3, <1>6, NoPlayIs DEF KingTypes, PInv, TypeOK
<1>11. KingGood'
  BY <1>1, <1>7, <1>8, <1>9 DEF KingGood
<1>12. PlayGood'
  BY <1>7 DEF PlayGood
<1>13. EffectsGood'
  BY <1>1, <1>7, <1>9
     DEF PInv, EffectsGood, EffectsDurable, EffectsOnce, GiftsGood
<1>14. KingStep(old)
  <2>1. Keeps(old)
    BY <1>1, <1>7 DEF Keeps
  <2>2. Len(old) \in Nat /\ Len(p.wri) \in Nat
    BY <1>1, <1>6, <2>1, KeepsIs, PierFields
  <2>3. Sends(old)
    BY <1>2, <1>3, <1>4, <1>6, <2>2, SMTT(30) DEF Sends
  <2>4. ASSUME NEW i \in Len(old) + 1 .. Len(pir'.wri) PROVE MaySend(pir'.wri[i])
    <3>1. CASE i <= Len(p.wri)
      <4>1. i \in Len(old) + 1 .. Len(p.wri) /\ i \in 1 .. Len(p.wri)
        BY <2>2, <3>1
      <4>2. pir'.wri[i] = p.wri[i]
        BY <1>4, <1>6, <4>1
      <4>3. QED
        BY <1>2, <1>7, <4>1, <4>2 DEF MaySend, WritGood
    <3>2. CASE ~(i <= Len(p.wri))
      <4>1. i = Len(p.wri) + 1
        BY <1>4, <1>6, <2>2, <3>2
      <4>2. QED
        BY <1>4, <1>5, <1>6, <4>1 DEF MaySend, WritGood
    <3>3. QED
      BY <3>1, <3>2
  <2>5. LogFits
    <3>1. liv' => \A e \in 1 .. Len(hst) : Seen(e)' = Seen(e)
      BY <1>9 DEF Seen
    <3>2. QED
      BY <1>8, <1>9, <3>1 DEF PInv, WorkerGood, LogFits
  <2>6. \A i \in 1 .. Len(pir'.ova) : pir'.ova[i] \in Ovum
    BY <1>7 DEF PInv, QueuesGood
  <2>7. QED
    BY <1>1, <1>7, <1>8, <1>9, <2>1, <2>3, <2>4, <2>5, <2>6 DEF KingStep
<1>15. QED
  BY <1>7, <1>9, <1>10, <1>11, <1>12, <1>13, <1>14, KingStepInv

(* u3_pier_exit(). *)
LEMMA ExitRequestInv == PInv /\ ExitRequest => PInv'
<1>1. SUFFICES ASSUME PInv, ExitRequest PROVE PInv'
  OBVIOUS
<1>2. pir \in Piers /\ env \in Envs
  BY <1>1 DEF PInv, TypeOK
<1>3. CASE /\ pir.sat = "work"
           /\ pir' = [pir EXCEPT !.sat = "done", !.wal = pir.wal \o ExitWalls]
           /\ UNCHANGED <<diskVars, pay, inn, out, srf, hst, chk, fx, env>>
  <2>1. pir.wok
    BY <1>1, <1>3 DEF PInv, KingGood
  <2>2. PICK s \in Seq({"save", "exit"}) : s = pir.wal \o ExitWalls
    <3>1. pir.wal \in Seq({"save", "exit"}) /\ ExitWalls \in Seq({"save", "exit"})
      BY <1>1, KingFacts DEF ExitWalls
    <3>2. pir.wal \o ExitWalls \in Seq({"save", "exit"})
      BY <3>1, ConcatProperties
    <3>3. QED
      BY <3>2
  <2>3. pir' = [pir EXCEPT !.sat = "done", !.wal = s]
    BY <1>3, <2>2
  <2>4. /\ pir' \in Piers /\ pir'.sat = "done" /\ pir'.wri = pir.wri
        /\ pir'.liv = pir.liv /\ pir'.eve = pir.eve /\ pir'.wok = pir.wok
        /\ pir'.gif = pir.gif /\ pir'.rel = pir.rel /\ pir'.ova = pir.ova
    BY <1>2, <2>3 DEF Piers, States
  <2>5. \A i \in 1 .. Len(pir.ova) : pir.ova[i] \in Ovum
    BY <1>1 DEF PInv, QueuesGood
  <2>6. QED
    BY <1>1, <1>2, <1>3, <2>1, <2>4, <2>5, RequestInv
<1>4. CASE /\ pir.sat \in {"init", "boot", "play"} /\ ~Booting
           /\ ExitNow(pir, pir.wri)
           /\ UNCHANGED <<out, srf, hst, chk, fx, env>>
  <2>1. Len(pir.wri) \in Nat
    BY <1>1, KingFacts
  <2>2. /\ ~pir.wok /\ pir.gif = <<>> /\ (pir.liv => pir.eve <= Len(hst))
    BY <1>1, <1>4 DEF PInv, KingGood
  <2>3. pir.wok = FALSE
    BY <1>2, <2>2 DEF Piers
  <2>4. ExitFrom(pir.wri, pir)
    BY <1>4, <2>1, <2>2, <2>3 DEF ExitFrom, KeepsTo
  <2>5. QED
    BY <1>1, <1>2, <1>4, <2>4, ExitNowInv
<1>5. CASE KingGone("abort")
  BY <1>1, <1>5, KingGoneInv
<1>6. QED
  BY <1>1, <1>3, <1>4, <1>5 DEF ExitRequest

(* _lord_plea_play_done(): what the worker has replayed. *)
LEMMA ReplayedIs ==
  ASSUME PInv, Hears({"played"})
  PROVE  /\ Replayed \in Piers /\ Replayed.sat = "play" /\ pir.sat = "play"
         /\ Replayed.wri = Tail(pir.wri) /\ pir.wri # <<>> /\ out # <<>>
         /\ Replayed.liv = pir.liv /\ pir.liv /\ Replayed.wok = pir.wok
         /\ Replayed.gif = pir.gif /\ Replayed.wal = pir.wal
         /\ Replayed.ova = pir.ova /\ Replayed.eve \in Nat
         /\ Replayed.eve <= Len(hst) /\ Replayed.eve <= pay.sen
<1>1. /\ PleaExpected(out[1]) /\ out[1].typ = "played" /\ pir.liv /\ pir.wri # <<>>
      /\ pir.wri[1] \in Writs /\ PleaFits(out[1], pir.wri[1]) /\ out # <<>>
      /\ WritGood(pir.wri[1])
  BY HearsIs
<1>2. pir.sat = "play" /\ pir.wri[1].typ = "play"
  BY <1>1 DEF PleaExpected
<1>3. PICK w \in Writs : w = pir.wri[1]
  BY <1>1
<1>4. PICK e \in Nat : e = w.eve + Len(w.job) - 1
  <2>1. w.eve \in Nat /\ Len(w.job) \in Nat /\ 0 < w.eve
    BY <1>1, <1>2, <1>3 DEF WritGood, Writs
  <2>2. w.eve + Len(w.job) - 1 \in Nat
    BY <2>1
  <2>3. QED
    BY <2>2
<1>5. e <= Len(hst)
  BY <1>1, <1>3, <1>4 DEF PleaFits
<1>6. e <= pay.sen
  <2>1. 1 \in 1 .. Len(pir.wri)
    BY <1>1, KingFacts, SMTT(30)
  <2>2. QED
    BY <1>2, <1>3, <1>4, <2>1 DEF PInv, PlayGood
<1>7. PICK p \in Piers : p = LordPop(pir) /\ Alike(pir, p) /\ p.wri = Tail(pir.wri)
         /\ p.wok = pir.wok /\ p.gif = pir.gif /\ p.wal = pir.wal
         /\ p.ova = pir.ova
  <2>1. pir \in Piers
    BY DEF PInv, TypeOK
  <2>2. QED
    BY <1>1, <2>1, LordPopIs
<1>8. Replayed = [p EXCEPT !.eve = e]
  BY <1>3, <1>4, <1>7 DEF Replayed
<1>9. /\ Replayed \in Piers /\ Replayed.sat = p.sat /\ Replayed.wri = p.wri
      /\ Replayed.liv = p.liv /\ Replayed.wok = p.wok /\ Replayed.gif = p.gif
      /\ Replayed.wal = p.wal /\ Replayed.ova = p.ova /\ Replayed.eve = e
  BY <1>8 DEF Piers
<1>10. QED
  BY <1>1, <1>2, <1>4, <1>5, <1>6, <1>7, <1>9 DEF Alike

(* _lord_plea_ripe(): the worker is there. *)
LEMMA RipeIs ==
  ASSUME PInv, Hears({"ripe"}), NEW p,
         p = [pir EXCEPT !.liv = TRUE, !.eve = out[1].eve]
  PROVE  /\ p \in Piers /\ p.sat = pir.sat /\ pir.sat \in {"boot", "init"}
         /\ ~Booting /\ p.wri = <<>> /\ pir.wri = <<>> /\ out # <<>>
         /\ ~pir.liv /\ p.liv /\ p.wok = FALSE /\ p.gif = <<>>
         /\ p.wal = pir.wal /\ p.ova = pir.ova /\ p.eve = out[1].eve
         /\ p.eve \in Nat /\ p.eve <= Len(hst) /\ p.pep = pir.pep
         /\ pir.sat = "init" => sen = dun
         /\ liv
<1>1. /\ PleaExpected(out[1]) /\ out[1].typ = "ripe" /\ out # <<>> /\ ~Booting
      /\ ~pir.liv /\ out[1].eve <= Len(hst) /\ out[1] \in Pleas
  BY HearsIs
<1>2. pir.sat \in {"boot", "init"} /\ (pir.sat = "init" => sen = dun) /\ liv
  BY <1>1 DEF PleaExpected
<1>3. pir.wri = <<>> /\ ~pir.wok /\ pir.gif = <<>>
  BY <1>2 DEF PInv, KingGood
<1>4. pir \in Piers /\ out[1].eve \in Nat
  BY <1>1 DEF PInv, TypeOK, Pleas
<1>5. /\ p \in Piers /\ p.sat = pir.sat /\ p.wri = pir.wri /\ p.liv = TRUE
      /\ p.wok = pir.wok /\ p.gif = pir.gif /\ p.wal = pir.wal
      /\ p.ova = pir.ova /\ p.eve = out[1].eve /\ p.pep = pir.pep
      /\ pir.wok \in BOOLEAN
  BY <1>4 DEF Piers
<1>6. QED
  BY <1>1, <1>2, <1>3, <1>4, <1>5

(* Prepared for an upgrade. *)
LEMMA OnPreparedInv == PInv /\ OnPrepared => PInv'
<1>1. SUFFICES ASSUME PInv, OnPrepared PROVE PInv'
  OBVIOUS
<1>2. out' = Tail(out) /\ UNCHANGED <<srf, hst, chk, fx, env>>
  BY <1>1 DEF OnPrepared, Heard
<1>3. CASE /\ Hears({"ripe"})
           /\ ExitNow([pir EXCEPT !.liv = TRUE, !.eve = out[1].eve], pir.wri)
  <2>1. PICK p : p = [pir EXCEPT !.liv = TRUE, !.eve = out[1].eve]
    OBVIOUS
  <2>2. /\ p \in Piers /\ pir.sat \in {"boot", "init"}
        /\ ~Booting /\ p.wri = <<>> /\ pir.wri = <<>> /\ out # <<>>
        /\ ~pir.liv /\ p.liv /\ p.wok = FALSE /\ p.gif = <<>>
        /\ p.ova = pir.ova /\ p.eve <= Len(hst)
    BY <1>1, <1>3, <2>1, RipeIs
  <2>3. ExitNow(p, pir.wri)
    BY <1>3, <2>1
  <2>4. /\ Len(pir.wri) <= Len(p.wri)
        /\ \A i \in 1 .. Len(pir.wri) : FALSE
        /\ \A i \in Len(pir.wri) + 1 .. Len(p.wri) : FALSE
    <3>1. Len(<<>>) = 0 /\ 1 .. 0 = {} /\ 0 + 1 .. 0 = {} /\ 0 <= 0
      OBVIOUS
    <3>2. QED
      BY <2>2, <3>1
  <2>5. KeepsTo(pir.wri, p.liv)
    BY <1>2, <2>2 DEF KeepsTo
  <2>6. ExitFrom(pir.wri, p)
    BY <1>2, <2>2, <2>4, <2>5 DEF ExitFrom
  <2>7. QED
    BY <1>1, <2>2, <2>3, <2>6, ExitNowInv
<1>4. CASE /\ Hears({"played"})
           /\ Replayed.eve = dun
           /\ ExitNow(LordLive(Replayed, "save"), Replayed.wri)
  <2>1. PICK p : p = Replayed
    OBVIOUS
  <2>2. /\ p \in Piers /\ pir.sat = "play" /\ p.wri = Tail(pir.wri)
        /\ pir.wri # <<>> /\ out # <<>> /\ p.liv = pir.liv /\ pir.liv
        /\ p.wok = pir.wok /\ p.gif = pir.gif /\ p.ova = pir.ova
        /\ p.eve <= Len(hst)
    BY <1>1, <1>4, <2>1, ReplayedIs
  <2>3. PICK q : q = LordLive(p, "save")
    OBVIOUS
  <2>4. /\ q \in Piers /\ Alike(p, q) /\ q.wok = p.wok
        /\ q.gif = p.gif /\ q.ova = p.ova /\ Len(p.wri) <= Len(q.wri)
        /\ \A i \in 1 .. Len(p.wri) : q.wri[i] = p.wri[i]
        /\ \A i \in Len(p.wri) + 1 .. Len(q.wri) :
             q.wri[i].typ = "save" /\ q.wri[i].eve = p.eve
    <3>1. PICK t \in WritType : t = "save"
      BY DEF WritType
    <3>2. p \in Piers /\ q = LordLive(p, t)
      BY <2>2, <2>3, <3>1
    <3>3. /\ q \in Piers /\ Alike(p, q) /\ q.wok = p.wok
          /\ q.gif = p.gif /\ q.ova = p.ova /\ Len(p.wri) <= Len(q.wri)
          /\ \A i \in 1 .. Len(p.wri) : q.wri[i] = p.wri[i]
      BY <3>2, LordLiveIs
    <3>4. \A i \in Len(p.wri) + 1 .. Len(q.wri) :
            q.wri[i].typ = t /\ q.wri[i].eve = p.eve
      BY <3>2, LordLiveIs
    <3>5. QED
      BY <3>1, <3>3, <3>4
  <2>5. p.eve <= Gulf
    BY <1>1, <1>4, <2>1, KingFacts
  <2>6. ~pir.wok /\ pir.gif = <<>> /\ pir.wok \in BOOLEAN /\ ~Booting
    BY <1>1, <2>2 DEF PInv, KingGood, TypeOK, Piers, Booting
  <2>7. ExitNow(q, p.wri)
    BY <1>4, <2>1, <2>3
  <2>8. ExitFrom(p.wri, q)
    BY <1>2, <2>2, <2>4, <2>5, <2>6, SMTT(30) DEF ExitFrom, KeepsTo, Alike
  <2>9. QED
    BY <1>1, <2>4, <2>7, <2>8, ExitNowInv
<1>5. QED
  BY <1>1, <1>3, <1>4 DEF OnPrepared

-----------------------------------------------------------------------------
(* Replay *)

(* The queue of a replay continues what was sent, up to the target. *)
QueGood(y) ==
  /\ y.sen + Len(y.que) <= y.eve
  /\ \A i \in 1 .. Len(y.que) :
       y.que[i].eve = y.sen + i /\ y.que[i].job = db[y.sen + i]

(* The outstanding read continues the queue. *)
ReadFits(y, r) ==
  /\ Len(r) <= 1
  /\ r # <<>> =>
       /\ r[1].eve = y.sen + Len(y.que) + 1
       /\ r[1].eve = y.req
       /\ r[1].eve + r[1].len - 1 <= y.eve
       /\ Good(db, r[1])

(* The batches of a queue of writs end at e, or before. *)
PlaysTo(s, e) ==
  \A i \in 1 .. Len(s) :
    s[i].typ = "play" => s[i].eve + Len(s[i].job) - 1 <= e

LEMMA PlayFields ==
  ASSUME NEW y \in Plays
  PROVE  /\ y.eve \in Nat /\ y.sen \in Nat /\ y.req \in Nat
         /\ y.que \in Seq(Fact) /\ Len(y.que) \in Nat
<1>1. y.eve \in Nat /\ y.sen \in Nat /\ y.req \in Nat /\ y.que \in Seq(Fact)
  BY DEF Plays
<1>2. QED
  BY <1>1

(* The last event of the queue. *)
LEMMA PlayLastIs ==
  ASSUME NEW y \in Plays, QueGood(y)
  PROVE  PlayLast(y) = y.sen + Len(y.que)
<1>1. /\ y.sen \in Nat /\ y.que \in Seq(Fact) /\ Len(y.que) \in Nat
  BY PlayFields
<1>2. CASE y.que = <<>>
  BY <1>1, <1>2 DEF PlayLast
<1>3. CASE y.que # <<>>
  <2>1. Len(y.que) \in 1 .. Len(y.que)
    BY <1>1, <1>3
  <2>2. QED
    BY <1>3, <2>1 DEF PlayLast, QueGood
<1>4. QED
  BY <1>2, <1>3

(* _pier_play_next(): a batch has an event, and no more than there are. *)
LEMMA PlayNextIs ==
  ASSUME NEW y \in Plays, QueGood(y), y.que # <<>>
  PROVE  PlayNext(y, PlayLen(y)) \in 1 .. Len(y.que)
<1>1. /\ y.eve \in Nat /\ y.sen \in Nat /\ y.que \in Seq(Fact)
      /\ Len(y.que) \in Nat
  BY PlayFields
<1>2. Len(y.que) > 0
  BY <1>1
<1>3. y.eve - y.sen \in Nat
  BY <1>1, <1>2 DEF QueGood
<1>4. PlayBatch \in Nat /\ Lif \in Nat
  BY PierAssumption
<1>5. PlayLen(y) \in Nat
  BY <1>1, <1>3, <1>4 DEF PlayLen, Greater, Lesser
<1>6. QED
  BY <1>1, <1>2, <1>5 DEF PlayNext, Lesser

(* _pier_play_send(): the batch holds the events that follow the last one  *)
(* sent, as the log has them, and the queue goes on behind it.             *)
LEMMA PlaySentIs ==
  ASSUME NEW y \in Plays, QueGood(y), y.que # <<>>,
         NEW n, n = PlayNext(y, PlayLen(y)),
         NEW w, w = PlayWrit(y), NEW z, z = PlaySent(y)
  PROVE  /\ n \in 1 .. Len(y.que)
         /\ w \in Writs /\ w.typ = "play" /\ w.eve = y.sen + 1 /\ Len(w.job) = n
         /\ \A i \in 1 .. n : w.job[i] = db[y.sen + i]
         /\ z \in Plays /\ z.eve = y.eve /\ z.req = y.req /\ z.sen = y.sen + n
         /\ Len(z.que) = Len(y.que) - n
         /\ \A i \in 1 .. Len(y.que) - n : z.que[i] = y.que[n + i]
<1>1. /\ y.eve \in Nat /\ y.sen \in Nat /\ y.que \in Seq(Fact)
      /\ Len(y.que) \in Nat /\ y.req \in Nat
  BY PlayFields
<1>2. n \in 1 .. Len(y.que) /\ n \in Nat
  BY <1>1, PlayNextIs
<1>3. /\ \A i \in 1 .. Len(y.que) :
           /\ y.que[i].eve = y.sen + i /\ y.que[i].job = db[y.sen + i]
           /\ y.que[i] \in Fact
  BY <1>1 DEF QueGood
<1>4. /\ w \in Writs /\ w.typ = "play" /\ w.eve = y.sen + 1 /\ Len(w.job) = n
      /\ \A i \in 1 .. n : w.job[i] = db[y.sen + i]
  <2> DEFINE s == [i \in 1 .. n |-> y.que[i].job]
  <2>1. \A i \in 1 .. n : i \in 1 .. Len(y.que)
    BY <1>1, <1>2
  <2>2. \A i \in 1 .. n : y.que[i].job \in Job /\ y.que[i].job = db[y.sen + i]
    BY <1>3, <2>1 DEF Fact
  <2>3. s \in Seq(Job) /\ Len(s) = n /\ \A i \in 1 .. n : s[i] = db[y.sen + i]
    BY <1>2, <2>2
  <2>4. y.que[1].eve = y.sen + 1 /\ y.sen + 1 \in Nat
    <3>1. 1 \in 1 .. Len(y.que)
      BY <1>1, <1>2
    <3>2. QED
      BY <1>1, <1>3, <3>1
  <2>5. w = [typ |-> "play", eve |-> y.sen + 1, job |-> s]
    BY <2>4 DEF PlayWrit, Writ
  <2> HIDE DEF s
  <2>6. QED
    BY <2>3, <2>4, <2>5 DEF Writs, WritType
<1>5. PICK t \in Seq(Fact) : t = SubSeq(y.que, n + 1, Len(y.que))
        /\ Len(t) = Len(y.que) - n
        /\ \A i \in 1 .. Len(y.que) - n : t[i] = y.que[n + i]
  <2> DEFINE u == SubSeq(y.que, n + 1, Len(y.que))
  <2>1. u \in Seq(Fact) /\ Len(u) = Len(y.que) - n
    BY <1>1, <1>2, SMTT(30)
  <2>2. \A i \in 1 .. Len(y.que) - n : u[i] = y.que[n + i]
    BY <1>1, <1>2, SMTT(30)
  <2> HIDE DEF u
  <2>3. QED
    BY <2>1, <2>2 DEF u
<1>6. y.que[n].eve = y.sen + n /\ y.sen + n \in Nat
  BY <1>1, <1>2, <1>3
<1>7. z = [y EXCEPT !.sen = y.sen + n, !.que = t]
  BY <1>5, <1>6 DEF PlaySent
<1>8. /\ z \in Plays /\ z.eve = y.eve /\ z.req = y.req /\ z.sen = y.sen + n
      /\ z.que = t
  BY <1>1, <1>6, <1>7 DEF Plays
<1>9. QED
  BY <1>2, <1>4, <1>5, <1>8

(* The queue behind a batch still continues it. *)
LEMMA PlaySentGood ==
  ASSUME NEW y \in Plays, QueGood(y), NEW r, ReadFits(y, r),
         NEW z, z = PlaySent(y)
  PROVE  /\ z \in Plays /\ z.eve = y.eve /\ z.req = y.req /\ y.sen <= z.sen
         /\ z.sen + Len(z.que) = y.sen + Len(y.que)
         /\ QueGood(z) /\ ReadFits(z, r)
<1>1. /\ y.eve \in Nat /\ y.sen \in Nat /\ y.que \in Seq(Fact)
      /\ Len(y.que) \in Nat /\ y.req \in Nat
  BY PlayFields
<1>2. CASE y.que = <<>>
  <2>1. z = y
    BY <1>2 DEF PlaySent
  <2>2. QED
    BY <1>1, <2>1
<1>3. CASE y.que # <<>>
  <2>1. PICK n : n = PlayNext(y, PlayLen(y))
    OBVIOUS
  <2>2. /\ n \in 1 .. Len(y.que) /\ n \in Nat
        /\ z \in Plays /\ z.eve = y.eve /\ z.req = y.req /\ z.sen = y.sen + n
        /\ Len(z.que) = Len(y.que) - n
        /\ \A i \in 1 .. Len(y.que) - n : z.que[i] = y.que[n + i]
    BY <1>1, <1>3, <2>1, PlaySentIs, SMTT(30)
  <2>3. y.sen <= z.sen /\ z.sen + Len(z.que) = y.sen + Len(y.que)
    BY <1>1, <2>2
  <2>4. QueGood(z)
    <3>1. z.sen + Len(z.que) <= z.eve
      BY <2>2, <2>3 DEF QueGood
    <3>2. ASSUME NEW i \in 1 .. Len(z.que)
          PROVE  z.que[i].eve = z.sen + i /\ z.que[i].job = db[z.sen + i]
      <4>1. n + i \in 1 .. Len(y.que) /\ y.sen + (n + i) = z.sen + i
            /\ i \in 1 .. Len(y.que) - n
        BY <1>1, <2>2, SMTT(30)
      <4>2. /\ y.que[n + i].eve = y.sen + (n + i)
            /\ y.que[n + i].job = db[y.sen + (n + i)]
        BY <4>1 DEF QueGood
      <4>3. QED
        BY <2>2, <4>1, <4>2, SMTT(30)
    <3>3. QED
      BY <3>1, <3>2 DEF QueGood
  <2>5. ReadFits(z, r)
    BY <2>2, <2>3 DEF ReadFits
  <2>6. QED
    BY <2>2, <2>3, <2>4, <2>5
<1>4. QED
  BY <1>2, <1>3

(* One read, of the events after the queue. *)
LEMMA OneRead ==
  ASSUME NEW a, NEW b, NEW x, Len(b) = 1, b[1] = x,
         x.eve = a.sen + Len(a.que) + 1, x.eve = a.req,
         x.eve + x.len - 1 <= a.eve, Good(db, x)
  PROVE  ReadFits(a, b)
  BY DEF ReadFits

(* _pier_play_read(): only when no read is outstanding, and within the     *)
(* target.                                                                 *)
LEMMA PlayReadsGood ==
  ASSUME NEW z \in Plays, QueGood(z), NEW r \in Seq(Reads), ReadFits(z, r),
         NEW g \in Nat, DOMAIN db = 1 .. g, z.eve <= g,
         NEW a, a = (IF PlayReads(z) THEN [z EXCEPT !.req = PlayLast(z) + 1] ELSE z),
         NEW b, b = (IF PlayReads(z)
                     THEN Asked(r, PlayLast(z) + 1,
                                Lesser(z.eve - PlayLast(z), ReadBatch))
                     ELSE r)
  PROVE  /\ a \in Plays /\ a.eve = z.eve /\ a.sen = z.sen /\ a.que = z.que
         /\ b \in Seq(Reads) /\ ReadFits(a, b)
<1>1. /\ z.eve \in Nat /\ z.sen \in Nat /\ z.que \in Seq(Fact)
      /\ Len(z.que) \in Nat /\ z.req \in Nat
  BY PlayFields
<1>2. CASE ~PlayReads(z)
  BY <1>2
<1>3. CASE PlayReads(z)
  <2>1. PICK l \in Nat : l = PlayLast(z) /\ l = z.sen + Len(z.que)
    <3>1. PlayLast(z) = z.sen + Len(z.que) /\ z.sen + Len(z.que) \in Nat
      BY <1>1, PlayLastIs, SMTT(30)
    <3>2. QED
      BY <3>1
  <2>2. l < z.eve /\ l + 1 > z.req
    BY <1>3, <2>1 DEF PlayReads
  <2>3. r = <<>>
    BY <1>1, <2>1, <2>2 DEF ReadFits
  <2>4. PICK m \in Nat : m = Lesser(z.eve - l, ReadBatch) /\ 0 < m /\ m <= z.eve - l
    <3>1. ReadBatch \in Nat /\ 0 < ReadBatch
      BY PierAssumption, SMTT(30)
    <3>2. z.eve - l \in Nat /\ 0 < z.eve - l
      BY <1>1, <2>2, SMTT(30)
    <3>3. QED
      BY <3>1, <3>2 DEF Lesser
  <2>5. PICK x \in Reads : x = [sat |-> "wait", eve |-> l + 1, len |-> m, fac |-> <<>>]
                           /\ x.sat = "wait" /\ x.eve = l + 1 /\ x.len = m
    <3> DEFINE u == [sat |-> "wait", eve |-> l + 1, len |-> m, fac |-> <<>>]
    <3>1. <<>> \in Seq(Fact) /\ l + 1 \in Nat
      OBVIOUS
    <3>2. u \in Reads
      BY <3>1 DEF Reads
    <3>3. u.sat = "wait" /\ u.eve = l + 1 /\ u.len = m
      OBVIOUS
    <3> HIDE DEF u
    <3>4. QED
      BY <3>2, <3>3 DEF u
  <2>6. b = Append(<<>>, x)
    BY <1>3, <2>1, <2>3, <2>4, <2>5 DEF Asked
  <2>7. b \in Seq(Reads) /\ Len(b) = 1 /\ b[1] = x
    <3>1. <<>> \in Seq(Reads) /\ Len(<<>>) = 0
      OBVIOUS
    <3>2. /\ Append(<<>>, x) \in Seq(Reads) /\ Len(Append(<<>>, x)) = 1
          /\ Append(<<>>, x)[1] = x
      BY <3>1
    <3>3. QED
      BY <2>6, <3>2
  <2>8. /\ a \in Plays /\ a.eve = z.eve /\ a.sen = z.sen /\ a.que = z.que
        /\ a.req = l + 1
    <3>1. a = [z EXCEPT !.req = l + 1] /\ l + 1 \in Nat
      BY <1>3, <2>1
    <3>2. QED
      BY <3>1 DEF Plays
  <2>9. Good(db, x)
    <3>1. l + 1 \in 1 .. g
      BY <1>1, <2>2, SMTT(30)
    <3>2. QED
      BY <2>4, <2>5, <3>1 DEF Good
  <2>10. x.eve + x.len - 1 <= z.eve
    BY <1>1, <2>4, <2>5, SMTT(30)
  <2>11. ReadFits(a, b)
    <3>1. x.eve = a.sen + Len(a.que) + 1 /\ x.eve = a.req
      BY <2>1, <2>5, <2>8
    <3>2. x.eve + x.len - 1 <= a.eve
      BY <2>8, <2>10
    <3>3. b[1] = x /\ Len(b) = 1
      BY <2>7, Zenon
    <3>4. QED
      BY <2>9, <3>1, <3>2, <3>3, OneRead
  <2>12. QED
    BY <2>7, <2>8, <2>11
<1>4. QED
  BY <1>2, <1>3

(* A callback that ends in _pier_play() with king p, replay y and reads r. *)
PlayFrom(old, p, y, r, d) ==
  /\ pir.sat \in {"boot", "init", "play"}
  /\ KeepsTo(old, TRUE) /\ p.wri = old
  /\ p.sat = "play" /\ p.liv = TRUE /\ p.wok = FALSE /\ p.gif = <<>>
  /\ p.eve <= Len(hst) /\ p.ova = pir.ova /\ p.wal = pir.wal
  /\ y.eve <= d /\ p.eve <= y.sen
  /\ QueGood(y) /\ ReadFits(y, r) /\ PlaysTo(old, y.sen)
  /\ d = dun' /\ sen' = d /\ d <= Gulf /\ liv' /\ meta' = Len(MetaKeys)
  /\ UNCHANGED <<db, srf, hst, chk, env>>
  /\ red' \in Seq(Reads) => Core'
  /\ Written' /\ LogFits

(* What all of its outcomes have in common. *)
PlayEnd(old, p) ==
  /\ pir' \in Piers /\ pir'.liv = TRUE /\ pir'.eve = p.eve
  /\ pir'.wok = FALSE /\ pir'.gif = <<>>
  /\ pir'.ova = pir.ova /\ pir'.wal = pir.wal
  /\ Len(old) <= Len(pir'.wri)
  /\ \A i \in 1 .. Len(old) : pir'.wri[i] = old[i]
  /\ \A i \in Len(old) + 1 .. Len(pir'.wri) :
       WritGood(pir'.wri[i]) /\ (pir'.wri[i].typ = "work" => pir'.sat = "wyrd")
  /\ pay' \in Plays /\ red' \in Seq(Reads)
  /\ red' # <<>> => Good(db, red'[1]) /\ Len(red') = 1

LEMMA PlayEnds ==
  ASSUME PInv, NEW old, NEW p \in Piers, NEW y \in Plays, NEW r \in Seq(Reads),
         NEW d \in Nat, PlayFrom(old, p, y, r, d), PlayEnd(old, p),
         PlaySends(old),
         \/ pir'.sat = "play" /\ PlayGood'
         \/ pir'.sat = "wyrd" /\ red' = <<>> /\ p.eve = d
  PROVE  PInv'
<1>1. /\ pir.sat \in {"boot", "init", "play"}
      /\ KeepsTo(old, TRUE)
      /\ p.eve <= Len(hst)
      /\ d = dun' /\ sen' = d /\ liv' /\ meta' = Len(MetaKeys)
      /\ UNCHANGED <<db, srf, hst, chk, env>>
      /\ red' \in Seq(Reads) => Core'
      /\ Written' /\ LogFits
  BY DEF PlayFrom
<1>2. /\ pir' \in Piers /\ pir'.liv = TRUE /\ pir'.eve = p.eve
      /\ pir'.wok = FALSE /\ pir'.gif = <<>>
      /\ pir'.ova = pir.ova /\ pir'.wal = pir.wal
      /\ pay' \in Plays /\ red' \in Seq(Reads)
      /\ red' # <<>> => Good(db, red'[1]) /\ Len(red') = 1
      /\ pir'.sat \in {"play", "wyrd"}
  BY DEF PlayEnd
<1>3. /\ Len(old) <= Len(pir'.wri)
      /\ \A i \in 1 .. Len(old) : pir'.wri[i] = old[i]
      /\ \A i \in Len(old) + 1 .. Len(pir'.wri) :
           WritGood(pir'.wri[i]) /\ (pir'.wri[i].typ = "work" => pir'.sat = "wyrd")
  BY DEF PlayEnd
<1>4. Core'
  BY <1>1, <1>2
<1>5. LogGood'
  <2>1. ReadsGood'
    <3>1. CASE red' = <<>>
      <4>1. Len(red') = 0
        BY <3>1
      <4>2. QED
        BY <4>1 DEF ReadsGood
    <3>2. CASE red' # <<>>
      <4>1. Len(red') = 1 /\ Good(db', red'[1])
        BY <1>1, <1>2, <3>2
      <4>2. QED
        BY <4>1 DEF ReadsGood
    <3>3. QED
      BY <3>1, <3>2
  <2>2. QED
    BY <1>1, <1>4, <2>1 DEF LogGood
<1>6. inn' = inn \o SubSeq(pir'.wri, Len(old) + 1, Len(pir'.wri)) /\ fx' = fx
  BY DEF PlaySends
<1>7. KingTypes
  BY <1>1, <1>2, <1>6 DEF KingTypes, PInv, TypeOK
<1>8. KingGood'
  BY <1>1, <1>2 DEF KingGood
<1>9. PlayGood'
  BY DEF PlayGood
<1>10. EffectsGood'
  BY <1>1, <1>2, <1>6
     DEF PInv, EffectsGood, EffectsDurable, EffectsOnce, GiftsGood
<1>11. KingStep(old)
  <2>1. Keeps(old)
    BY <1>1, <1>2 DEF Keeps
  <2>2. Sends(old)
    BY <1>3, <1>6 DEF Sends
  <2>3. ASSUME NEW i \in Len(old) + 1 .. Len(pir'.wri) PROVE MaySend(pir'.wri[i])
    <3>1. WritGood(pir'.wri[i])
      BY <1>3
    <3>2. ASSUME pir'.wri[i].typ = "work"
          PROVE  pir'.sat = "wyrd" /\ Gulf <= Len(hst) /\ sen' <= Len(hst)
      <4>1. pir'.sat = "wyrd" /\ p.eve = d
        BY <1>3, <3>2
      <4>2. Gulf' <= sen' /\ Gulf' = Gulf
        BY <1>1, <1>4, SeenTableNext DEF TableSeen, Gulf
      <4>3. QED
        BY <1>1, <4>1, <4>2, KingFacts, SMTT(30)
    <3>3. QED
      BY <1>2, <3>1, <3>2 DEF MaySend
  <2>4. /\ \A i \in 1 .. Len(pir'.ova) : pir'.ova[i] \in Ovum
        /\ \A i \in 1 .. Len(pir'.wal) : pir'.wal[i] = "exit" => FALSE
    BY <1>1, <1>2 DEF PInv, QueuesGood
  <2>5. pir.sat # "wyrd" /\ ~pir.wok
    BY <1>1 DEF PInv, KingGood
  <2>6. QED
    BY <1>1, <2>1, <2>2, <2>3, <2>4, <2>5 DEF KingStep
<1>12. QED
  BY <1>2, <1>5, <1>7, <1>8, <1>9, <1>10, <1>11, KingStepInv

(* _pier_wyrd_init(). *)
LEMMA WyrdInitIs ==
  ASSUME NEW p \in Piers, NEW q, q = WyrdInit(p)
  PROVE  /\ q \in Piers /\ q.sat = "wyrd" /\ q.liv = p.liv /\ q.eve = p.eve
         /\ q.wok = p.wok /\ q.gif = p.gif /\ q.ova = p.ova /\ q.wal = p.wal
         /\ Len(q.wri) = Len(p.wri) + 1
         /\ \A i \in 1 .. Len(p.wri) : q.wri[i] = p.wri[i]
         /\ WritGood(q.wri[Len(p.wri) + 1])
<1> DEFINE a == [p EXCEPT !.sat = "wyrd"]
           w == Writ("work", 0, <<Wyrd>>)
<1>1. q = LordPlan(a, w)
  BY DEF WyrdInit
<1>2. Wyrd \in Ovum
  <2>1. MaxOva \in Nat
    BY PierAssumption
  <2>2. 0 \in 0 .. MaxOva
    BY <2>1
  <2>3. QED
    BY <2>2 DEF Wyrd, Ovum
<1>3. w \in Writs /\ w.typ = "work" /\ w.job = <<Wyrd>>
  <2>1. <<Wyrd>> \in Seq(Job)
    BY <1>2, OvumIs
  <2>2. QED
    BY <2>1 DEF Writ, Writs, WritType
<1>4. WritGood(w)
  BY <1>2, <1>3 DEF WritGood
<1>5. /\ a \in Piers /\ a.sat = "wyrd" /\ a.liv = p.liv /\ a.eve = p.eve
      /\ a.wok = p.wok /\ a.gif = p.gif /\ a.ova = p.ova /\ a.wal = p.wal
      /\ a.wri = p.wri
  BY DEF Piers, States
<1> HIDE DEF a, w
<1>6. /\ q \in Piers /\ Alike(a, q) /\ q.wok = a.wok /\ q.gif = a.gif
      /\ q.wal = a.wal /\ q.ova = a.ova
      /\ Len(q.wri) = Len(a.wri) + 1 /\ q.wri[Len(a.wri) + 1] = w
      /\ \A i \in 1 .. Len(a.wri) : q.wri[i] = a.wri[i]
  BY <1>1, <1>3, <1>5, LordPlanIs, SMTT(30)
<1>7. QED
  BY <1>4, <1>5, <1>6 DEF Alike

(* At the target the queue is empty and no read is outstanding. *)
LEMMA AtTarget ==
  ASSUME NEW y \in Plays, NEW r \in Seq(Reads), NEW e \in Nat, QueGood(y),
         ReadFits(y, r), e <= y.sen, e = y.eve
  PROVE  r = <<>>
<1>1. /\ y.eve \in Nat /\ y.sen \in Nat /\ Len(y.que) \in Nat
  BY PlayFields
<1>2. y.sen + Len(y.que) = y.eve
  BY <1>1 DEF QueGood
<1>3. SUFFICES ASSUME r # <<>> PROVE FALSE
  OBVIOUS
<1>4. /\ r[1].eve = y.sen + Len(y.que) + 1 /\ r[1].eve + r[1].len - 1 <= y.eve
      /\ 0 < r[1].len
  BY <1>3 DEF ReadFits, Good
<1>5. r[1].len \in Nat
  <2>1. r[1] \in Reads
    BY <1>3
  <2>2. QED
    BY <2>1 DEF Reads
<1>6. QED
  BY <1>1, <1>2, <1>4, <1>5, SMTT(30)

(* The invariant of a replay that goes on. *)
LEMMA PlayGoes ==
  ASSUME NEW p, NEW d \in Nat, NEW a \in Plays, NEW b \in Seq(Reads), NEW s,
         pay' = a, red' = b, pir'.eve = p.eve, pir'.wri = s, dun' = d, db' = db,
         a.eve <= d, p.eve <= a.sen, QueGood(a), ReadFits(a, b), PlaysTo(s, a.sen)
  PROVE  PlayGood'
  BY DEF PlayGood, QueGood, ReadFits, PlaysTo

(* _pier_play() at the target. *)
LEMMA PlayArrives ==
  ASSUME PInv, NEW old, NEW p \in Piers, NEW y \in Plays, NEW r \in Seq(Reads),
         NEW d \in Nat, PlayFrom(old, p, y, r, d), PierPlay(p, y, r, d),
         PlaySends(old), p.eve = y.eve
  PROVE  PInv'
<1>1. /\ p.sat = "play" /\ p.liv = TRUE /\ p.wok = FALSE /\ p.gif = <<>>
      /\ p.ova = pir.ova /\ p.wal = pir.wal /\ p.wri = old
      /\ y.eve <= d /\ p.eve <= y.sen /\ d = dun' /\ db' = db
      /\ QueGood(y) /\ ReadFits(y, r) /\ PlaysTo(old, y.sen)
      /\ d <= Gulf
  BY DEF PlayFrom
<1>2. /\ pir' = IF y.eve < d THEN LordLive(p, "cram")
                ELSE WyrdInit(LordLive(p, "save"))
      /\ pay' = y /\ red' = r
  BY DEF PierPlay
<1>3. /\ p.eve \in Nat /\ p.wri \in Seq(Writs) /\ Len(p.wri) \in Nat
      /\ y.eve \in Nat
  BY PierFields, PlayFields
<1>4. r = <<>>
  BY <1>1, <1>3, AtTarget
<1>5. Gulf \in Nat
  BY KingFacts
<1>6. CASE y.eve < d
  <2>1. PICK t \in WritType : t = "cram"
    BY DEF WritType
  <2>2. PICK q : q = LordLive(p, t) /\ q = pir'
    BY <1>2, <1>6, <2>1
  <2>3. /\ q \in Piers /\ Alike(p, q) /\ q.wok = p.wok /\ q.gif = p.gif
        /\ q.wal = p.wal /\ q.ova = p.ova
        /\ Len(p.wri) <= Len(q.wri)
        /\ \A i \in 1 .. Len(p.wri) : q.wri[i] = p.wri[i]
        /\ \A i \in Len(p.wri) + 1 .. Len(q.wri) :
             q.wri[i].typ = t /\ q.wri[i].eve = p.eve
    <3>1. q = LordLive(p, t)
      BY <2>2
    <3>2. /\ q \in Piers /\ Alike(p, q) /\ q.wok = p.wok /\ q.gif = p.gif
          /\ q.wal = p.wal /\ q.ova = p.ova
      BY <3>1, LordLiveIs
    <3>3. /\ Len(p.wri) <= Len(q.wri)
          /\ \A i \in 1 .. Len(p.wri) : q.wri[i] = p.wri[i]
      BY <3>1, LordLiveIs
    <3>4. \A i \in Len(p.wri) + 1 .. Len(q.wri) :
            q.wri[i].typ = t /\ q.wri[i].eve = p.eve
      BY <3>1, LordLiveIs
    <3>5. QED
      BY <3>2, <3>3, <3>4
  <2>4. \A i \in Len(p.wri) + 1 .. Len(q.wri) :
          WritGood(q.wri[i]) /\ q.wri[i].typ # "work"
    BY <1>1, <1>3, <1>5, <2>1, <2>3, SMTT(30) DEF WritGood
  <2>5. PlayEnd(old, p)
    BY <1>1, <1>2, <1>4, <2>2, <2>3, <2>4 DEF PlayEnd, Alike
  <2>6. PlaysTo(q.wri, y.sen)
    <3>1. Len(q.wri) \in Nat
      BY <2>3, PierFields
    <3>2. ASSUME NEW i \in 1 .. Len(q.wri), q.wri[i].typ = "play"
          PROVE  q.wri[i].eve + Len(q.wri[i].job) - 1 <= y.sen
      <4>1. i \in 1 .. Len(p.wri) \/ i \in Len(p.wri) + 1 .. Len(q.wri)
        BY <1>3, <3>1
      <4>2. i \in 1 .. Len(p.wri)
        BY <2>1, <2>3, <3>2, <4>1
      <4>3. QED
        BY <1>1, <2>3, <3>2, <4>2 DEF PlaysTo
    <3>3. QED
      BY <3>2 DEF PlaysTo
  <2>7. PlayGood'
    <3>1. pir'.eve = p.eve /\ pir'.wri = q.wri
      BY <2>2, <2>3 DEF Alike
    <3>2. QED
      BY <1>1, <1>2, <2>6, <3>1, PlayGoes
  <2>8. pir'.sat = "play"
    BY <1>1, <2>2, <2>3 DEF Alike
  <2>9. QED
    BY <2>5, <2>7, <2>8, PlayEnds
<1>7. CASE ~(y.eve < d)
  <2>1. PICK t \in WritType : t = "save"
    BY DEF WritType
  <2>2. PICK s : s = LordLive(p, t)
    OBVIOUS
  <2>3. /\ s \in Piers /\ Alike(p, s) /\ s.wok = p.wok /\ s.gif = p.gif
        /\ s.wal = p.wal /\ s.ova = p.ova
        /\ Len(p.wri) <= Len(s.wri)
        /\ \A i \in 1 .. Len(p.wri) : s.wri[i] = p.wri[i]
        /\ \A i \in Len(p.wri) + 1 .. Len(s.wri) :
             s.wri[i].typ = t /\ s.wri[i].eve = p.eve
    <3>1. /\ s \in Piers /\ Alike(p, s) /\ s.wok = p.wok /\ s.gif = p.gif
          /\ s.wal = p.wal /\ s.ova = p.ova
      BY <2>2, LordLiveIs
    <3>2. /\ Len(p.wri) <= Len(s.wri)
          /\ \A i \in 1 .. Len(p.wri) : s.wri[i] = p.wri[i]
      BY <2>2, LordLiveIs
    <3>3. \A i \in Len(p.wri) + 1 .. Len(s.wri) :
            s.wri[i].typ = t /\ s.wri[i].eve = p.eve
      BY <2>2, LordLiveIs
    <3>4. QED
      BY <3>1, <3>2, <3>3
  <2>4. \A i \in Len(p.wri) + 1 .. Len(s.wri) : WritGood(s.wri[i])
    BY <1>1, <1>3, <1>5, <2>1, <2>3, SMTT(30) DEF WritGood
  <2>5. PICK q : q = WyrdInit(s) /\ q = pir'
    BY <1>2, <1>7, <2>1, <2>2
  <2>6. /\ q \in Piers /\ q.sat = "wyrd" /\ q.liv = s.liv /\ q.eve = s.eve
        /\ q.wok = s.wok /\ q.gif = s.gif /\ q.ova = s.ova /\ q.wal = s.wal
        /\ Len(q.wri) = Len(s.wri) + 1
        /\ \A i \in 1 .. Len(s.wri) : q.wri[i] = s.wri[i]
        /\ WritGood(q.wri[Len(s.wri) + 1])
    BY <2>3, <2>5, WyrdInitIs
  <2>7. Len(s.wri) \in Nat
    BY <2>3, PierFields
  <2>8. /\ Len(p.wri) <= Len(q.wri)
        /\ \A i \in 1 .. Len(p.wri) : q.wri[i] = p.wri[i]
    BY <1>3, <2>3, <2>6, <2>7, SMTT(30)
  <2>9. \A i \in Len(p.wri) + 1 .. Len(q.wri) : WritGood(q.wri[i])
    <3>1. TAKE i \in Len(p.wri) + 1 .. Len(q.wri)
    <3>2. CASE i <= Len(s.wri)
      <4>1. i \in 1 .. Len(s.wri) /\ i \in Len(p.wri) + 1 .. Len(s.wri)
        BY <1>3, <2>7, <3>2
      <4>2. QED
        BY <2>4, <2>6, <4>1
    <3>3. CASE ~(i <= Len(s.wri))
      <4>1. i = Len(s.wri) + 1
        BY <1>3, <2>6, <2>7, <3>3
      <4>2. QED
        BY <2>6, <4>1
    <3>4. QED
      BY <3>2, <3>3
  <2>10. PlayEnd(old, p)
    BY <1>1, <1>2, <1>4, <2>3, <2>5, <2>6, <2>8, <2>9 DEF PlayEnd, Alike
  <2>11. pir'.sat = "wyrd" /\ red' = <<>> /\ p.eve = d
    BY <1>1, <1>2, <1>3, <1>4, <1>7, <2>5, <2>6
  <2>12. QED
    BY <2>10, <2>11, PlayEnds
<1>8. QED
  BY <1>6, <1>7

(* _pier_play() short of the target. *)
LEMMA PlayAdvances ==
  ASSUME PInv, NEW old, NEW p \in Piers, NEW y \in Plays, NEW r \in Seq(Reads),
         NEW d \in Nat, PlayFrom(old, p, y, r, d), PierPlay(p, y, r, d),
         PlaySends(old), p.eve # y.eve
  PROVE  PInv'
<1>1. /\ p.sat = "play" /\ p.liv = TRUE /\ p.wok = FALSE /\ p.gif = <<>>
      /\ p.ova = pir.ova /\ p.wal = pir.wal /\ p.wri = old
      /\ y.eve <= d /\ p.eve <= y.sen /\ d = dun' /\ db' = db
      /\ QueGood(y) /\ ReadFits(y, r) /\ PlaysTo(old, y.sen)
      /\ d <= Gulf
  BY DEF PlayFrom
<1>2. /\ p.eve \in Nat /\ p.wri \in Seq(Writs) /\ Len(p.wri) \in Nat
      /\ y.eve \in Nat /\ y.sen \in Nat /\ y.que \in Seq(Fact) /\ Len(y.que) \in Nat
  BY PierFields, PlayFields
<1>3. PICK z : z = PlaySent(y)
  OBVIOUS
<1>4. /\ z \in Plays /\ z.eve = y.eve /\ z.req = y.req /\ y.sen <= z.sen
      /\ QueGood(z) /\ ReadFits(z, r)
  BY <1>1, <1>3, PlaySentGood
<1>5. PICK a : a = (IF PlayReads(z) THEN [z EXCEPT !.req = PlayLast(z) + 1] ELSE z)
  OBVIOUS
<1>6. PICK b : b = (IF PlayReads(z)
                    THEN Asked(r, PlayLast(z) + 1,
                               Lesser(z.eve - PlayLast(z), ReadBatch))
                    ELSE r)
  OBVIOUS
<1>7. /\ pir' = IF y.que = <<>> THEN p ELSE LordPlan(p, PlayWrit(y))
      /\ pay' = a /\ red' = b
  BY <1>3, <1>4, <1>5, <1>6 DEF PierPlay
<1>8. PICK g \in Nat : g = Gulf /\ DOMAIN db = 1 .. g /\ z.eve <= g
  BY <1>1, <1>2, <1>4, KingFacts, SMTT(30)
<1>9. /\ a \in Plays /\ a.eve = z.eve /\ a.sen = z.sen /\ a.que = z.que
      /\ b \in Seq(Reads) /\ ReadFits(a, b)
  BY <1>4, <1>5, <1>6, <1>8, PlayReadsGood
<1>10. QueGood(a) /\ a.eve <= d /\ p.eve <= a.sen /\ a.sen \in Nat
  <2>1. QueGood(a)
    BY <1>4, <1>9 DEF QueGood
  <2>2. z.sen \in Nat
    BY <1>4, PlayFields
  <2>3. QED
    BY <1>1, <1>2, <1>4, <1>9, <2>1, <2>2
<1>11. red' # <<>> => Good(db, red'[1]) /\ Len(red') = 1
  <2>1. b # <<>> => Good(db, b[1]) /\ Len(b) <= 1
    BY <1>9 DEF ReadFits
  <2>2. b # <<>> => Len(b) \in Nat /\ Len(b) # 0
    BY <1>9
  <2>3. b # <<>> => Len(b) = 1
    <3>1. \A m \in Nat : m <= 1 /\ m # 0 => m = 1
      OBVIOUS
    <3>2. QED
      BY <2>1, <2>2, <3>1, Zenon
  <2>4. QED
    BY <1>7, <2>1, <2>3, Zenon
<1>12. CASE y.que = <<>>
  <2>1. pir' = p
    BY <1>7, <1>12
  <2>2. z = y
    BY <1>3, <1>12 DEF PlaySent
  <2>3. \A i \in Len(p.wri) + 1 .. Len(p.wri) : FALSE
    BY <1>2
  <2>4. PlayEnd(old, p)
    BY <1>1, <1>2, <1>7, <1>9, <1>11, <2>1, <2>3, SMTT(30) DEF PlayEnd
  <2>5. PlaysTo(old, a.sen)
    BY <1>1, <1>9, <2>2
  <2>6. pir'.eve = p.eve /\ pir'.wri = old /\ dun' = d
    BY <1>1, <2>1
  <2>7. PlayGood'
    BY <1>1, <1>7, <1>9, <1>10, <2>5, <2>6, PlayGoes
  <2>8. pir'.sat = "play"
    BY <1>1, <2>1
  <2>9. QED
    BY <2>4, <2>7, <2>8, PlayEnds
<1>13. CASE y.que # <<>>
  <2>1. PICK n : n = PlayNext(y, PlayLen(y))
    OBVIOUS
  <2>2. PICK w : w = PlayWrit(y)
    OBVIOUS
  <2>3. /\ n \in 1 .. Len(y.que)
        /\ w \in Writs /\ w.typ = "play" /\ w.eve = y.sen + 1 /\ Len(w.job) = n
        /\ \A i \in 1 .. n : w.job[i] = db[y.sen + i]
        /\ z.sen = y.sen + n
    BY <1>1, <1>3, <1>13, <2>1, <2>2, PlaySentIs
  <2>4. PICK q : q = LordPlan(p, w) /\ q = pir'
    BY <1>7, <1>13, <2>2
  <2>5. /\ q \in Piers /\ Alike(p, q) /\ q.wok = p.wok
        /\ q.gif = p.gif /\ q.wal = p.wal /\ q.ova = p.ova
        /\ Len(q.wri) = Len(p.wri) + 1 /\ q.wri[Len(p.wri) + 1] = w
        /\ \A i \in 1 .. Len(p.wri) : q.wri[i] = p.wri[i]
    <3>1. w \in Writs /\ q = LordPlan(p, w)
      BY <2>3, <2>4
    <3>2. /\ q \in Piers /\ Alike(p, q) /\ q.wok = p.wok
          /\ q.gif = p.gif /\ q.wal = p.wal /\ q.ova = p.ova
      BY <3>1, LordPlanIs
    <3>3. /\ Len(q.wri) = Len(p.wri) + 1 /\ q.wri[Len(p.wri) + 1] = w
          /\ \A i \in 1 .. Len(p.wri) : q.wri[i] = p.wri[i]
      BY <3>1, LordPlanIs
    <3>4. QED
      BY <3>2, <3>3
  <2>6. WritGood(w)
    <3>1. ASSUME NEW i \in 1 .. Len(w.job)
          PROVE  w.eve + i - 1 \in DOMAIN db /\ w.job[i] = db[w.eve + i - 1]
      <4>1. w.eve + i - 1 = y.sen + i /\ i \in 1 .. n
        BY <1>2, <2>3
      <4>2. y.sen + i <= y.eve
        BY <1>1, <1>2, <2>3, <4>1, SMTT(30) DEF QueGood
      <4>3. y.sen + i \in 1 .. g
        BY <1>2, <1>4, <1>8, <4>1, <4>2, SMTT(30)
      <4>4. QED
        BY <1>8, <2>3, <4>1, <4>3
    <3>2. 0 < w.eve
      BY <1>2, <2>3
    <3>3. QED
      BY <2>3, <3>1, <3>2 DEF WritGood
  <2>7. \A i \in Len(p.wri) + 1 .. Len(q.wri) : q.wri[i] = w
    BY <1>2, <2>5
  <2>8. PlayEnd(old, p)
    BY <1>1, <1>2, <1>7, <1>9, <1>11, <2>3, <2>4, <2>5, <2>6, <2>7, SMTT(30)
       DEF PlayEnd, Alike
  <2>9. PlaysTo(q.wri, a.sen)
    <3>1. ASSUME NEW i \in 1 .. Len(q.wri), q.wri[i].typ = "play"
          PROVE  q.wri[i].eve + Len(q.wri[i].job) - 1 <= a.sen
      <4>1. CASE i <= Len(p.wri)
        <5>1. i \in 1 .. Len(p.wri)
          BY <1>2, <4>1
        <5>2. q.wri[i] = p.wri[i] /\ p.wri[i] \in Writs
          BY <1>2, <2>5, <5>1
        <5>3. PICK v : v = p.wri[i]
          OBVIOUS
        <5>4. v.eve + Len(v.job) - 1 <= y.sen /\ q.wri[i] = v
          BY <1>1, <3>1, <5>1, <5>2, <5>3 DEF PlaysTo
        <5>5. v.eve \in Nat /\ Len(v.job) \in Nat
          BY <5>2, <5>3, SMTT(30) DEF Writs
        <5>6. y.sen <= a.sen
          BY <1>4, <1>9
        <5>7. v.eve + Len(v.job) - 1 <= a.sen
          BY <1>2, <1>10, <5>4, <5>5, <5>6, SMTT(30)
        <5>8. QED
          BY <5>4, <5>7
      <4>2. CASE ~(i <= Len(p.wri))
        <5>1. q.wri[i] = w
          BY <1>2, <2>5, <4>2, SMTT(30)
        <5>2. QED
          BY <1>2, <1>9, <2>3, <5>1, SMTT(30)
      <4>3. QED
        BY <4>1, <4>2
    <3>2. QED
      BY <3>1 DEF PlaysTo
  <2>10. PlayGood'
    <3>1. pir'.eve = p.eve /\ pir'.wri = q.wri /\ dun' = d
      BY <1>1, <2>4, <2>5 DEF Alike
    <3>2. QED
      BY <1>1, <1>7, <1>9, <1>10, <2>9, <3>1, PlayGoes
  <2>11. pir'.sat = "play"
    BY <1>1, <2>4, <2>5 DEF Alike
  <2>12. QED
    BY <2>8, <2>10, <2>11, PlayEnds
<1>14. QED
  BY <1>12, <1>13

(* _pier_play(). *)
LEMMA PierPlayInv ==
  ASSUME PInv, NEW old, NEW p \in Piers, NEW y \in Plays, NEW r \in Seq(Reads),
         NEW d \in Nat, PlayFrom(old, p, y, r, d), PierPlay(p, y, r, d),
         PlaySends(old)
  PROVE  PInv'
  BY PlayArrives, PlayAdvances

(* The log under a callback that only reads it. *)
LogKept(d) ==
  /\ d = dun' /\ sen' = d /\ d <= Gulf /\ liv' /\ meta' = Len(MetaKeys) /\ db' = db
  /\ red' \in Seq(Reads) => Core'
  /\ Written' /\ LogFits

LEMMA LogKeptIs ==
  ASSUME PInv, UNCHANGED writeVars, hst' = hst, liv, sen = dun,
         meta = Len(MetaKeys), NEW d, d = dun
  PROVE  LogKept(d)
<1>1. UNCHANGED <<db, meta, liv, sen, dun, put, req>>
  BY DEF writeVars
<1>2. Core /\ Written
  BY DEF PInv, LogGood
<1>3. red' \in Seq(Reads) => Core'
  BY <1>2, ReadCore
<1>4. Written'
  BY <1>1, <1>2 DEF Written
<1>5. LogFits
  <2>1. \A e \in 1 .. Len(hst) : e <= sen => hst[e] = Seen(e)
    BY DEF PInv, WorkerGood
  <2>2. \A e \in 1 .. Len(hst) : Seen(e)' = Seen(e)
    BY <1>1 DEF Seen
  <2>3. QED
    BY <1>1, <2>1, <2>2 DEF LogFits
<1>6. QED
  BY <1>1, <1>3, <1>4, <1>5, KingFacts DEF LogKept

(* The king p that begins to replay up to event e. *)
InitFrom(old, p, e, d) ==
  /\ pir.sat \in {"boot", "init"}
  /\ KeepsTo(old, TRUE) /\ p.wri = old /\ old = <<>>
  /\ p.liv = TRUE /\ p.wok = FALSE /\ p.gif = <<>>
  /\ p.eve <= Len(hst) /\ p.ova = pir.ova /\ p.wal = pir.wal
  /\ p.eve <= e /\ e <= d
  /\ UNCHANGED <<srf, hst, chk, env>>

LEMMA InitFromIs ==
  ASSUME PInv, NEW old, NEW p \in Piers, NEW e \in Nat, NEW d \in Nat,
         InitFrom(old, p, e, d), LogKept(d),
         NEW a, a = [p EXCEPT !.sat = "play"],
         NEW y, y = [eve |-> e, sen |-> p.eve, req |-> 0, que |-> <<>>]
  PROVE  /\ a \in Piers /\ y \in Plays /\ red \in Seq(Reads) /\ red = <<>>
         /\ a.eve = p.eve
         /\ PlayFrom(old, a, y, red, d)
<1>1. /\ pir.sat \in {"boot", "init"}
      /\ KeepsTo(old, TRUE) /\ p.wri = old /\ old = <<>>
      /\ p.liv = TRUE /\ p.wok = FALSE /\ p.gif = <<>>
      /\ p.eve <= Len(hst) /\ p.ova = pir.ova /\ p.wal = pir.wal
      /\ p.eve <= e /\ e <= d
      /\ UNCHANGED <<srf, hst, chk, env>>
  BY DEF InitFrom
<1>2. /\ a \in Piers /\ a.sat = "play" /\ a.liv = p.liv /\ a.wok = p.wok
      /\ a.gif = p.gif /\ a.eve = p.eve /\ a.ova = p.ova /\ a.wal = p.wal
      /\ a.wri = p.wri
  BY DEF Piers, States
<1>3. p.eve \in Nat
  BY PierFields
<1>4. y \in Plays /\ y.eve = e /\ y.sen = p.eve /\ Len(y.que) = 0
  <2>1. <<>> \in Seq(Fact) /\ Len(<<>>) = 0
    OBVIOUS
  <2>2. QED
    BY <1>3, <2>1 DEF Plays
<1>5. red = <<>> /\ red \in Seq(Reads)
  BY <1>1 DEF PInv, KingGood, TypeOK, DiskTypeOK
<1>6. QueGood(y)
  BY <1>1, <1>3, <1>4 DEF QueGood
<1>7. ReadFits(y, red)
  <2>1. Len(<<>>) = 0
    OBVIOUS
  <2>2. QED
    BY <1>5, <2>1 DEF ReadFits
<1>8. PlaysTo(old, y.sen)
  <2>1. Len(old) = 0
    BY <1>1
  <2>2. QED
    BY <2>1 DEF PlaysTo
<1>9. PlayFrom(old, a, y, red, d)
  <2>1. /\ a.wri = old /\ a.sat = "play" /\ a.liv = TRUE /\ a.wok = FALSE
        /\ a.gif = <<>> /\ a.eve <= Len(hst) /\ a.ova = pir.ova
        /\ a.wal = pir.wal
    BY <1>1, <1>2
  <2>2. y.eve <= d /\ a.eve <= y.sen
    BY <1>1, <1>2, <1>3, <1>4
  <2>3. /\ d = dun' /\ sen' = d /\ d <= Gulf /\ liv' /\ meta' = Len(MetaKeys)
        /\ db' = db /\ (red' \in Seq(Reads) => Core') /\ Written' /\ LogFits
    BY DEF LogKept
  <2>4. UNCHANGED <<db, srf, hst, chk, env>>
    BY <1>1, <2>3
  <2>5. pir.sat \in {"boot", "init", "play"} /\ KeepsTo(old, TRUE)
    BY <1>1
  <2>6. QED
    BY <1>6, <1>7, <1>8, <2>1, <2>2, <2>3, <2>4, <2>5 DEF PlayFrom
<1>10. QED
  BY <1>2, <1>4, <1>5, <1>9

(* _pier_play_init(). *)
LEMMA PlayInitInv ==
  ASSUME PInv, NEW old, NEW p \in Piers, NEW e \in Nat, NEW d \in Nat,
         InitFrom(old, p, e, d), LogKept(d), PlayInit(p, e, d), PlaySends(old)
  PROVE  PInv'
<1>1. PICK a : a = [p EXCEPT !.sat = "play"]
  OBVIOUS
<1>2. PICK y : y = [eve |-> e, sen |-> p.eve, req |-> 0, que |-> <<>>]
  OBVIOUS
<1>3. /\ a \in Piers /\ y \in Plays /\ red \in Seq(Reads)
      /\ PlayFrom(old, a, y, red, d)
  BY <1>1, <1>2, InitFromIs
<1>4. PierPlay(a, y, red, d)
  BY <1>1, <1>2 DEF PlayInit
<1>5. QED
  BY <1>3, <1>4, PierPlayInv

(* _pier_on_lord_live(). *)
LEMMA OnRipeInv == PInv /\ OnRipe => PInv'
<1>1. SUFFICES ASSUME PInv, OnRipe PROVE PInv'
  OBVIOUS
<1>2. PICK p : p = [pir EXCEPT !.liv = TRUE, !.eve = out[1].eve]
  OBVIOUS
<1>3. /\ Hears({"ripe"}) /\ PlaySends(pir.wri) /\ out' = Tail(out)
      /\ UNCHANGED <<srf, hst, chk, env>> /\ UNCHANGED writeVars
  BY <1>1 DEF OnRipe, Heard
<1>4. /\ p \in Piers /\ p.sat = pir.sat /\ pir.sat \in {"boot", "init"}
      /\ ~Booting /\ p.wri = <<>> /\ pir.wri = <<>> /\ out # <<>>
      /\ ~pir.liv /\ p.liv /\ p.wok = FALSE /\ p.gif = <<>>
      /\ p.wal = pir.wal /\ p.ova = pir.ova
      /\ p.eve \in Nat /\ p.eve <= Len(hst)
      /\ pir.sat = "init" => sen = dun
      /\ liv
  BY <1>1, <1>2, <1>3, RipeIs
<1>5. p.liv = TRUE
  BY <1>4, PierFields
<1>6. dun \in Nat /\ sen \in Nat /\ Len(hst) \in Nat
  BY <1>1, KingFacts
<1>7. KeepsTo(pir.wri, TRUE)
  BY <1>3, <1>4 DEF KeepsTo
<1>8. pir.sat = "boot" => p.eve = 0
  <2>1. pir.sat = "boot" => Len(hst) = 0
    BY <1>1 DEF PInv, KingGood
  <2>2. QED
    BY <1>4, <2>1
<1>9. ASSUME NEW e \in Nat, p.eve <= e, e <= dun, PlayInit(p, e, dun), sen = dun,
             meta = Len(MetaKeys)
      PROVE  PInv'
  <2>1. InitFrom(pir.wri, p, e, dun)
    BY <1>3, <1>4, <1>5, <1>7, <1>9 DEF InitFrom
  <2>2. LogKept(dun)
    BY <1>1, <1>3, <1>4, <1>9, LogKeptIs
  <2>3. QED
    BY <1>1, <1>3, <1>4, <1>6, <1>9, <2>1, <2>2, PlayInitInv
<1>10. CASE pir.sat = "boot" /\ sen > 0 /\ sen = dun /\ PlayInit(p, dun, dun)
  <2>1. meta = Len(MetaKeys)
    BY <1>1, <1>4, <1>6, <1>10 DEF PInv, LogGood, Core, MetaBeforePlan
  <2>2. QED
    BY <1>6, <1>8, <1>9, <1>10, <2>1
<1>11. CASE pir' = p /\ pir.sat = "boot" /\ UNCHANGED <<pay, red>>
  <2>1. UNCHANGED <<db, meta, liv, sen, dun, put, req, red>>
    BY <1>3, <1>11 DEF writeVars
  <2>2. LogGood'
    <3>1. Core'
      BY <1>1, <2>1, StutterCore DEF PInv, LogGood
    <3>2. QED
      BY <1>1, <2>1, <3>1 DEF PInv, LogGood, Written, ReadsGood
  <2>3. fx' = fx
    BY <1>3 DEF PlaySends
  <2>4. KingTypes
    BY <1>1, <1>3, <1>4, <1>11, <2>3 DEF KingTypes, PInv, TypeOK
  <2>5. KingGood'
    BY <1>1, <1>3, <1>4, <1>11, <2>1 DEF PInv, KingGood
  <2>6. (PlayGood)'
    BY <1>4, <1>11 DEF PlayGood
  <2>7. EffectsGood'
    BY <1>1, <1>4, <1>11, <2>1, <2>3
       DEF PInv, EffectsGood, EffectsDurable, EffectsOnce, GiftsGood
  <2>8. KingStep(pir.wri)
    <3>1. Keeps(pir.wri)
      BY <1>5, <1>7, <1>11 DEF Keeps
    <3>2. /\ Len(pir.wri) <= Len(pir'.wri) /\ \A i \in 1 .. Len(pir.wri) : FALSE
          /\ \A i \in Len(pir.wri) + 1 .. Len(pir'.wri) : FALSE
      <4>1. Len(<<>>) = 0 /\ 1 .. 0 = {} /\ 0 + 1 .. 0 = {} /\ 0 <= 0
        OBVIOUS
      <4>2. QED
        BY <1>4, <1>11, <4>1
    <3>3. Sends(pir.wri)
      BY <1>3, <3>2 DEF Sends, PlaySends
    <3>4. LogFits
      <4>1. \A e \in 1 .. Len(hst) : Seen(e)' = Seen(e)
        BY <2>1 DEF Seen
      <4>2. QED
        BY <1>1, <2>1, <4>1 DEF PInv, WorkerGood, LogFits
    <3>5. QED
      BY <1>1, <1>3, <1>4, <1>11, <2>1, <3>1, <3>2, <3>3, <3>4
         DEF KingStep, PInv, QueuesGood
  <2>9. pir'.sat # "down"
    BY <1>4, <1>11
  <2>10. QED
    BY <1>1, <2>2, <2>4, <2>5, <2>6, <2>7, <2>8, <2>9, KingStepInv
<1>12. CASE /\ pir.sat # "boot"
            /\ \E e \in {dun} \cup {t \in Tills : p.eve < t /\ t < dun} :
                 PlayInit(p, e, dun)
            /\ p.eve < dun
  <2>1. PICK e \in {dun} \cup {t \in Tills : p.eve < t /\ t < dun} :
           PlayInit(p, e, dun)
    BY <1>12
  <2>2. e \in Nat /\ p.eve <= e /\ e <= dun
    <3>1. \A t \in Tills : t \in Nat
      BY PierAssumption
    <3>2. QED
      BY <1>4, <1>6, <1>12, <3>1
  <2>3. sen = dun /\ meta = Len(MetaKeys)
    BY <1>1, <1>4, <1>12 DEF PInv, KingGood
  <2>4. QED
    BY <1>9, <2>1, <2>2, <2>3
<1>13. CASE /\ pir.sat # "boot" /\ p.eve >= dun /\ pir' = WyrdInit(p)
            /\ UNCHANGED <<pay, red>>
  <2>1. p.eve = dun
    <3>1. p.eve <= dun
      <4>1. PleaExpected(out[1]) /\ out[1].typ = "ripe"
        BY <1>1, <1>3, HearsIs
      <4>2. p.eve = out[1].eve
        BY <1>1, <1>2, <1>3, RipeIs
      <4>3. QED
        BY <4>1, <4>2 DEF PleaExpected
    <3>2. QED
      BY <1>4, <1>6, <1>13, <3>1
  <2>2. sen = dun /\ meta = Len(MetaKeys)
    BY <1>1, <1>4, <1>13 DEF PInv, KingGood
  <2>3. PICK d \in Nat : d = dun
    BY <1>6
  <2>4. InitFrom(pir.wri, p, d, d)
    <3>1. p.eve <= d /\ d <= d
      BY <2>1, <2>3
    <3>2. QED
      BY <1>3, <1>4, <1>5, <1>7, <3>1 DEF InitFrom
  <2>5. LogKept(d)
    BY <1>1, <1>3, <1>4, <2>2, <2>3, LogKeptIs
  <2>6. PICK a : a = [p EXCEPT !.sat = "play"]
    OBVIOUS
  <2>7. PICK y : y = [eve |-> d, sen |-> p.eve, req |-> 0, que |-> <<>>]
    OBVIOUS
  <2>8. /\ a \in Piers /\ y \in Plays /\ red \in Seq(Reads) /\ red = <<>>
        /\ a.eve = p.eve /\ PlayFrom(pir.wri, a, y, red, d)
    BY <1>1, <1>4, <2>4, <2>5, <2>6, <2>7, InitFromIs
  <2>9. PICK q : q = WyrdInit(p) /\ q = pir'
    BY <1>13
  <2>10. /\ q \in Piers /\ q.sat = "wyrd" /\ q.liv = p.liv /\ q.eve = p.eve
         /\ q.wok = p.wok /\ q.gif = p.gif /\ q.ova = p.ova /\ q.wal = p.wal
         /\ Len(q.wri) = Len(p.wri) + 1
         /\ \A i \in 1 .. Len(p.wri) : q.wri[i] = p.wri[i]
         /\ WritGood(q.wri[Len(p.wri) + 1])
    <3>1. q = WyrdInit(p)
      BY <2>9
    <3>2. QED
      BY <1>4, <3>1, WyrdInitIs, ZenonT(60)
  <2>11. /\ Len(pir.wri) <= Len(q.wri)
         /\ \A i \in 1 .. Len(pir.wri) : q.wri[i] = pir.wri[i]
         /\ \A i \in Len(pir.wri) + 1 .. Len(q.wri) : WritGood(q.wri[i])
    <3>1. Len(p.wri) = 0 /\ p.wri = pir.wri
      BY <1>4
    <3>2. Len(q.wri) = 1 /\ WritGood(q.wri[1])
      BY <2>10, <3>1
    <3>3. \A i \in 0 + 1 .. 1 : i = 1
      OBVIOUS
    <3>4. 0 <= 1 /\ 1 .. 0 = {}
      OBVIOUS
    <3>5. QED
      BY <3>1, <3>2, <3>3, <3>4
  <2>12. pay' \in Plays /\ red' \in Seq(Reads) /\ red' = <<>>
    BY <1>1, <1>13, <2>8 DEF PInv, TypeOK
  <2>13. PlayEnd(pir.wri, a)
    BY <1>4, <1>5, <2>8, <2>9, <2>10, <2>11, <2>12 DEF PlayEnd
  <2>14. pir'.sat = "wyrd" /\ red' = <<>> /\ a.eve = d
    BY <2>1, <2>3, <2>8, <2>9, <2>10, <2>12
  <2>15. QED
    BY <1>1, <1>3, <2>8, <2>13, <2>14, PlayEnds
<1>14. QED
  BY <1>1, <1>2, <1>4, <1>10, <1>11, <1>12, <1>13 DEF OnRipe

(* A replay in progress. *)
LEMMA PlayNow ==
  ASSUME PInv, pir.sat = "play"
  PROVE  /\ pay \in Plays /\ red \in Seq(Reads) /\ pir \in Piers
         /\ QueGood(pay) /\ ReadFits(pay, red) /\ PlaysTo(pir.wri, pay.sen)
         /\ pay.eve <= dun /\ pir.eve <= pay.sen
         /\ liv /\ sen = dun /\ meta = Len(MetaKeys)
         /\ pir.liv = TRUE /\ pir.wok = FALSE /\ pir.gif = <<>>
<1>1. pay \in Plays /\ red \in Seq(Reads) /\ pir \in Piers
  BY DEF PInv, TypeOK, DiskTypeOK
<1>2. /\ pay.eve <= dun /\ pir.eve <= pay.sen
      /\ QueGood(pay) /\ PlaysTo(pir.wri, pay.sen)
  BY DEF PInv, PlayGood, QueGood, PlaysTo
<1>3. red # <<>> => Good(db, red[1])
  <2>1. red # <<>> => 1 \in 1 .. Len(red)
    BY <1>1
  <2>2. QED
    BY <2>1 DEF PInv, LogGood, ReadsGood
<1>4. ReadFits(pay, red)
  BY <1>3 DEF PInv, PlayGood, ReadFits
<1>5. /\ liv /\ sen = dun /\ meta = Len(MetaKeys)
      /\ pir.liv /\ ~pir.wok /\ pir.gif = <<>>
  BY DEF PInv, KingGood
<1>6. QED
  BY <1>1, <1>2, <1>4, <1>5, PierFields

(* A later part of the queue. *)
LEMMA PlaysToTail ==
  ASSUME NEW s \in Seq(Writs), s # <<>>, NEW e, PlaysTo(s, e)
  PROVE  PlaysTo(Tail(s), e)
<1>1. \A i \in 1 .. Len(Tail(s)) : i + 1 \in 1 .. Len(s) /\ Tail(s)[i] = s[i + 1]
  OBVIOUS
<1>2. QED
  BY <1>1 DEF PlaysTo

(* _pier_on_lord_play_done(). *)
LEMMA OnPlayDoneInv == PInv /\ OnPlayDone => PInv'
<1>1. SUFFICES ASSUME PInv, OnPlayDone PROVE PInv'
  OBVIOUS
<1>2. /\ Hears({"played"}) /\ PierPlay(Replayed, pay, red, dun)
      /\ PlaySends(Replayed.wri) /\ out' = Tail(out)
      /\ UNCHANGED <<srf, hst, chk, env>> /\ UNCHANGED writeVars
  BY <1>1 DEF OnPlayDone, Heard
<1>3. PICK p : p = Replayed
  OBVIOUS
<1>4. /\ p \in Piers /\ p.sat = "play" /\ pir.sat = "play"
      /\ p.wri = Tail(pir.wri) /\ pir.wri # <<>> /\ out # <<>>
      /\ p.liv = pir.liv /\ pir.liv /\ p.wok = pir.wok
      /\ p.gif = pir.gif /\ p.wal = pir.wal /\ p.ova = pir.ova
      /\ p.eve <= Len(hst) /\ p.eve <= pay.sen
  BY <1>1, <1>2, <1>3, ReplayedIs
<1>5. /\ pay \in Plays /\ red \in Seq(Reads)
      /\ QueGood(pay) /\ ReadFits(pay, red) /\ PlaysTo(pir.wri, pay.sen)
      /\ pay.eve <= dun /\ liv /\ sen = dun /\ meta = Len(MetaKeys)
      /\ pir.liv = TRUE /\ pir.wok = FALSE /\ pir.gif = <<>>
  BY <1>1, <1>4, PlayNow
<1>6. PICK d \in Nat : d = dun
  BY <1>1, KingFacts
<1>7. LogKept(d)
  BY <1>1, <1>2, <1>5, <1>6, LogKeptIs
<1>8. PlaysTo(p.wri, pay.sen)
  <2>1. pir.wri \in Seq(Writs)
    BY <1>1, KingFacts
  <2>2. QED
    BY <1>4, <1>5, <2>1, PlaysToTail
<1>9. KeepsTo(p.wri, TRUE)
  BY <1>2, <1>4 DEF KeepsTo
<1>10. PlayFrom(p.wri, p, pay, red, d)
  BY <1>2, <1>4, <1>5, <1>6, <1>7, <1>8, <1>9 DEF PlayFrom, LogKept
<1>11. PierPlay(p, pay, red, d) /\ PlaySends(p.wri)
  BY <1>2, <1>3, <1>6
<1>12. QED
  BY <1>1, <1>4, <1>5, <1>10, <1>11, PierPlayInv

(* _pier_play_plan(): what was read goes behind the queue, which it        *)
(* continues.                                                              *)
LEMMA PlayPlanIs ==
  ASSUME NEW y \in Plays, QueGood(y), NEW x \in Reads, x.sat = "held",
         x.eve = y.sen + Len(y.que) + 1, x.eve + x.len - 1 <= y.eve, Good(db, x),
         NEW z, z = [y EXCEPT !.que = y.que \o x.fac]
  PROVE  z \in Plays /\ z.eve = y.eve /\ z.sen = y.sen /\ QueGood(z)
<1>1. /\ y.eve \in Nat /\ y.sen \in Nat /\ y.que \in Seq(Fact) /\ Len(y.que) \in Nat
  BY PlayFields
<1>2. PICK t \in Seq(Fact) : t = x.fac
  BY DEF Reads
<1>3. PICK m \in Nat : m = x.len
  BY DEF Reads
<1>4. PICK n \in Nat : n = Len(y.que)
  BY <1>1
<1>5. /\ Len(t) <= m
      /\ \A k \in 1 .. Len(t) :
           t[k].eve = x.eve + k - 1 /\ t[k].job = db[x.eve + k - 1]
  BY <1>2, <1>3 DEF Good
<1>6. Len(t) \in Nat
  OBVIOUS
<1> DEFINE q == y.que \o t
<1>7. /\ q \in Seq(Fact) /\ Len(q) = n + Len(t)
      /\ \A i \in 1 .. n + Len(t) :
           q[i] = IF i <= n THEN y.que[i] ELSE t[i - n]
  BY <1>1, <1>4, ConcatProperties
<1>8. z = [y EXCEPT !.que = q]
  BY <1>2
<1> HIDE DEF q
<1>9. z \in Plays /\ z.eve = y.eve /\ z.sen = y.sen /\ z.que = q
  BY <1>7, <1>8 DEF Plays
<1>10. y.sen + n + m <= y.eve
  BY <1>1, <1>3, <1>4, SMTT(30)
<1>11. y.sen + Len(q) <= y.eve
  BY <1>1, <1>5, <1>6, <1>7, <1>10, SMTT(30)
<1>12. ASSUME NEW i \in 1 .. Len(q)
       PROVE  q[i].eve = y.sen + i /\ q[i].job = db[y.sen + i]
  <2>1. CASE i <= n
    <3>1. i \in 1 .. Len(y.que) /\ q[i] = y.que[i]
      BY <1>4, <1>6, <1>7, <2>1
    <3>2. QED
      BY <3>1 DEF QueGood
  <2>2. CASE ~(i <= n)
    <3>1. i - n \in 1 .. Len(t) /\ q[i] = t[i - n]
      BY <1>6, <1>7, <2>2, SMTT(30)
    <3>2. x.eve + (i - n) - 1 = y.sen + i
      BY <1>1, <1>4, <1>6, <1>7, SMTT(30)
    <3>3. QED
      BY <1>5, <3>1, <3>2
  <2>3. QED
    BY <2>1, <2>2
<1>13. QED
  BY <1>9, <1>11, <1>12, ZenonT(60) DEF QueGood

(* What is left of a queue with one element. *)
LEMMA TailOfOne ==
  ASSUME NEW S, NEW s \in Seq(S), s # <<>>, Len(s) <= 1
  PROVE  Tail(s) = <<>> /\ Tail(s) \in Seq(S)
<1>1. PICK n \in Nat : n = Len(s)
  OBVIOUS
<1>2. n # 0
  BY <1>1
<1>3. n <= 1
  BY <1>1
<1>4. n = 1
  BY <1>2, <1>3
<1>5. Tail(s) \in Seq(S) /\ Len(Tail(s)) = 0
  <2>1. Tail(s) \in Seq(S) /\ Len(Tail(s)) = Len(s) - 1
    OBVIOUS
  <2>2. QED
    BY <1>1, <1>4, <2>1
<1>6. \A t \in Seq(S) : Len(t) = 0 => t = <<>>
  OBVIOUS
<1>7. QED
  BY <1>5, <1>6

(* _pier_on_disk_read_done(). *)
LEMMA OnReadDoneInv == PInv /\ OnReadDone => PInv'
<1>1. SUFFICES ASSUME PInv, OnReadDone PROVE PInv'
  OBVIOUS
<1>2. PICK z : z = [pay EXCEPT !.que = pay.que \o red[1].fac]
  OBVIOUS
<1>3. /\ red # <<>> /\ red[1].sat = "held" /\ PierPlay(pir, z, Tail(red), dun)
      /\ PlaySends(pir.wri) /\ UNCHANGED writeVars
      /\ UNCHANGED <<out, srf, hst, chk, env>>
  BY <1>1, <1>2 DEF OnReadDone, Delivered
<1>4. pir.sat = "play"
  BY <1>1, <1>3 DEF PInv, KingGood
<1>5. /\ pay \in Plays /\ red \in Seq(Reads) /\ pir \in Piers
      /\ QueGood(pay) /\ ReadFits(pay, red) /\ PlaysTo(pir.wri, pay.sen)
      /\ pay.eve <= dun /\ pir.eve <= pay.sen
      /\ liv /\ sen = dun /\ meta = Len(MetaKeys)
      /\ pir.liv = TRUE /\ pir.wok = FALSE /\ pir.gif = <<>>
  BY <1>1, <1>4, PlayNow
<1>6. PICK x \in Reads : x = red[1]
  <2>1. red[1] \in Reads
    BY <1>3, <1>5
  <2>2. QED
    BY <2>1
<1>7. /\ x.eve = pay.sen + Len(pay.que) + 1 /\ x.eve + x.len - 1 <= pay.eve
      /\ Good(db, x) /\ x.sat = "held" /\ Len(red) <= 1
  BY <1>3, <1>5, <1>6 DEF ReadFits
<1>8. z \in Plays /\ z.eve = pay.eve /\ z.sen = pay.sen /\ QueGood(z)
  <2>1. z = [pay EXCEPT !.que = pay.que \o x.fac]
    BY <1>2, <1>6
  <2>2. QED
    BY <1>5, <1>7, <2>1, PlayPlanIs, ZenonT(60)
<1>9. Tail(red) = <<>> /\ Tail(red) \in Seq(Reads)
  <2>1. red # <<>> /\ red \in Seq(Reads) /\ Len(red) <= 1
    BY <1>3, <1>5, <1>7
  <2>2. QED
    BY <2>1, TailOfOne
<1>10. ReadFits(z, Tail(red))
  <2>1. Len(<<>>) = 0
    OBVIOUS
  <2>2. QED
    BY <1>9, <2>1 DEF ReadFits
<1>11. PICK d \in Nat : d = dun
  BY <1>1, KingFacts
<1>12. LogKept(d)
  BY <1>1, <1>3, <1>5, <1>11, LogKeptIs
<1>13. KeepsTo(pir.wri, TRUE) /\ pir.eve <= Len(hst)
  BY <1>1, <1>3, <1>5 DEF KeepsTo, PInv, KingGood
<1>14. PlayFrom(pir.wri, pir, z, Tail(red), d)
  BY <1>3, <1>4, <1>5, <1>8, <1>10, <1>11, <1>12, <1>13 DEF PlayFrom, LogKept
<1>15. PierPlay(pir, z, Tail(red), d)
  BY <1>3, <1>11
<1>16. QED
  BY <1>1, <1>3, <1>5, <1>8, <1>9, <1>14, <1>15, PierPlayInv

(* _disk_commit_done(): the log after a write, which in a pier that boots  *)
(* is the whole boot sequence.                                             *)
LEMMA WriteDoneIs ==
  ASSUME PInv, DiskCommitDone, hst' = hst
  PROVE  /\ liv /\ UNCHANGED <<db, meta, liv, sen>> /\ dun' \in Nat
         /\ dun < dun' /\ dun' <= Gulf /\ dun' <= sen
         /\ pir.sat = "boot" => dun' = sen /\ meta = Len(MetaKeys)
         /\ red' \in Seq(Reads) => Core'
         /\ Written' /\ LogFits
         /\ \A e \in 1 .. sen : Seen(e)' = Seen(e)
<1>1. Core /\ Written
  BY DEF PInv, LogGood
<1>2. /\ req.sat = "good" /\ liv /\ UNCHANGED <<db, meta, liv, sen>>
      /\ dun' = req.eve + Len(req.job) - 1 /\ req \in Reqs /\ put \in Seq(Fact)
      /\ dun \in Nat /\ sen \in Nat
  BY <1>1 DEF DiskCommitDone, Core, Dead, Idle, DiskTypeOK
<1>3. PICK n \in Nat : n = Len(req.job)
  BY <1>2 DEF Reqs
<1>4. /\ req.eve = dun + 1 /\ 0 < n /\ n <= Len(put) /\ Len(put) = sen - dun
      /\ Gulf = dun + n
  BY <1>1, <1>2, <1>3
     DEF Core, DiskAsserts, QueueIsGap, WriteIsPrefix, AckIsDurable
<1>5. /\ dun' = dun + n /\ dun' \in Nat /\ dun < dun' /\ dun' <= Gulf /\ dun' <= sen
  <2>1. dun' = (dun + 1) + n - 1
    BY <1>2, <1>3, <1>4, Zenon
  <2>2. PICK m \in Nat : m = Len(put)
    BY <1>2
  <2>3. dun \in Nat /\ sen \in Nat /\ 0 < n /\ n <= m /\ m = sen - dun
    BY <1>2, <1>4, <2>2
  <2>4. dun' = dun + n
    BY <2>1, <2>3
  <2>5. dun + n \in Nat /\ dun < dun + n /\ dun + n <= sen
    BY <2>3
  <2>6. Gulf = dun + n /\ Gulf <= Gulf
    BY <1>4, <2>5
  <2>7. QED
    BY <2>4, <2>5, <2>6, Zenon
<1>6. pir.sat = "boot" => dun' = sen /\ meta = Len(MetaKeys)
  <2>1. SUFFICES ASSUME pir.sat = "boot" PROVE dun' = sen /\ meta = Len(MetaKeys)
    OBVIOUS
  <2>2. sen = dun \/ (dun = 0 /\ Len(req.job) = sen)
    BY <2>1 DEF PInv, KingGood
  <2>3. dun' = sen
    <3>1. sen # dun
      BY <1>2, <1>5
    <3>2. dun = 0 /\ n = sen
      BY <1>3, <2>2, <3>1
    <3>3. QED
      BY <1>2, <1>5, <3>2
  <2>4. 0 < sen
    BY <1>2, <1>5
  <2>5. QED
    BY <1>1, <1>2, <2>3, <2>4 DEF Core, MetaBeforePlan
<1>7. red' \in Seq(Reads) => Core'
  BY <1>1, CommitDoneCore
<1>8. Written' /\ \A e \in 1 .. sen : Seen(e)' = Seen(e)
  BY <1>1, CommitDoneSeen
<1>9. LogFits
  <2>1. \A e \in 1 .. Len(hst) : e <= sen => hst[e] = Seen(e)
    BY <1>2 DEF PInv, WorkerGood
  <2>2. ASSUME NEW e \in 1 .. Len(hst), e <= sen PROVE hst[e] = Seen(e)'
    <3>1. e \in 1 .. sen
      BY <1>2, <2>2, KingFacts
    <3>2. QED
      BY <1>8, <2>1, <2>2, <3>1
  <2>3. QED
    BY <1>2, <2>2 DEF LogFits
<1>10. QED
  BY <1>2, <1>5, <1>6, <1>7, <1>8, <1>9

(* _pier_on_disk_write_done(). *)
LEMMA OnWriteDoneInv == PInv /\ OnWriteDone => PInv'
<1>1. SUFFICES ASSUME PInv, OnWriteDone PROVE PInv'
  OBVIOUS
<1>2. DiskCommitDone /\ UNCHANGED <<out, srf, hst, chk, env>>
  BY <1>1 DEF OnWriteDone
<1>3. /\ liv /\ UNCHANGED <<db, meta, liv, sen>> /\ dun' \in Nat
      /\ dun < dun' /\ dun' <= Gulf /\ dun' <= sen
      /\ pir.sat = "boot" => dun' = sen /\ meta = Len(MetaKeys)
      /\ red' \in Seq(Reads) => Core'
      /\ Written' /\ LogFits
      /\ \A e \in 1 .. sen : Seen(e)' = Seen(e)
  BY <1>1, <1>2, WriteDoneIs
<1>4. PICK d \in Nat : d = dun'
  BY <1>3
<1>5. /\ pir \in Piers /\ env \in Envs /\ red \in Seq(Reads) /\ dun \in Nat
      /\ sen \in Nat /\ Len(hst) \in Nat
  BY <1>1, KingFacts DEF PInv, TypeOK, DiskTypeOK
<1>6. CASE pir.sat = "boot" /\ pir.liv /\ PlayInit(pir, dun', dun')
           /\ PlaySends(pir.wri)
  <2>1. /\ pir.wri = <<>> /\ ~pir.wok /\ pir.gif = <<>> /\ pir.eve <= Len(hst)
        /\ hst = <<>>
    BY <1>1, <1>6 DEF PInv, KingGood
  <2>2. pir.liv = TRUE /\ pir.wok = FALSE /\ pir.eve \in Nat
    BY <1>5, <1>6, <2>1, PierFields
  <2>3. pir.eve <= d /\ d <= d
    <3>1. Len(hst) = 0
      BY <2>1
    <3>2. QED
      BY <2>1, <2>2, <3>1
  <2>4. KeepsTo(pir.wri, TRUE)
    BY <1>2, <2>2 DEF KeepsTo
  <2>5. InitFrom(pir.wri, pir, d, d)
    BY <1>2, <1>6, <2>1, <2>2, <2>3, <2>4 DEF InitFrom
  <2>6. LogKept(d)
    BY <1>3, <1>4, <1>6 DEF LogKept
  <2>7. PlayInit(pir, d, d)
    BY <1>4, <1>6
  <2>8. QED
    BY <1>1, <1>5, <1>6, <2>5, <2>6, <2>7, PlayInitInv
<1>7. CASE pir.sat = "boot" /\ UNCHANGED <<pir, pay, red>> /\ PlaySends(pir.wri)
  <2>1. LogGood'
    BY <1>1, <1>3, <1>5, <1>7 DEF PInv, LogGood, ReadsGood
  <2>2. fx' = fx
    BY <1>7 DEF PlaySends
  <2>3. KingTypes
    BY <1>1, <1>2, <1>7, <2>2 DEF KingTypes, PInv, TypeOK
  <2>4. KingGood'
    BY <1>1, <1>2, <1>3, <1>7 DEF PInv, KingGood
  <2>5. PlayGood'
    BY <1>7 DEF PlayGood
  <2>6. EffectsGood'
    <3>1. ~pir.wok
      BY <1>1, <1>7 DEF PInv, KingGood
    <3>2. QED
      BY <1>1, <1>3, <1>7, <2>2, <3>1
         DEF PInv, EffectsGood, EffectsDurable, EffectsOnce, GiftsGood
  <2>7. KingStep(pir.wri)
    <3>1. Keeps(pir.wri)
      BY <1>2, <1>7 DEF Keeps, KeepsTo
    <3>2. Len(pir.wri) \in Nat
      BY <1>1, KingFacts
    <3>3. Sends(pir.wri) /\ \A i \in Len(pir.wri) + 1 .. Len(pir'.wri) : FALSE
      BY <1>7, <3>2 DEF Sends, PlaySends
    <3>4. QED
      BY <1>1, <1>2, <1>3, <1>7, <3>1, <3>3 DEF KingStep, PInv, QueuesGood
  <2>8. pir'.sat # "down"
    BY <1>7
  <2>9. QED
    BY <1>1, <2>1, <2>3, <2>4, <2>5, <2>6, <2>7, <2>8, KingStepInv
<1>8. CASE pir.wok /\ Work(pir, dun') /\ UNCHANGED <<pay, red>>
  <2>1. /\ pir.sat \in {"work", "done"} /\ pir.liv /\ red = <<>>
        /\ pir.eve = sen /\ pir.eve <= Len(hst) /\ pir.rel <= dun
        /\ Len(pir.gif) = pir.eve - pir.rel
        /\ \A i \in 1 .. Len(pir.gif) :
             pir.gif[i].eve = pir.rel + i /\ pir.gif[i].job = Seen(pir.rel + i)
    BY <1>1, <1>8, WorkFacts
  <2>2. pir.rel \in Nat /\ Len(pir.gif) \in Nat
    BY <1>1, KingFacts
  <2>3. PICK r \in Nat : r = pir.rel
    BY <2>2
  <2>4. LogGood'
    BY <1>1, <1>3, <1>5, <1>8 DEF PInv, LogGood, ReadsGood
  <2>5. ASSUME NEW i \in 1 .. Len(pir.gif)
        PROVE  pir.gif[i].eve = r + i /\ pir.gif[i].job = Seen(r + i)'
    <3>1. pir.gif[i].eve = r + i /\ pir.gif[i].job = Seen(r + i)
      BY <2>1, <2>3, SMTT(30)
    <3>2. r + i \in 1 .. sen
      BY <1>5, <2>1, <2>2, <2>3, SMTT(30)
    <3>3. QED
      BY <1>3, <3>1, <3>2
  <2>6. r <= d /\ d <= pir.eve /\ pir.eve = sen'
    BY <1>3, <1>4, <1>5, <2>1, <2>3
  <2>7. WorkFrom(pir, d, r)
    BY <1>2, <1>3, <1>4, <1>5, <1>8, <2>1, <2>3, <2>5, <2>6 DEF WorkFrom
  <2>8. Work(pir, d)
    BY <1>4, <1>8
  <2>9. QED
    BY <1>1, <1>3, <1>5, <2>4, <2>7, <2>8, WorkInv
<1>9. QED
  BY <1>1, <1>6, <1>7, <1>8 DEF OnWriteDone

(* The ova that the drivers plan. *)
LEMMA OvaIs ==
  ASSUME env \in Envs, NEW n \in 0 .. MaxOva - env.ova
  PROVE  /\ Ova(n) \in Seq(Job) /\ \A i \in 1 .. Len(Ova(n)) : Ova(n)[i] \in Ovum
         /\ env.ova + n \in 0 .. MaxOva
<1>1. MaxOva \in Nat /\ env.ova \in 0 .. MaxOva
  BY PierAssumption DEF Envs
<1>2. n \in Nat /\ env.ova + n \in 0 .. MaxOva /\ env.ova \in Nat
  BY <1>1
<1>3. \A i \in 1 .. n : <<"ovum", env.ova + i>> \in Ovum
  <2>1. TAKE i \in 1 .. n
  <2>2. env.ova + i \in 0 .. MaxOva
    BY <1>1, <1>2
  <2>3. QED
    BY <2>2 DEF Ovum
<1>4. \A i \in 1 .. n : <<"ovum", env.ova + i>> \in Job
  BY <1>3, OvumIs
<1>5. /\ Ova(n) \in [1 .. n -> Job]
      /\ \A i \in 1 .. n : Ova(n)[i] = <<"ovum", env.ova + i>>
  BY <1>4 DEF Ova
<1>6. Ova(n) \in Seq(Job) /\ Len(Ova(n)) = n
  BY <1>2, <1>5
<1>7. QED
  BY <1>2, <1>3, <1>5, <1>6

(* _pier_on_lord_wyrd_done(). *)
LEMMA OnWyrdDoneInv == PInv /\ OnWyrdDone => PInv'
<1>1. SUFFICES ASSUME PInv, OnWyrdDone PROVE PInv'
  OBVIOUS
<1>2. /\ Hears({"done", "swap"}) /\ pir.sat = "wyrd" /\ DiskPlan(PleaFact)
      /\ pay' = NoPlay /\ out' = Tail(out) /\ UNCHANGED <<srf, hst, chk, red, fx>>
  BY <1>1, SMTT(30) DEF OnWyrdDone, Heard
<1>3. PICK n \in 0 .. MaxOva - env.ova :
        LET p == [LordPopWork(pir) EXCEPT !.eve = out[1].eve, !.sat = "work",
                                          !.wok = TRUE, !.rel = dun,
                                          !.ova = Ova(n)]
        IN  \E q \in {WorkSend(p)} :
              /\ pir' = [q EXCEPT !.gif = Append(@, PleaFact)]
              /\ inn' = inn \o SubSeq(q.wri, Len(p.wri) + 1, Len(q.wri))
              /\ env' = [env EXCEPT !.ova = @ + n]
  BY <1>1 DEF OnWyrdDone
<1>4. PICK c : c = LordPopWork(pir)
  OBVIOUS
<1>5. PICK p : p = [c EXCEPT !.eve = out[1].eve, !.sat = "work", !.wok = TRUE,
                            !.rel = dun, !.ova = Ova(n)]
  OBVIOUS
<1>6. PICK q : q = WorkSend(p)
  BY SMTT(30)
<1>7. /\ pir' = [q EXCEPT !.gif = Append(q.gif, PleaFact)]
      /\ inn' = inn \o SubSeq(q.wri, Len(p.wri) + 1, Len(q.wri))
      /\ env' = [env EXCEPT !.ova = env.ova + n]
  BY <1>3, <1>4, <1>5, <1>6
<1>8. /\ PleaFact \in Fact /\ PleaFact.eve = sen + 1 /\ out[1].eve = sen + 1
      /\ sen + 1 <= Len(hst) /\ liv /\ meta = Len(MetaKeys)
      /\ sen' = sen + 1 /\ UNCHANGED <<db, dun, meta, liv>>
  BY <1>1, <1>2, PlanFact
<1>9. /\ pir.wri # <<>> /\ pir.liv /\ out # <<>>
      /\ LogGood' /\ LogFits
      /\ \A e \in Nat : e = sen + 1 => Seen(e)' = PleaFact.job
  BY <1>1, <1>2, PlanFact
<1>10. sen = dun /\ ~pir.wok /\ pir.gif = <<>> /\ red = <<>>
  BY <1>1, <1>2 DEF PInv, KingGood
<1>11. /\ pir \in Piers /\ env \in Envs /\ sen \in Nat /\ dun \in Nat
       /\ fx \in Seq(Fact) /\ pir.wri \in Seq(Writs)
       /\ Gulf \in Nat /\ Len(hst) \in Nat /\ DOMAIN db = 1 .. Gulf
  BY <1>1, KingFacts DEF PInv, TypeOK
<1>12. Gulf <= sen
  BY <1>1, <1>8, SeenTable DEF PInv, LogGood, TableSeen
<1>13. /\ Ova(n) \in Seq(Job) /\ \A i \in 1 .. Len(Ova(n)) : Ova(n)[i] \in Ovum
       /\ env.ova + n \in 0 .. MaxOva
  BY <1>11, OvaIs
<1>14. env' \in Envs /\ env'.new = env.new
  BY <1>7, <1>11, <1>13 DEF Envs
<1>15. /\ c \in Piers /\ Alike(pir, c) /\ c.wri = Tail(pir.wri) /\ c.gif = pir.gif
       /\ c.wal = pir.wal
  BY <1>4, <1>9, <1>11, LordPopIs
<1>16. PICK e \in Nat : e = sen + 1 /\ e = out[1].eve
  <2>1. sen + 1 \in Nat
    BY <1>11
  <2>2. QED
    BY <1>8, <2>1
<1>17. PICK o \in Seq(Job) : o = Ova(n)
  BY <1>13
<1>18. PICK d \in Nat : d = dun
  BY <1>11
<1>19. /\ p \in Piers /\ p.eve = e /\ p.sat = "work" /\ p.wok = TRUE /\ p.rel = d
       /\ p.ova = o /\ p.wri = c.wri /\ p.gif = c.gif /\ p.wal = c.wal
       /\ p.liv = c.liv
  <2>1. p = [c EXCEPT !.eve = e, !.sat = "work", !.wok = TRUE, !.rel = d, !.ova = o]
    BY <1>5, <1>16, <1>17, <1>18
  <2>2. "work" \in States
    BY DEF States
  <2>3. QED
    BY <1>15, <2>1, <2>2 DEF Piers
<1>20. \A i \in 1 .. Len(p.ova) : p.ova[i] \in Ovum
  BY <1>13, <1>17, <1>19
<1>21. /\ q \in Piers /\ Alike(p, q) /\ q.rel = p.rel /\ q.wok = p.wok
       /\ q.gif = p.gif /\ q.wal = p.wal
       /\ Grows(p, d, p.wri, q.wri)
       /\ \A i \in 1 .. Len(q.ova) : q.ova[i] \in Ovum
  <2>1. p \in Piers /\ p.sat = "work" /\ q = WorkSend(p)
    BY <1>6, <1>19
  <2>2. /\ q \in Piers /\ Alike(p, q) /\ q.rel = p.rel /\ q.wok = p.wok
        /\ q.gif = p.gif /\ q.wal = p.wal
    BY <1>20, <2>1, WorkSendIs
  <2>3. /\ Grows(p, d, p.wri, q.wri)
        /\ \A i \in 1 .. Len(q.ova) : q.ova[i] \in Ovum
    BY <1>20, <2>1, WorkSendIs
  <2>4. QED
    BY <2>2, <2>3
<1>22. PICK f \in Fact : f = PleaFact
  BY <1>8
<1>23. PICK g \in Seq(Fact) : g = Append(q.gif, f) /\ Len(g) = 1 /\ g[1] = f
  <2>1. q.gif = <<>>
    BY <1>10, <1>15, <1>19, <1>21
  <2>2. <<>> \in Seq(Fact) /\ Len(<<>>) = 0
    OBVIOUS
  <2>3. /\ Append(<<>>, f) \in Seq(Fact) /\ Len(Append(<<>>, f)) = 1
        /\ Append(<<>>, f)[1] = f
    BY <2>2
  <2>4. QED
    BY <2>1, <2>3
<1>24. /\ pir' \in Piers /\ pir'.gif = g /\ pir'.sat = "work" /\ pir'.liv = pir.liv
       /\ pir'.eve = e /\ pir'.wok = TRUE /\ pir'.rel = d /\ pir'.wri = q.wri
       /\ pir'.wal = pir.wal /\ pir'.ova = q.ova
  <2>1. pir' = [q EXCEPT !.gif = g]
    BY <1>7, <1>22, <1>23
  <2>2. /\ pir' \in Piers /\ pir'.gif = g /\ pir'.sat = q.sat /\ pir'.liv = q.liv
        /\ pir'.eve = q.eve /\ pir'.wok = q.wok /\ pir'.rel = q.rel
        /\ pir'.wri = q.wri /\ pir'.wal = q.wal /\ pir'.ova = q.ova
    BY <1>21, <1>23, <2>1 DEF Piers
  <2>3. QED
    BY <1>15, <1>19, <1>21, <2>2 DEF Alike
<1>25. KingTypes
  BY <1>2, <1>11, <1>14, <1>24, NoPlayIs DEF KingTypes
<1>26. KingGood'
  <2>1. e <= Len(hst) /\ pir'.eve = sen'
    BY <1>8, <1>16, <1>24
  <2>2. QED
    BY <1>2, <1>8, <1>9, <1>10, <1>24, <2>1 DEF KingGood
<1>27. PlayGood'
  BY <1>24 DEF PlayGood
<1>28. EffectsGood'
  <2>1. EffectsDurable' /\ EffectsOnce'
    BY <1>1, <1>2, <1>8 DEF PInv, EffectsGood, EffectsDurable, EffectsOnce
  <2>2. \A i \in 1 .. Len(fx) : fx[i].eve <= d
    <3>1. TAKE i \in 1 .. Len(fx)
    <3>2. fx[i].eve \in 1 .. Gulf
      BY <1>1, <1>11 DEF PInv, EffectsGood, EffectsDurable
    <3>3. QED
      BY <1>10, <1>11, <1>12, <1>18, <3>2, SMTT(30)
  <2>3. e = d + 1 /\ f.eve = d + 1 /\ f.job = Seen(d + 1)'
    <3>1. e = d + 1 /\ d + 1 = sen + 1 /\ d + 1 \in Nat
      BY <1>10, <1>16, <1>18
    <3>2. QED
      BY <1>8, <1>9, <1>22, <3>1
  <2>4. \A i \in 1 .. Len(g) : g[i].eve = d + i /\ g[i].job = Seen(d + i)'
    <3>1. \A i \in 1 .. Len(g) : i = 1
      BY <1>23
    <3>2. QED
      BY <1>23, <2>3, <3>1
  <2>5. d <= dun' /\ e = d + Len(g)
    BY <1>8, <1>18, <1>23, <2>3
  <2>6. GiftsGood'
    BY <1>2, <1>24, <2>2, <2>4, <2>5 DEF GiftsGood
  <2>7. QED
    BY <2>1, <2>6 DEF EffectsGood
<1>29. KingStep(p.wri)
  <2>1. p.wri = Tail(pir.wri)
    BY <1>15, <1>19
  <2>2. Keeps(p.wri)
    BY <1>2, <1>9, <1>24, <2>1 DEF Keeps, KeepsTo
  <2>3. Sends(p.wri)
    BY <1>7, <1>21, <1>24 DEF Sends, Grows
  <2>4. ASSUME NEW i \in Len(p.wri) + 1 .. Len(pir'.wri) PROVE MaySend(pir'.wri[i])
    <3>1. WorkWrit(p, d, pir'.wri[i])
      BY <1>21, <1>24 DEF Grows
    <3>2. d <= Gulf
      BY <1>1, <1>18, KingFacts
    <3>3. WritGood(pir'.wri[i])
      BY <3>1, <3>2, SMTT(30) DEF WorkWrit, WritGood
    <3>4. Gulf <= Len(hst) /\ sen' <= Len(hst)
      BY <1>8, <1>11, <1>12
    <3>5. QED
      BY <1>9, <1>24, <3>3, <3>4 DEF MaySend
  <2>5. \A i \in 1 .. Len(pir'.ova) : pir'.ova[i] \in Ovum
    BY <1>21, <1>24
  <2>6. \A i \in 1 .. Len(pir'.wal) : pir'.wal[i] = "exit" => FALSE
    BY <1>1, <1>2, <1>24 DEF PInv, QueuesGood
  <2>7. QED
    BY <1>2, <1>8, <1>9, <1>14, <1>24, <2>2, <2>3, <2>4, <2>5, <2>6 DEF KingStep
<1>30. pir'.sat # "down"
  BY <1>24
<1>31. QED
  BY <1>1, <1>9, <1>25, <1>26, <1>27, <1>28, <1>29, <1>30, KingStepInv

-----------------------------------------------------------------------------
(* The king gives up, or is gone *)

(* Every callback that ends in u3_pier_bail() or _pier_done(). *)
LEMMA OnBailInv ==
  PInv /\ (OnGiveUp \/ OnCram \/ OnWriteBail \/ OnLost) => PInv'
BY BailInv, OverInv DEF OnGiveUp, OnCram, OnWriteBail, OnLost, OnSerfExit,
                        OnSerfBail

(* A failed assertion, or a crash. *)
LEMMA KingLostInv == PInv /\ (OnAbort \/ OnWriteLate \/ KingDies) => PInv'
<1>1. CASE PInv /\ (OnAbort \/ OnWriteLate)
  <2>1. KingGone("abort")
    BY <1>1 DEF OnAbort, OnWriteLate
  <2>2. QED
    BY <1>1, <2>1, KingGoneInv
<1>2. CASE PInv /\ KingDies
  <2>1. KingGone("dead") /\ env.die < MaxDie
    BY <1>2 DEF KingDies
  <2>2. QED
    BY <1>2, <2>1, KingGoneInv
<1>3. QED
  BY <1>1, <1>2

-----------------------------------------------------------------------------
(* The invariant holds *)

(* A plea, whatever it is. *)
LEMMA OnPleaInv == PInv /\ OnPlea => PInv'
BY OnRipeInv, OnPlayDoneInv, OnPreparedInv, OnBailInv, OnWyrdDoneInv,
   OnWorkDoneInv, OnWorkBailInv, OnAnswerInv, KingLostInv DEF OnPlea

(* A turn of the king's loop. *)
LEMMA KingInv == PInv /\ King => PInv'
<1>1. PInv /\ Boots => PInv'
  BY BootMetaInv, BootPlanInv DEF Boots
<1>2. PInv /\ OnDisk => PInv'
  BY OnWriteDoneInv, KingLostInv, OnBailInv, OnReadDoneInv DEF OnDisk
<1>3. QED
  BY <1>1, <1>2, OnPleaInv, OnBailInv, ReadLogInv, OnLoopInv DEF King

(* A writ the worker takes, and a request to the king. *)
LEMMA SerfInv == PInv /\ Serf => PInv'
BY SerfWorkInv, SerfPlayInv, SerfSaveInv, SerfPeekInv, SerfExitInv DEF Serf

LEMMA RequestsInv == PInv /\ Request => PInv'
BY PlanOvumInv, PlanPeekInv, PlanPackInv, SaveTimerInv, ExitRequestInv
   DEF Request

(* A step that changes nothing. *)
LEMMA StutterInv == PInv /\ UNCHANGED vars => PInv'
<1>1. SUFFICES ASSUME PInv, UNCHANGED vars PROVE PInv'
  OBVIOUS
<1>2. /\ UNCHANGED <<db, meta, liv, sen, dun, put, req, red>>
      /\ UNCHANGED <<pir, pay, inn, out, srf, hst, chk, fx, env>>
  BY <1>1 DEF vars, diskVars, pierVars
<1>3. Gulf' = Gulf
  BY <1>2 DEF Gulf
<1>4. TypeOK'
  BY <1>1, <1>2, SMTT(30) DEF PInv, TypeOK, DiskTypeOK
<1>5. LogGood'
  <2>1. Core'
    BY <1>1, <1>2, <1>3, SMTT(30) DEF PInv, LogGood, Core, DiskTypeOK, LogContiguous,
       DiskAsserts, QueueIsGap, WriteIsPrefix, NoIdleBacklog, AckIsDurable,
       MetaBeforeEvents, Dead, MetaBeforePlan
  <2>2. QED
    BY <1>1, <1>2, <2>1 DEF PInv, LogGood, Written, ReadsGood
<1>6. KingGood'
  BY <1>1, <1>2, SMTT(30) DEF PInv, KingGood
<1>7. QueuesGood' /\ Pipes' /\ PlayGood' /\ NewGood'
  BY <1>1, <1>2, <1>3 DEF PInv, QueuesGood, Pipes, PlayGood, NewGood, WritGood,
     PleaFits
<1>8. EffectsGood'
  BY <1>1, <1>2 DEF PInv, EffectsGood, EffectsDurable, EffectsOnce, GiftsGood,
     Seen
<1>9. WorkerGood'
  BY <1>1, <1>2, <1>3 DEF PInv, WorkerGood, SnapshotInLog, WritGood, Seen
<1>10. QED
  BY <1>4, <1>5, <1>6, <1>7, <1>8, <1>9 DEF PInv

(* Every step of either process, of the threads and of the environment. *)
LEMMA NextPInv == PInv /\ [Next]_vars => PInv'
<1>1. PInv /\ (StartBoot \/ Stay \/ SerfDies \/ WriteThread) => PInv'
  BY StartBootInv, StayInv, SerfDiesInv, WriteThreadInv
<1>2. QED
  BY <1>1, KingLostInv, KingInv, SerfInv, RequestsInv, StutterInv DEF Next

(* The invariant holds of every reachable state of a pier, over any number *)
(* of starts, deaths, shutdowns, failed writes and refused events.         *)
THEOREM Invariance == Spec => []PInv
<1>1. Init => PInv
  BY InitPInv
<1>2. PInv /\ [Next]_vars => PInv'
  BY NextPInv
<1>3. QED
  BY <1>1, <1>2, PTL DEF Spec

-----------------------------------------------------------------------------
(* What it means *)

(* The state of king, worker, pipes and log keeps its types. *)
THEOREM TypesKept == Spec => []TypeOK
<1>1. PInv => TypeOK
  BY DEF PInv
<1>2. QED
  BY <1>1, Invariance, PTL

(* No effect reaches a driver before _disk_commit_done() has seen its      *)
(* event in the table, and nothing afterwards removes or changes that      *)
(* event.                                                                  *)
THEOREM EffectsAreDurable == Spec => []EffectsDurable
<1>1. PInv => EffectsDurable
  BY DEF PInv, EffectsGood
<1>2. QED
  BY <1>1, Invariance, PTL

(* Effects are released in event order and never twice: neither            *)
(* _pier_gift_kick() nor the replay of a restarted pier repeats one.       *)
THEOREM EffectsAreReleasedOnce == Spec => []EffectsOnce
<1>1. PInv => EffectsOnce
  BY DEF PInv, EffectsGood
<1>2. QED
  BY <1>1, Invariance, PTL

(* The assertions of _pier_gift_next() and _pier_gift_plan() never fail,   *)
(* and the king's event number is that of the log.                         *)
THEOREM GiftsStayInOrder == Spec => []GiftsInOrder
<1>1. PInv => GiftsInOrder
  BY DEF PInv, EffectsGood, GiftsGood, KingGood, GiftsInOrder
<1>2. QED
  BY <1>1, Invariance, PTL

(* A snapshot contains only events of the log: what a restarted worker     *)
(* loads can always be continued by replay, whoever died in between.       *)
THEOREM SnapshotStaysInLog == Spec => []SnapshotInLog
<1>1. PInv => SnapshotInLog
  BY DEF PInv, WorkerGood
<1>2. QED
  BY <1>1, Invariance, PTL

(* The log records what the worker computed, event by event, also while    *)
(* the write of it is in flight.                                           *)
THEOREM LogIsTheHistory == Spec => []LogIsHistory
<1>1. PInv => LogIsHistory
  <2>1. SUFFICES ASSUME PInv, liv, NEW e \in 1 .. sen, e <= Len(hst)
                 PROVE  hst[e] = Seen(e)
    BY DEF LogIsHistory
  <2>2. sen \in Nat /\ Len(hst) \in Nat
    BY <2>1, KingFacts
  <2>3. QED
    BY <2>1, <2>2 DEF PInv, WorkerGood
<1>2. QED
  BY <1>1, Invariance, PTL

(* The log of a running pier is as sound as that of any other client of    *)
(* disk.c.                                                                 *)
THEOREM PierLogSound == Spec => []LogSound
<1>1. PInv => LogSound
  BY DEF PInv, LogGood, Core, LogSound
<1>2. QED
  BY <1>1, Invariance, PTL
=============================================================================
