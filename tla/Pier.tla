-------------------------------- MODULE Pier --------------------------------
(***************************************************************************)
(* A pier from first boot to shutdown: the king's control flow             *)
(* (pkg/vere/pier.c), its side of the worker protocol (pkg/vere/lord.c),   *)
(* the worker (pkg/vere/serf.c), and the event log of Disk, composed.      *)
(*                                                                         *)
(* King and worker are two processes joined by two pipes.  The king is one *)
(* event loop: every action below whose name starts with On is one         *)
(* callback of it, run to completion, with everything it calls.  The       *)
(* worker handles one writ at a time and answers each with one plea.       *)
(*                                                                         *)
(* An event is a pair <<tag, n>>: n-th boot event, n-th ovum (the 0-th is  *)
(* the %wyrd of version negotiation) or the %crud that replaces it.  The   *)
(* worker's state is the sequence of the events it has applied; equal      *)
(* sequences stand for equal kernels, mugs are left out.                   *)
(***************************************************************************)
EXTENDS Disk

CONSTANTS
  BootLen,     \* events in the boot sequence
  Lif,         \* pir_u->lif_w: how many of them are lifecycle formulas
  ReadBatch,   \* PIER_READ_BATCH
  PlayBatch,   \* PIER_PLAY_BATCH
  WorkBatch,   \* PIER_WORK_BATCH
  Exits,       \* the states in which a shutdown may be requested
  Peps,        \* u3_Host.pep_o: may the pier be started only to be prepared
  Tills,       \* replay barriers the user may ask for
  MaxOva,      \* bound: ova the drivers plan
  MaxPeek,     \* bound: scry requests
  MaxPack,     \* bound: |pack and |meld requests
  MaxSave,     \* bound: firings of the snapshot timer
  MaxDie,      \* bound: deaths of either process
  MaxRun       \* bound: starts of the pier

States == {"init", "boot", "play", "wyrd", "work", "done"}

PierJob ==
  ({"boot"} \X (1 .. BootLen)) \cup ({"ovum", "crud"} \X (0 .. MaxOva))

ASSUME PierAssumption ==
  /\ Job = PierJob
  /\ {BootLen, Lif, ReadBatch, PlayBatch, WorkBatch} \subseteq Nat \ {0}
  /\ Lif <= BootLen /\ Lif <= ReadBatch
  /\ Exits \subseteq States
  /\ Peps \subseteq BOOLEAN /\ Peps # {}
  /\ Tills \subseteq Nat /\ \A t \in Tills : t >= Lif
  /\ {MaxOva, MaxPeek, MaxPack, MaxSave, MaxDie, MaxRun} \subseteq Nat

VARIABLES
  pir,   \* the king's u3_pier with its u3_lord and u3_work
  pay,   \* the king's u3_play
  inn,   \* the pipe of writs to the worker
  out,   \* the pipe of pleas to the king
  srf,   \* the worker process is alive
  hst,   \* the events the worker has applied, Len(hst) = sef_u->dun_d
  chk,   \* the snapshot on disk, as the events it contains
  fx,    \* the effects released to the drivers, ever
  env    \* what the environment has done so far, and how the king ended

pierVars == <<pir, pay, inn, out, srf, hst, chk, fx, env>>

vars == <<diskVars, pierVars>>

-----------------------------------------------------------------------------
(* Values *)

Wyrd == <<"ovum", 0>>
Crud(j) == <<"crud", j[2]>>
BootSeq == [i \in 1 .. BootLen |-> <<"boot", i>>]

Lesser(m, n) == IF m < n THEN m ELSE n
Greater(m, n) == IF m > n THEN m ELSE n

(* u3_writ: what the king asks of the worker. *)
WritType == {"work", "peek", "play", "save", "cram", "pack", "exit"}
Writ(t, e, s) == [typ |-> t, eve |-> e, job |-> s]
Writs == [typ : WritType, eve : Nat, job : Seq(Job)]

(* What the worker answers: its start (%ripe), or the outcome of a writ.   *)
PleaType ==
  {"ripe", "done", "swap", "bail", "played", "stuck", "peek", "live"}
Plea(t, e, s) == [typ |-> t, eve |-> e, job |-> s]
Pleas == [typ : PleaType, eve : Nat, job : Seq(Job)]

(* The king's memory.  liv, eve, pin and wri are the u3_lord (liv_o,       *)
(* eve_d, pin_o and the writ queue, whose length is dep_w); wok tells      *)
(* whether there is a u3_work, gif, rel and wal are its effects queue,     *)
(* last release and barriers; ova and pec are the events planned in the    *)
(* drivers and the scry requests.                                          *)
Down ==
  [sat |-> "down", pep |-> FALSE, liv |-> FALSE, eve |-> 0, pin |-> FALSE, wri |-> <<>>,
   wok |-> FALSE, gif |-> <<>>, rel |-> 0, wal |-> <<>>, ova |-> <<>>,
   pec |-> 0]

Piers ==
  [sat : States \cup {"down"}, pep : BOOLEAN, liv : BOOLEAN, eve : Nat,
   pin : BOOLEAN, wri : Seq(Writs), wok : BOOLEAN, gif : Seq(Fact),
   rel : Nat, wal : Seq({"save", "exit"}), ova : Seq(Job), pec : Nat]

NoPlay == [eve |-> 0, sen |-> 0, req |-> 0, que |-> <<>>]

Plays == [eve : Nat, sen : Nat, req : Nat, que : Seq(Fact)]

(* new: no pier directory yet.  xit: how the king last ended.  rej: ova    *)
(* the worker refused.  The rest counts against the bounds.                *)
Envs ==
  [new : BOOLEAN, xit : {"none", "ok", "bail", "dead", "abort"},
   rej : SUBSET (0 .. MaxOva), ova : 0 .. MaxOva, peek : 0 .. MaxPeek,
   pack : 0 .. MaxPack, save : 0 .. MaxSave, die : 0 .. MaxDie,
   run : 0 .. MaxRun]

(* Types of the king's, the worker's and the environment's state. *)
TypeOK ==
  /\ DiskTypeOK
  /\ pir \in Piers
  /\ pay \in Plays
  /\ inn \in Seq(Writs)
  /\ out \in Seq(Pleas)
  /\ srf \in BOOLEAN
  /\ hst \in Seq(Job)
  /\ chk \in Seq(Job)
  /\ fx \in Seq(Fact)
  /\ env \in Envs

-----------------------------------------------------------------------------
(* lord.c *)

(* _lord_writ_plan(), and the spinner that u3_lord_work() starts.          *)
LordPlan(p, w) ==
  [p EXCEPT !.wri = Append(@, w), !.pin = @ \/ w.typ = "work"]

(* u3_lord_save(), u3_lord_cram(): refused while a writ is outstanding.    *)
LordLive(p, t) ==
  IF p.wri = <<>> THEN LordPlan(p, Writ(t, p.eve, <<>>)) ELSE p

(* _lord_writ_pop(). *)
LordPop(p) == [p EXCEPT !.wri = Tail(@)]

(* The pop of a %work plea, with _lord_work_spin(): the spinner keeps      *)
(* running while more work is outstanding.                                 *)
LordPopWork(p) ==
  [p EXCEPT !.wri = Tail(@),
            !.pin = \E i \in 2 .. Len(p.wri) : p.wri[i].typ = "work"]

-----------------------------------------------------------------------------
(* pier.c, processing new events *)

(* Mutants of GiftKick: nothing waits for the log; the first event         *)
(* released is remembered, not the last.                                   *)
GiftKickEager(p, d) ==
  [p EXCEPT !.gif = <<>>,
            !.rel = IF p.gif = <<>> THEN @ ELSE p.gif[Len(p.gif)].eve]

GiftKickFirst(p, d) ==
  LET g == Undone(p.gif, d)
      n == Len(p.gif) - Len(g)
  IN  [p EXCEPT !.gif = g, !.rel = IF n = 0 THEN @ ELSE p.gif[1].eve]

(* _pier_gift_kick(): release effects up to the last committed event d.    *)
GiftKick(p, d) ==
  LET g == Undone(p.gif, d)
      n == Len(p.gif) - Len(g)
  IN  [p EXCEPT !.gif = g, !.rel = IF n = 0 THEN @ ELSE p.gif[n].eve]

(* Mutants of Walled: a barrier that does not wait for the log; one that   *)
(* waits for the log to be ahead.                                          *)
WalledEarly(p, d) == p.wal # <<>> /\ p.wri = <<>>

WalledStrict(p, d) == p.eve < d /\ p.wal # <<>> /\ p.wri = <<>>

(* _pier_wall(): run a barrier once the worker, the log and the writ queue *)
(* agree.  Each barrier plans a writ, so that the next one waits for it.   *)
(* _pier_work_exit_cb() also disposes of the u3_work.                      *)
Walled(p, d) == p.eve = d /\ p.wal # <<>> /\ p.wri = <<>>

Wall(p, d) ==
  CASE ~Walled(p, d) -> p
    [] Walled(p, d) /\ p.wal[1] = "save" ->
         LordLive([p EXCEPT !.wal = Tail(@)], "save")
    [] Walled(p, d) /\ p.wal[1] = "exit" ->
         LordPlan([p EXCEPT !.wal = Tail(@), !.wok = FALSE,
                            !.gif = <<>>, !.ova = <<>>],
                  Writ("exit", 0, <<>>))

(* _pier_work_send(): the room left in the batch; behind a barrier nothing *)
(* is sent (every barrier is planned with event number 0).                 *)
WorkLen(p) == IF p.wal = <<>> THEN Greater(WorkBatch - Len(p.wri), 0) ELSE 0

(* The ova among the first k writs of a batch: an ovum and a scry request  *)
(* in turns while there are both, then what is left of either.             *)
Eggs(p, k) ==
  LET both == Lesser(Len(p.ova), p.pec)
  IN  CASE k <= 2 * both -> (k + 1) \div 2
        [] k > 2 * both /\ Len(p.ova) > both -> k - both
        [] k > 2 * both /\ Len(p.ova) <= both -> both

(* The rest of it: fill the batch with ova and scry requests.              *)
WorkSend(p) ==
  LET n == Lesser(WorkLen(p), Len(p.ova) + p.pec)
      sent == [k \in 1 .. n |->
                 IF Eggs(p, k) > Eggs(p, k - 1)
                 THEN Writ("work", 0, <<p.ova[Eggs(p, k)]>>)
                 ELSE Writ("peek", 0, <<>>)]
  IN  [p EXCEPT !.wri = @ \o sent,
                !.pin = @ \/ Eggs(p, n) > 0,
                !.ova = SubSeq(@, Eggs(p, n) + 1, Len(@)),
                !.pec = @ - (n - Eggs(p, n))]

(* _pier_work(): advance event processing: release effects, run a barrier, *)
(* send new work.  What is planned is sent, the effects dequeued reach the *)
(* drivers.                                                                *)
Work(p, d) ==
  \E k \in {GiftKick(p, d)} :
  \E w \in {Wall(k, d)} :
  \E q \in {IF w.sat = "work" THEN WorkSend(w) ELSE w} :
    /\ pir' = q
    /\ inn' = inn \o SubSeq(q.wri, Len(p.wri) + 1, Len(q.wri))
    /\ fx' = fx \o SubSeq(p.gif, 1, Len(p.gif) - Len(k.gif))

(* u3_disk_exit() in a process that goes on: a write the thread has        *)
(* started cannot be cancelled, and will call back.                        *)
LogExit ==
  \/ DiskGone
  \/ req.sat # "idle" /\ red' = <<>> /\ UNCHANGED writeVars

(* _pier_exit() closes the log when the last barrier runs. *)
WorkLog(p, d) ==
  IF Walled(p, d) /\ p.wal[1] = "exit" THEN LogExit ELSE UNCHANGED diskVars

-----------------------------------------------------------------------------
(* pier.c, replay *)

(* _pier_play_next(): detach a batch: the head and up to len_w more.       *)
PlayNext(y, len) == Lesser(len + 1, Len(y.que))

(* The batch size of _pier_play_send(). *)
PlayLen(y) ==
  IF y.sen = 0 THEN Greater(Lif, PlayBatch)
  ELSE Lesser(y.eve - y.sen, PlayBatch)

(* _pier_play_send(): the writ of the next batch, and the queue behind it. *)
PlayWrit(y) ==
  Writ("play", y.que[1].eve,
       [i \in 1 .. PlayNext(y, PlayLen(y)) |-> y.que[i].job])

PlaySent(y) ==
  IF y.que = <<>> THEN y
  ELSE LET n == PlayNext(y, PlayLen(y))
       IN  [y EXCEPT !.sen = y.que[n].eve,
                     !.que = SubSeq(@, n + 1, Len(@))]

(* _pier_play_read(): ask for the events that follow the queue, once, and  *)
(* only while the queue is short.                                          *)
PlayLast(y) == IF y.que = <<>> THEN y.sen ELSE y.que[Len(y.que)].eve

(* Mutants of PlayReads: an event that was asked for is asked for again;   *)
(* the first one is never asked for.                                       *)
PlayReadsAgain(y) ==
  /\ y.que # <<>> => PlayLast(y) - y.que[1].eve < PlayBatch
  /\ PlayLast(y) < y.eve

PlayReadsLate(y) ==
  /\ y.que # <<>> => PlayLast(y) - y.que[1].eve < PlayBatch
  /\ PlayLast(y) < y.eve
  /\ PlayLast(y) > y.req

PlayReads(y) ==
  /\ y.que # <<>> => PlayLast(y) - y.que[1].eve < PlayBatch
  /\ PlayLast(y) < y.eve
  /\ PlayLast(y) + 1 > y.req

(* _pier_wyrd_init(): send %wyrd. *)
WyrdInit(p) == LordPlan([p EXCEPT !.sat = "wyrd"], Writ("work", 0, <<Wyrd>>))

(* u3_pier_exit() short of the work state, with _pier_exit(): the log is   *)
(* closed and the worker told to stop.                                     *)
ExitNow(p, w) ==
  /\ pir' = LordPlan([p EXCEPT !.sat = "done"], Writ("exit", 0, <<>>))
  /\ inn' = inn \o SubSeq(pir'.wri, Len(w) + 1, Len(pir'.wri))
  /\ pay' = NoPlay
  /\ LogExit

(* _pier_play(), with king p, replay y, reads r and d events committed:    *)
(* at the target, snapshot and go on to %wyrd, or export and stop at a     *)
(* replay barrier; short of it, send a batch and read ahead.               *)
PierPlay(p, y, r, d) ==
  IF p.eve = y.eve
  THEN /\ pir' = IF y.eve < d THEN LordLive(p, "cram")
                 ELSE WyrdInit(LordLive(p, "save"))
       /\ pay' = y
       /\ red' = r
  ELSE LET z == PlaySent(y)
       IN  /\ pir' = IF y.que = <<>> THEN p ELSE LordPlan(p, PlayWrit(y))
           /\ pay' = IF PlayReads(z)
                     THEN [z EXCEPT !.req = PlayLast(z) + 1] ELSE z
           /\ red' = IF PlayReads(z)
                     THEN Asked(r, PlayLast(z) + 1,
                                Lesser(y.eve - PlayLast(z), ReadBatch))
                     ELSE r

(* _pier_play_init(): begin boot/replay up to event e. *)
PlayInit(p, e, d) ==
  PierPlay([p EXCEPT !.sat = "play"],
           [eve |-> e, sen |-> p.eve, req |-> 0, que |-> <<>>], red, d)

(* Send the writs planned by a replay step that started from queue w.      *)
PlaySends(w) ==
  /\ inn' = inn \o SubSeq(pir'.wri, Len(w) + 1, Len(pir'.wri))
  /\ fx' = fx

-----------------------------------------------------------------------------
(* The king and the worker start and stop *)

(* u3_lord_init(), and u3_serf_init() in the worker: it loads the snapshot *)
(* and reports how far that goes.                                          *)
Spawn ==
  /\ srf' = TRUE
  /\ hst' = chk
  /\ inn' = <<>>
  /\ out' = <<Plea("ripe", Len(chk), <<>>)>>

(* u3_pier_boot() of a new pier, up to the first metadata write. *)
StartBoot ==
  /\ pir.sat = "down"
  /\ env.new
  /\ DiskOpen
  /\ pir' = [Down EXCEPT !.sat = "boot"]
  /\ env.run < MaxRun
  /\ env' = [env EXCEPT !.new = FALSE, !.xit = "none", !.run = @ + 1]
  /\ Spawn
  /\ UNCHANGED <<pay, chk, fx>>

(* _pier_boot_plan(), whose metadata writes a crash may separate: no       *)
(* callback runs before it returns.                                        *)
Booting == pir.sat = "boot" /\ sen = 0

BootMeta ==
  /\ Booting
  /\ DiskSaveMeta
  /\ UNCHANGED <<red, pierVars>>

BootPlan ==
  /\ Booting
  /\ meta = Len(MetaKeys)
  /\ DiskBoot(BootSeq)
  /\ UNCHANGED <<red, pierVars>>

(* u3_pier_stay() of an existing pier; u3_disk_read_meta() refuses one     *)
(* without all of its metadata.  The worker of the king before it is gone. *)
Stay ==
  /\ pir.sat = "down"
  /\ ~env.new
  /\ ~srf
  /\ env.run < MaxRun
  /\ env' = [env EXCEPT !.xit = "none", !.run = @ + 1]
  /\ meta = Len(MetaKeys)
  /\ DiskOpen
  /\ \E b \in Peps : pir' = [Down EXCEPT !.sat = "init", !.pep = b]
  /\ Spawn
  /\ UNCHANGED <<pay, chk, fx>>

(* u3_pier_bail(), and the exit() that u3_king_done() ends in: the worker  *)
(* is killed, the log closed.                                              *)
PierBail ==
  /\ DiskGone
  /\ pir' = Down
  /\ pay' = NoPlay
  /\ inn' = <<>>
  /\ out' = <<>>
  /\ srf' = FALSE
  /\ env' = [env EXCEPT !.xit = "bail"]
  /\ UNCHANGED <<hst, chk, fx>>

(* The king process dies: its memory is gone, but the writs it has sent    *)
(* are in the pipe of the worker, which has not noticed yet.               *)
KingGone(x) ==
  /\ DiskGone
  /\ pir' = Down
  /\ pay' = NoPlay
  /\ out' = <<>>
  /\ env' = [env EXCEPT !.xit = x, !.die = IF x = "dead" THEN @ + 1 ELSE @]
  /\ UNCHANGED <<inn, srf, hst, chk, fx>>

KingDies ==
  /\ pir.sat # "down"
  /\ env.die < MaxDie
  /\ KingGone("dead")

(* The worker process dies, or finds the pipe of a dead king closed. *)
SerfDies ==
  /\ srf
  /\ pir.sat # "down" => env.die < MaxDie
  /\ srf' = FALSE
  /\ inn' = <<>>
  /\ env' = IF pir.sat # "down" THEN [env EXCEPT !.die = @ + 1] ELSE env
  /\ UNCHANGED <<diskVars, pir, pay, out, hst, chk, fx>>

(* The king learns that the worker is gone, at any point of the pleas it   *)
(* left: from SIGCHLD (_lord_on_serf_exit()), which after %exit ends the   *)
(* king in _pier_done(), or from the end of the pipe                       *)
(* (_lord_on_serf_bail()), which _lord_writ_send() has it ignore once      *)
(* %exit is sent.                                                          *)
Over ==
  /\ DiskGone
  /\ pir' = Down
  /\ pay' = NoPlay
  /\ inn' = <<>>
  /\ out' = <<>>
  /\ env' = [env EXCEPT !.xit = "ok"]
  /\ UNCHANGED <<srf, hst, chk, fx>>

Missed == pir.sat # "down" /\ ~Booting /\ ~srf

OnSerfExit ==
  /\ Missed
  /\ IF pir.wri # <<>> /\ pir.wri[1].typ = "exit" /\ pir.sat = "done"
     THEN Over ELSE PierBail

(* Mutant of OnSerfBail: the end of the pipe is an error, always. *)
OnSerfBailAlways == Missed /\ PierBail

OnSerfBail ==
  /\ Missed
  /\ \A i \in 1 .. Len(pir.wri) : pir.wri[i].typ # "exit"
  /\ PierBail

-----------------------------------------------------------------------------
(* The king hears from the worker: _lord_on_plea() *)

(* What the callbacks for a plea q assert: it answers the writ at the head *)
(* of the queue (_lord_writ_need()); a %ripe comes once and is not ahead   *)
(* of the log (_pier_on_lord_live()); a %work plea finds the negotiation   *)
(* or the work state, the spinner running (_lord_work_spin()), and carries *)
(* the next event (u3_disk_plan()).                                        *)
PleaExpected(q) ==
  LET answers(T) == pir.wri # <<>> /\ pir.wri[1].typ \in T
  IN  /\ q.typ = "ripe" =>
           /\ ~pir.liv
           /\ liv
           /\ q.eve <= dun
           /\ pir.sat = "boot" \/ (pir.sat = "init" /\ sen = dun)
      /\ q.typ \in {"done", "swap", "bail"} =>
           /\ answers({"work"})
           /\ pir.pin
           /\ pir.sat = "wyrd" \/ pir.wok
      /\ q.typ \in {"done", "swap"} => q.eve = sen + 1
      /\ q.typ \in {"played", "stuck"} =>
           answers({"play"}) /\ pir.sat = "play"
      /\ q.typ = "peek" => answers({"peek"})
      /\ q.typ = "live" => answers({"save", "cram", "pack"})

Heeds == pir.sat # "down" /\ ~Booting /\ out # <<>>

Hears(T) == Heeds /\ PleaExpected(out[1]) /\ out[1].typ \in T

(* An assertion fails, or _lord_writ_need() meets the wrong writ. *)
OnAbort ==
  /\ Heeds /\ ~PleaExpected(out[1])
  /\ KingGone("abort")

Heard == out' = Tail(out) /\ UNCHANGED <<srf, hst, chk>>

(* _lord_plea_ripe(), _pier_on_lord_live(): the worker is ready.  A pier   *)
(* that boots starts to replay when its boot sequence is committed; an     *)
(* existing one replays what its snapshot lacks, or goes on to %wyrd.      *)
OnRipe ==
  /\ Hears({"ripe"})
  /\ LET p == [pir EXCEPT !.liv = TRUE, !.eve = out[1].eve]
     IN  \/ /\ p.sat = "boot"
            /\ IF sen > 0 /\ sen = dun
               THEN PlayInit(p, dun, dun)
               ELSE pir' = p /\ UNCHANGED <<pay, red>>
         \/ /\ p.sat # "boot"
            /\ p.eve < dun
            /\ \E e \in {dun} \cup {t \in Tills : p.eve < t /\ t < dun} :
                 PlayInit(p, e, dun)
         \/ /\ p.sat # "boot"
            /\ p.eve >= dun
            /\ ~p.pep
            /\ pir' = WyrdInit(p)
            /\ UNCHANGED <<pay, red>>
  /\ PlaySends(pir.wri)
  /\ Heard
  /\ UNCHANGED <<writeVars, env>>

(* _lord_plea_play_done(): the batch at the head of the queue is applied. *)
Replayed ==
  [LordPop(pir) EXCEPT !.eve = pir.wri[1].eve + Len(pir.wri[1].job) - 1]

(* _pier_on_lord_play_done(): go on. *)
OnPlayDone ==
  /\ Hears({"played"})
  /\ ~(pir.pep /\ Replayed.eve = dun)
  /\ PierPlay(Replayed, pay, red, dun)
  /\ PlaySends(Replayed.wri)
  /\ Heard
  /\ UNCHANGED <<writeVars, env>>

(* Either of them in a pier that was started only to be prepared for an    *)
(* upgrade: snapshot and stop.                                             *)
OnPrepared ==
  /\ pir.pep
  /\ \/ /\ Hears({"ripe"})
        /\ out[1].eve >= dun
        /\ ExitNow([pir EXCEPT !.liv = TRUE, !.eve = out[1].eve], pir.wri)
     \/ /\ Hears({"played"})
        /\ Replayed.eve = dun
        /\ ExitNow(LordLive(Replayed, "save"), Replayed.wri)
  /\ Heard
  /\ UNCHANGED <<fx, env>>

(* _pier_on_lord_play_bail(), _pier_on_lord_wyrd_bail() and a failed       *)
(* _pier_wyrd_aver(): give up.                                             *)
OnGiveUp ==
  /\ \/ Hears({"stuck"})
     \/ Hears({"done", "swap", "bail"}) /\ pir.sat = "wyrd"
  /\ PierBail

(* Mutant of PleaFact: always the event that was sent. *)
PleaFactSent == [eve |-> out[1].eve, job |-> pir.wri[1].job[1]]

(* The fact of a %work plea: the king's own copy of the event, or the one  *)
(* the worker applied in its place.                                        *)
PleaFact ==
  [eve |-> out[1].eve,
   job |-> IF out[1].typ = "swap" THEN out[1].job[1] ELSE pir.wri[1].job[1]]

(* n ova that the drivers plan. *)
Ova(n) == [i \in 1 .. n |-> <<"ovum", env.ova + i>>]

(* _pier_on_lord_wyrd_done(): commit the event, enter the work state       *)
(* (_pier_work_init(), where the drivers plan their first events; there is *)
(* nothing to release and no barrier yet), queue its effects.              *)
OnWyrdDone ==
  /\ Hears({"done", "swap"})
  /\ pir.sat = "wyrd"
  /\ DiskPlan(PleaFact)
  /\ \E n \in 0 .. MaxOva - env.ova :
       LET p == [LordPopWork(pir) EXCEPT !.eve = out[1].eve, !.sat = "work",
                                         !.wok = TRUE, !.rel = dun,
                                         !.ova = Ova(n)]
       IN  \E q \in {WorkSend(p)} :
             /\ pir' = [q EXCEPT !.gif = Append(@, PleaFact)]
             /\ inn' = inn \o SubSeq(q.wri, Len(p.wri) + 1, Len(q.wri))
             /\ env' = [env EXCEPT !.ova = @ + n]
  /\ pay' = NoPlay
  /\ Heard
  /\ UNCHANGED <<red, fx>>

(* Mutant of OnWorkDone: the effects put at the wrong end of their queue. *)
OnWorkDoneFront ==
  /\ Hears({"done", "swap"})
  /\ pir.sat # "wyrd"
  /\ DiskPlan(PleaFact)
  /\ Work([LordPopWork(pir) EXCEPT !.eve = out[1].eve,
                                   !.gif = <<PleaFact>> \o @], dun)
  /\ Heard
  /\ UNCHANGED <<red, pay, env>>

(* _pier_on_lord_work_done(): commit the event, queue its effects. *)
OnWorkDone ==
  /\ Hears({"done", "swap"})
  /\ pir.sat # "wyrd"
  /\ DiskPlan(PleaFact)
  /\ Work([LordPopWork(pir) EXCEPT !.eve = out[1].eve,
                                   !.gif = Append(@, PleaFact)], dun)
  /\ Heard
  /\ UNCHANGED <<red, pay, env>>

(* _pier_on_lord_work_bail(): the event is dropped. *)
OnWorkBail ==
  /\ Hears({"bail"})
  /\ pir.sat # "wyrd"
  /\ WorkLog(LordPopWork(pir), dun)
  /\ Work(LordPopWork(pir), dun)
  /\ env' = [env EXCEPT !.rej = @ \cup {pir.wri[1].job[1][2]}]
  /\ Heard
  /\ UNCHANGED pay

(* _lord_plea_peek(), _lord_plea_live() of a snapshot, |pack or |meld. *)
OnAnswer ==
  /\ Hears({"peek", "live"})
  /\ pir.wri[1].typ # "cram"
  /\ pir' = LordPop(pir)
  /\ Heard
  /\ UNCHANGED <<diskVars, pay, inn, fx, env>>

(* _pier_on_lord_cram(): at a replay barrier, stop. *)
OnCram ==
  /\ Hears({"live"})
  /\ pir.wri[1].typ = "cram"
  /\ PierBail

-----------------------------------------------------------------------------
(* The king hears from the log, and from its loop *)

(* _pier_on_disk_write_done(): during boot, replay once the worker is      *)
(* there too; later, advance.                                              *)
OnWriteDone ==
  /\ DiskCommitDone
  /\ \/ /\ pir.sat = "boot"
        /\ IF pir.liv
           THEN PlayInit(pir, dun', dun')
           ELSE UNCHANGED <<pir, pay, red>>
        /\ PlaySends(pir.wri)
     \/ /\ pir.wok
        /\ Work(pir, dun')
        /\ UNCHANGED <<pay, red>>
  /\ UNCHANGED <<out, srf, hst, chk, env>>

(* A write completes in a pier that has been told to exit: there is no     *)
(* u3_work to advance.                                                     *)
OnWriteLate ==
  /\ req.sat = "good"
  /\ pir.sat # "boot" /\ ~pir.wok
  /\ KingGone("abort")

(* _pier_on_disk_write_bail(). *)
OnWriteBail ==
  /\ pir.sat # "down"
  /\ req.sat = "fail"
  /\ PierBail

(* The write thread. *)
WriteThread ==
  /\ DiskCommitCb
  /\ UNCHANGED <<red, pierVars>>

(* _disk_read_start_cb(); the read itself cannot fail in a live pier. *)
ReadLog ==
  /\ DiskReadStart
  /\ UNCHANGED <<writeVars, pierVars>>

(* _pier_on_disk_read_done(), with _pier_play_plan(). *)
OnReadDone ==
  /\ pir.sat # "down"
  /\ Delivered
  /\ PierPlay(pir, [pay EXCEPT !.que = @ \o red[1].fac], Tail(red), dun)
  /\ PlaySends(pir.wri)
  /\ UNCHANGED <<writeVars, out, srf, hst, chk, env>>

(* _pier_work_afte_cb(), _pier_work_idle_cb(): every turn of the loop. *)
OnLoop ==
  /\ pir.wok
  /\ \/ Undone(pir.gif, dun) # pir.gif
     \/ Walled(pir, dun)
     \/ pir.sat = "work" /\ WorkSend(pir) # pir
  /\ WorkLog(pir, dun)
  /\ Work(pir, dun)
  /\ UNCHANGED <<pay, out, srf, hst, chk, env>>

-----------------------------------------------------------------------------
(* The worker: u3_serf_writ() *)

(* The worker takes the next writ, and answers it; nobody hears a worker   *)
(* whose king is dead.                                                     *)
Takes(T) ==
  /\ srf
  /\ inn # <<>>
  /\ inn[1].typ \in T
  /\ inn' = Tail(inn)

Answers(q) ==
  /\ out' = IF pir.sat = "down" THEN out ELSE Append(out, q)
  /\ UNCHANGED <<diskVars, pir, pay, srf, fx, env>>

(* _serf_work(): the event is applied, or a %crud in its place, or neither. *)
SerfWork ==
  /\ Takes({"work"})
  /\ hst # <<>>
  /\ LET j == inn[1].job[1]
     IN  \/ /\ hst' = Append(hst, j)
            /\ Answers(Plea("done", Len(hst'), <<>>))
         \/ /\ hst' = Append(hst, Crud(j))
            /\ Answers(Plea("swap", Len(hst'), <<Crud(j)>>))
         \/ /\ hst' = hst
            /\ Answers(Plea("bail", 0, <<>>))
  /\ UNCHANGED chk

(* u3_serf_play(): a worker without a kernel runs the batch as a lifecycle *)
(* sequence, whole or not at all; later batches are applied event by event *)
(* up to the first that fails.                                             *)
SerfPlay ==
  /\ Takes({"play"})
  /\ inn[1].eve = Len(hst) + 1
  /\ LET s == inn[1].job
     IN  \/ /\ hst' = hst \o s
            /\ Answers(Plea("played", 0, <<>>))
         \/ /\ \E n \in IF hst = <<>> THEN {0} ELSE 0 .. Len(s) - 1 :
                 hst' = hst \o SubSeq(s, 1, n)
            /\ Answers(Plea("stuck", Len(hst'), <<>>))
  /\ UNCHANGED chk

(* _serf_writ_live_save(), and the save that ends a %cram. *)
SerfSave ==
  /\ Takes({"save", "cram"})
  /\ inn[1].eve = Len(hst)
  /\ chk' = hst
  /\ Answers(Plea("live", 0, <<>>))
  /\ UNCHANGED hst

(* u3_serf_peek(), %pack and %meld leave the kernel as it is. *)
SerfPeek ==
  /\ Takes({"peek", "pack"})
  /\ Answers(Plea(IF inn[1].typ = "peek" THEN "peek" ELSE "live", 0, <<>>))
  /\ UNCHANGED <<hst, chk>>

(* The worker process ends: _serf_writ_live_exit(), a snapshot refused     *)
(* because the event numbers differ, the assertion of u3_serf_play() that  *)
(* the batch is the next one, or that of u3_serf_work() that there is a    *)
(* kernel.                                                                 *)
SerfExit ==
  /\ \/ Takes({"exit"})
     \/ Takes({"save", "cram"}) /\ inn[1].eve # Len(hst)
     \/ Takes({"play"}) /\ inn[1].eve # Len(hst) + 1
     \/ Takes({"work"}) /\ hst = <<>>
  /\ srf' = FALSE
  /\ UNCHANGED <<diskVars, pir, pay, out, hst, chk, fx, env>>

-----------------------------------------------------------------------------
(* The environment *)

(* u3_auto_plan(): a driver plans an event. *)
PlanOvum ==
  /\ pir.wok
  /\ env.ova < MaxOva
  /\ env' = [env EXCEPT !.ova = @ + 1]
  /\ pir' = [pir EXCEPT !.ova = @ \o Ova(1)]
  /\ UNCHANGED <<diskVars, pay, inn, out, srf, hst, chk, fx>>

(* u3_pier_peek() and its kin, _pier_peek_plan(). *)
PlanPeek ==
  /\ pir.wok
  /\ env.peek < MaxPeek
  /\ env' = [env EXCEPT !.peek = @ + 1]
  /\ pir' = [pir EXCEPT !.pec = @ + 1]
  /\ UNCHANGED <<diskVars, pay, inn, out, srf, hst, chk, fx>>

(* u3_pier_pack(), u3_pier_meld(): sent at once, whatever is outstanding.  *)
PlanPack ==
  /\ pir.wok
  /\ env.pack < MaxPack
  /\ env' = [env EXCEPT !.pack = @ + 1]
  /\ pir' = LordPlan(pir, Writ("pack", 0, <<>>))
  /\ inn' = Append(inn, Writ("pack", 0, <<>>))
  /\ UNCHANGED <<diskVars, pay, out, srf, hst, chk, fx>>

(* _save_time_cb(), u3_pier_save(): the snapshot timer plans a barrier. *)
SaveTimer ==
  /\ pir.sat = "work"
  /\ env.save < MaxSave
  /\ env' = [env EXCEPT !.save = @ + 1]
  /\ pir' = [pir EXCEPT !.wal = Append(@, "save")]
  /\ UNCHANGED <<diskVars, pay, inn, out, srf, hst, chk, fx>>

(* Mutants of ExitWalls: a snapshot is not taken; the exit is forgotten. *)
ExitWallsBare == <<"exit">>

ExitWallsSaveOnly == <<"save">>

(* The barriers u3_pier_exit() plans: snapshot, then stop. *)
ExitWalls == <<"save", "exit">>

(* u3_pier_exit() on a signal or an effect: in the work state, snapshot    *)
(* and exit behind barriers; during version negotiation, assert.           *)
ExitRequest ==
  /\ pir.sat \in Exits
  /\ ~Booting
  /\ \/ /\ pir.sat = "work"
        /\ pir' = [pir EXCEPT !.sat = "done", !.wal = @ \o ExitWalls]
        /\ UNCHANGED <<diskVars, pay, inn, out, srf, hst, chk, fx, env>>
     \/ /\ pir.sat \in {"init", "boot", "play"}
        /\ ExitNow(pir, pir.wri)
        /\ UNCHANGED <<out, srf, hst, chk, fx, env>>
     \/ /\ pir.sat = "wyrd"
        /\ KingGone("abort")

-----------------------------------------------------------------------------
(* Specification *)

Init ==
  /\ DiskStart
  /\ pir = Down
  /\ pay = NoPlay
  /\ inn = <<>>
  /\ out = <<>>
  /\ srf = FALSE
  /\ hst = <<>>
  /\ chk = <<>>
  /\ fx = <<>>
  /\ env = [new |-> TRUE, xit |-> "none", rej |-> {}, ova |-> 0, peek |-> 0,
            pack |-> 0, save |-> 0, die |-> 0, run |-> 0]

OnPlea ==
  \/ OnRipe \/ OnPlayDone \/ OnPrepared \/ OnGiveUp \/ OnWyrdDone
  \/ OnWorkDone \/ OnWorkBail \/ OnAnswer \/ OnCram \/ OnAbort

Serf == SerfWork \/ SerfPlay \/ SerfSave \/ SerfPeek \/ SerfExit

OnLost == OnSerfExit \/ OnSerfBail

OnDisk == OnWriteDone \/ OnWriteLate \/ OnWriteBail \/ OnReadDone

Boots == BootMeta \/ BootPlan

Request == PlanOvum \/ PlanPeek \/ PlanPack \/ SaveTimer \/ ExitRequest

King == Boots \/ OnPlea \/ OnLost \/ OnDisk \/ ReadLog \/ OnLoop

Next ==
  \/ StartBoot \/ Stay \/ KingDies \/ SerfDies \/ King \/ WriteThread \/ Serf
  \/ Request

Spec == Init /\ [][Next]_vars

(* The king's loop runs while any of its sources has something for it, the *)
(* write thread and the worker finish what they are given.  Nothing makes  *)
(* a process start, die or receive a request.                              *)
Fairness == WF_vars(King) /\ WF_vars(WriteThread) /\ WF_vars(Serf)

FairSpec == Spec /\ Fairness

-----------------------------------------------------------------------------
(* Safety *)

(* No callback for the worker meets a failed assertion: _lord_writ_need(), *)
(* u3_disk_plan(), _pier_on_lord_live() and the state each callback        *)
(* requires, over every interleaving of pleas with writes, reads and       *)
(* requests.                                                               *)
PleasExpected == Heeds => PleaExpected(out[1])

(* The log calls back into a state that can take it: a completed write     *)
(* finds the boot or the work state (_pier_on_disk_write_done()), a        *)
(* completed read the replay whose last event it follows                   *)
(* (_pier_play_plan()).                                                    *)
CallbacksExpected ==
  /\ req.sat \in {"good", "fail"} => pir.sat = "boot" \/ pir.wok
  /\ red # <<>> => pir.sat = "play" /\ red[1].eve = PlayLast(pay) + 1

(* Effects wait in event order behind the last one released, as            *)
(* _pier_gift_next() and _pier_gift_plan() assert, and king, log and       *)
(* queue count the same events.                                            *)
GiftsInOrder ==
  pir.wok =>
    /\ \A i \in 1 .. Len(pir.gif) : pir.gif[i].eve = pir.rel + i
    /\ pir.eve = pir.rel + Len(pir.gif)
    /\ pir.eve = sen

(* An effect reaches the drivers only after its event is in the log, and   *)
(* the log never says otherwise again: no crash un-happens an event whose  *)
(* effects the world has seen.                                             *)
EffectsDurable ==
  \A i \in 1 .. Len(fx) :
    fx[i].eve \in DOMAIN db /\ db[fx[i].eve] = fx[i].job

(* The effects of an event reach the drivers at most once and in event     *)
(* order, across any number of restarts: replay releases nothing.          *)
EffectsOnce ==
  \A i \in 1 .. Len(fx) : \A j \in 1 .. Len(fx) :
    i < j => fx[i].eve < fx[j].eve

(* The snapshot never runs ahead of the log, even when the worker handles  *)
(* the writs of a king that is dead: the barrier of u3_pier_save() is      *)
(* enough.                                                                 *)
SnapshotInLog ==
  /\ Len(chk) <= Gulf
  /\ \A i \in 1 .. Len(chk) : chk[i] = db[i]

(* What the log holds, or is about to hold, is what the worker applied,    *)
(* also when it applied a %crud in place of the event it was sent.         *)
LogIsHistory ==
  (liv /\ srf) =>
    \A e \in 1 .. sen : e <= Len(hst) => hst[e] = Seen(e)

(* The worker finds every writ consistent with its own count of events:    *)
(* the assertion of u3_serf_play(), unless a batch before has failed, and  *)
(* the check of _serf_writ_live_save(); and a lifecycle sequence reaches   *)
(* it whole, in one batch (_pier_play_send()).                             *)
PlayFailed == \E i \in 1 .. Len(out) : out[i].typ = "stuck"

WritsExpected ==
  (srf /\ inn # <<>> /\ pir.sat # "down" /\ ~PlayFailed) =>
    LET w == inn[1]
    IN  /\ w.typ = "play" => w.eve = Len(hst) + 1
        /\ w.typ \in {"save", "cram"} => w.eve = Len(hst)
        /\ (w.typ = "play" /\ hst = <<>>) => Len(w.job) >= Lif

(* While no process dies, what the king and the worker assert of each      *)
(* other's messages, and of the log's callbacks, holds on both sides of    *)
(* the pipe.                                                               *)
AssertsHold ==
  PleasExpected /\ CallbacksExpected /\ WritsExpected

(* The worker has been told to stop. *)
ExitSent == pir.sat = "done" /\ pir.wri # <<>> /\ pir.wri[1].typ = "exit"

(* A graceful shutdown is not mistaken for an error: once the worker has   *)
(* been told to stop, the king ends in _pier_done(), whether it first sees *)
(* the end of the pipe or the end of the process.                          *)
ExitIsOk ==
  [][(ExitSent /\ pir'.sat = "down") => env'.xit \in {"ok", "dead"}]_vars

(* The log is not closed while it is writing: the barrier that exits never *)
(* runs in the completion of a write, whose _disk_commit_done() goes on to *)
(* use the log.                                                            *)
ExitOutsideWrite ==
  (pir.wal # <<>> /\ pir.wal[1] = "exit") => req = Idle /\ put = <<>>

(* A graceful exit loses nothing: when the worker is told to stop, the     *)
(* snapshot holds every event of the log, and the log is quiet.            *)
ExitSaved == (ExitSent => Len(chk) = Gulf) /\ ExitOutsideWrite

-----------------------------------------------------------------------------
(* Liveness *)

(* Replay comes to an end, whatever the interleaving of reads and batches: *)
(* it never waits for a read that was not asked for.                       *)
ReplayEnds == pir.sat \in {"boot", "play"} ~> pir.sat \notin {"boot", "play"}

(* A requested shutdown completes: no barrier waits for ever. *)
ExitEnds == pir.sat = "done" ~> pir.sat = "down"

(* An ovum that a driver has planned is logged, in its own form or as a    *)
(* %crud, or refused, unless the pier stops; a snapshot barrier delays it  *)
(* only for a while.                                                       *)
Logged(n) == \E e \in DOMAIN db : db[e] \in {<<"ovum", n>>, <<"crud", n>>}

OvumSettled ==
  \A n \in 1 .. MaxOva :
    (\E i \in 1 .. Len(pir.ova) : pir.ova[i][2] = n)
      ~> (Logged(n) \/ n \in env.rej \/ pir.sat \in {"done", "down"})

(* The effects of an event that was computed are released, a shutdown      *)
(* notwithstanding, unless a process dies.                                 *)
GiftReleased ==
  pir.gif # <<>> ~>
    (pir.sat = "down" \/ (fx # <<>> /\ fx[Len(fx)].eve = pir.eve))

(* No event and no effect is stuck in the king: what drivers plan is       *)
(* logged, and what the worker computed is released.                       *)
WorkSettled == OvumSettled /\ GiftReleased

-----------------------------------------------------------------------------
(* What a comment and an assertion say, and the code does not do *)

(* "%work must be performed against an extant kernel" (u3_serf_work()): a  *)
(* worker that is sent a %work has booted.                                 *)
KernelBeforeWork ==
  (srf /\ inn # <<>> /\ inn[1].typ = "work") => hst # <<>>

=============================================================================
