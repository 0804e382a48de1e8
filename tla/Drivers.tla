------------------------------ MODULE Drivers -------------------------------
(***************************************************************************)
(* The timer driver (io/behn.c) and the two small ones (io/fore.c,         *)
(* io/hind.c) on their queues, between the pier that takes their ova and   *)
(* the worker that runs them.  What Arvo keeps of its timers is external:  *)
(* whether one is due, and whether it has told this process so.            *)
(***************************************************************************)
EXTENDS Auto

CONSTANT Batch  \* ova the pier has with the worker at one time

ASSUME DriversAssumption ==
    /\ {"fore", "behn", "hind"} \subseteq CarSet
    /\ {"wack", "verb", "inject", "born", "wake", "trim"} \subseteq Cards
    /\ Cardinality(Eggs) >= 4

VARIABLES h,      \* the queues
          fly,    \* ova sent to the worker, oldest first
          gifts,  \* effects on their way back, oldest first
          alm,    \* behn: alm_o, the alarm is set
          liv,    \* behn: liv_o (fore and hind are live from the start)
          sat,    \* the pier: "init", "work", "done" (shutting down), "gone"
          due,    \* Arvo has a timer to be woken for
          told    \* Arvo believes it has asked this process for it

dvars == <<h, fly, gifts, alm, liv, sat, due, told>>

Doze(wen) == [tag |-> "doze", wen |-> wen]
Plain(tag) == [tag |-> tag, wen |-> FALSE]

Effects == {Doze(TRUE), Doze(FALSE)} \cup {Plain(t) : t \in {"exit", "trim", "other"}}

DriversInit ==
    /\ h = EmptyHeap
    /\ fly = <<>> /\ gifts = <<>>
    /\ alm = FALSE /\ liv = FALSE /\ sat = "init"
    /\ due \in BOOLEAN /\ told = FALSE

\* An ovum is made in the first unused place and planned.
Planned(g, card) ==
    LET e == Min(Unused(g)) IN AutoPlan(Made(g, e, card[2]), card[1], e)

\* The ova that are planned in one go.
Plans(cards) ==
    LET plan[n \in 0 .. Len(cards)] ==
            IF n = 0 THEN h ELSE Planned(plan[n - 1], cards[n])
    IN  plan[Len(cards)]

CanPlan(n) == Cardinality(Unused(h)) >= n

\* u3_auto_talk(): fore injects entropy and verbosity, and an ovum of the user's
\* when one was given; behn says %born; hind says nothing.
Talk ==
    /\ sat = "init" /\ sat' = "work"
    /\ \E user \in {<<>>, <<<<"fore", "inject">>>>} :
           h' = Plans(<<<<"fore", "wack">>, <<"fore", "verb">>>> \o user
                      \o <<<<"behn", "born">>>>)
    /\ UNCHANGED <<fly, gifts, alm, liv, due, told>>

\* A slip: no backstop is set for the alarm that went off.
TimeCbOnce ==
    /\ sat \in {"work", "done"} /\ alm /\ CanPlan(1)
    /\ alm' = FALSE
    /\ h' = Plans(<<<<"behn", "wake">>>>)
    /\ UNCHANGED <<fly, gifts, liv, sat, due, told>>

\* _behn_time_cb(): the backstop is set, then the wake is planned.
TimeCb ==
    /\ sat \in {"work", "done"} /\ alm /\ CanPlan(1)
    /\ alm' = TRUE
    /\ h' = Plans(<<<<"behn", "wake">>>>)
    /\ UNCHANGED <<fly, gifts, liv, sat, due, told>>

\* The pier takes the next ovum and sends it to the worker.
Send ==
    /\ sat = "work" /\ Ready(h) # {} /\ Len(fly) < Batch
    /\ fly' = Append(fly, AutoTaken(h)) /\ h' = AutoNext(h)
    /\ UNCHANGED <<gifts, alm, liv, sat, due, told>>

\* What Arvo does to its timers on an event: a %wake has consumed the alarm, and
\* a %born comes from a process that has none; it asks again when it has to.
Arvo(card) ==
    LET known == told /\ card \notin {"wake", "born"} IN
    \E d \in BOOLEAN,
       more \in {<<>>} \cup {<<Plain(t)>> : t \in {"exit", "trim", "other"} \ {card}} :
        /\ due' = d /\ told' = d
        /\ gifts' = gifts \o (IF d # known THEN <<Doze(d)>> ELSE <<>>) \o more

\* u3_auto_done(): behn is live once its %born is done.
News(e) == liv' = (liv \/ h.cad[e] = "born")

WorkDone ==
    /\ sat \in {"work", "done"} /\ fly # <<>>
    /\ gifts = <<>>
    /\ Arvo(h.cad[Head(fly)]) /\ News(Head(fly))
    /\ h' = Freed(h, Head(fly)) /\ fly' = Tail(fly)
    /\ UNCHANGED <<alm, sat>>

\* The ovum crashed and the worker ran a report of the crash in its place: the
\* driver hears of its completion all the same.
WorkSwap ==
    /\ sat \in {"work", "done"} /\ fly # <<>>
    /\ News(Head(fly))
    /\ h' = Freed(h, Head(fly)) /\ fly' = Tail(fly)
    /\ UNCHANGED <<gifts, alm, sat, due, told>>

\* Disposal of the writs of a lost worker, then of the drivers.
Halted(s, eggs) ==
    LET drop[n \in 0 .. Len(eggs)] == IF n = 0 THEN s ELSE AutoDrop(drop[n - 1], eggs[n])
    IN  AutoExit(drop[Len(eggs)])

\* _behn_wake_bail(), _behn_born_bail(): a crash that may pass is tried again at
\* the front of the line, twice; anything else ends the pier.  The other ova have
\* no callback or one that only disposes of them.
WorkBail ==
    /\ sat \in {"work", "done"} /\ fly # <<>>
    /\ \E dire \in BOOLEAN :
           LET e == Head(fly)
               essential == h.cad[e] \in {"wake", "born"}
           IN  /\ fly' = IF essential /\ (dire \/ h.try[e] >= 2) THEN <<>> ELSE Tail(fly)
               /\ h' = IF ~essential THEN Freed(h, e)
                       ELSE IF h.try[e] < 2 /\ ~dire THEN AutoRedo(h, e)
                       ELSE Halted(Freed(h, e), Tail(fly))
               /\ sat' = IF essential /\ (dire \/ h.try[e] >= 2) THEN "gone" ELSE sat
    /\ UNCHANGED <<gifts, alm, liv, due, told>>

\* The worker is lost: its writs are disposed of and the pier ends.
WorkLost ==
    /\ sat \in {"work", "done"}
    /\ h' = Halted(h, fly) /\ fly' = <<>> /\ sat' = "gone"
    /\ UNCHANGED <<gifts, alm, liv, due, told>>

\* A slip: the new alarm is set before the old one is stopped.
EfDozeStopped(wen) ==
    /\ liv' = TRUE /\ alm' = (wen /\ ~alm)
    /\ UNCHANGED <<h, sat>>

\* _behn_ef_doze(): an alarm that is set is stopped before another is set.
EfDoze(wen) ==
    /\ liv' = TRUE /\ alm' = wen
    /\ UNCHANGED <<h, sat>>

\* _hind_io_kick(): %exit shuts the pier down, %trim is planned as an ovum; the
\* others it knows change nothing, like an effect no driver takes.
HindKick(tag) ==
    /\ sat' = IF tag = "exit" /\ sat = "work" THEN "done" ELSE sat
    /\ h' = Plans(IF tag = "trim" THEN <<<<"hind", "trim">>>> ELSE <<>>)
    /\ UNCHANGED <<alm, liv>>

\* u3_auto_kick(): an effect goes to the first driver that takes it.
Kick ==
    /\ sat \in {"work", "done"} /\ gifts # <<>>
    /\ gifts' = Tail(gifts)
    /\ \/ Head(gifts).tag = "doze" /\ EfDoze(Head(gifts).wen)
       \/ /\ Head(gifts).tag \in {"exit", "trim"}
          /\ CanPlan(1) /\ HindKick(Head(gifts).tag)
       \/ Head(gifts).tag = "other" /\ UNCHANGED <<h, alm, liv, sat>>
    /\ UNCHANGED <<fly, due, told>>

\* The shutdown's barrier: the drivers are closed once all work is done.
Close ==
    /\ sat = "done" /\ fly = <<>> /\ gifts = <<>>
    /\ h' = AutoExit(h) /\ sat' = "gone"
    /\ UNCHANGED <<fly, gifts, alm, liv, due, told>>

DriversNext ==
    \/ Talk \/ TimeCb \/ Send \/ WorkDone \/ WorkSwap \/ WorkBail \/ WorkLost \/ Kick \/ Close

\* The loop runs what is ready, the alarm goes off, and the worker answers.
DriversFair ==
    /\ WF_dvars(TimeCb) /\ WF_dvars(Send) /\ WF_dvars(Kick) /\ WF_dvars(Close)
    /\ WF_dvars(WorkDone \/ WorkSwap \/ WorkBail)

DriversSpec == DriversInit /\ [][DriversNext]_dvars /\ DriversFair

-----------------------------------------------------------------------------
(* Properties *)

DriversTypeOK ==
    /\ h \in Heaps
    /\ ToSet(fly) \subseteq Eggs /\ ToSet(gifts) \subseteq Effects
    /\ {alm, liv, due, told} \subseteq BOOLEAN
    /\ sat \in {"init", "work", "done", "gone"}

Queued == UNION {ToSet(Waiting(h, c)) : c \in CarSet}

\* Through every order of planning, taking, retrying and finishing, the two
\* directions of each driver's list agree with each other and with dep_w, and an
\* ovum that exists is in exactly one place: on one queue or with the worker.  No
\* ovum is disposed of twice, even when a lost worker's writs are passed to
\* u3_auto_drop() after their drivers have given them away (lord.c).
OvaOwned ==
    /\ DriversTypeOK
    /\ \A e \in Eggs : h.gone[e] <= 1
    /\ sat # "gone" =>
           /\ ListsWhole(h)
           /\ IsInjective(fly)
           /\ ToSet(fly) \cap Queued = {}
           /\ ToSet(fly) \cup Queued = Eggs \ Unused(h)

\* A timer Arvo has asked for is never forgotten: its %doze is on the way, or the
\* alarm (or its backstop) is set, or a %wake is queued or running.
AlarmKept ==
    sat = "work" /\ due /\ told =>
        \/ alm
        \/ \E i \in DOMAIN gifts : gifts[i].tag = "doze"
        \/ \E e \in ToSet(fly) \cup Queued : h.cad[e] = "wake"

\* A timer Arvo has asked for leads to a %wake in the worker, unless it is
\* cancelled or the pier ends: a crash replaced by its report is made up for by
\* the backstop.
AlarmHeard ==
    (due /\ told) ~> (~due \/ sat # "work" \/ \E i \in DOMAIN fly : h.cad[fly[i]] = "wake")

=============================================================================
