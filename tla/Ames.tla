-------------------------------- MODULE Ames --------------------------------
(***************************************************************************)
(* The packet network (src/pkg/vere/io/ames.c): packets heard are queued   *)
(* for %ames, or forwarded when they are for another ship, once %ames has  *)
(* told the lane; packets for a galaxy wait for its address.  Reading a    *)
(* packet from its bytes is left out.                                      *)
(***************************************************************************)
EXTENDS Integers, Sequences, SequencesExt, FiniteSets

CONSTANTS Packets,     \* packets heard, each once
          Peers,       \* ships other than ours that are not galaxies
          Czar,        \* a galaxy
          QueueCap,    \* _ames_cap_queue(): 1000
          ForwardCap,  \* _ames_try_forward(): 1000
          ScryCap,     \* _ames_lane_scry_cb(): 5
          LaneTtl,     \* _ames_lane_from_cache(): two minutes
          CzarTtl,     \* _ames_czar(): five minutes
          MaxTime      \* bound on the clock

ASSUME AmesBounds ==
    /\ QueueCap \in Nat \ {0} /\ ForwardCap \in Nat /\ ScryCap \in Nat
    /\ LaneTtl \in Nat /\ CzarTtl \in Nat /\ MaxTime \in Nat /\ "born" \notin Packets

Us == "us"
Ships == Peers \cup {Us, Czar}
Addrs == {"ip1", "ip2"}

\* A lane: that of the galaxy, an address, or one that means nothing.
Lanes == {Czar, "lane", "bad"}

VARIABLES clock,
          ext,     \* the driver's queue: "born" and the packets heard
          imp,     \* address of the galaxy, and when it was learned
          look,    \* lookups of its address, by what they are for
          lax,     \* the lane cache
          pac,     \* packets that wait for a scry of their lane
          foq,     \* foq_d, how many
          saw,     \* saw_d, scries that failed in a row
          see,     \* see_o
          puts,    \* the packets queued so far, in order
          born,    \* %born waits
          turf,    \* dns_c: the galaxies' domain is known
          fate,    \* what became of each: "none", "queue", "drop", "wait", "sent" or "lost"
          alive    \* sam_u: "up" or "free", or the program has crashed: "dead"

avars == <<clock, ext, imp, look, lax, pac, foq, saw, see, puts, born, turf, fate, alive>>

NoImp == [ip |-> "none", wen |-> 0]
NoLane == [las |-> <<"none">>, wen |-> 0]

AmesTypeOK ==
    /\ clock \in 0 .. MaxTime /\ imp.ip \in Addrs \cup {"none", "sentinel"}
    /\ lax \in [Peers -> [las : {<<"none">>, <<>>} \cup {<<l>> : l \in Lanes}, wen : 0 .. MaxTime]]
    /\ DOMAIN pac \subseteq Packets /\ foq \in Nat /\ saw \in 0 .. ScryCap + 1 /\ see \in BOOLEAN
    /\ fate \in [Packets -> {"none", "queue", "drop", "wait", "sent", "lost"}]
    /\ alive \in {"up", "free", "dead"}

\* u3_ames_io_init(), _ames_io_talk(), _ames_io_start()
AmesInit ==
    /\ clock = 0 /\ ext = <<"born">> /\ imp = NoImp /\ look = <<>> /\ lax = [p \in Peers |-> NoLane]
    /\ pac = <<>> /\ foq = 0 /\ saw = 0 /\ see = TRUE /\ puts = <<>> /\ born = TRUE /\ turf = FALSE
    /\ fate = [p \in Packets |-> "none"] /\ alive = "up"

\* _ames_cap_queue(): the oldest packets go until the queue is short enough.  The one
\* event that is no packet, %born, was planned first: it is at the front, or taken.
CapQueue(q) ==
    LET own == IF q # <<>> /\ Head(q) = "born" THEN 1 ELSE 0
        most == IF Len(q) > QueueCap THEN Len(q) - QueueCap ELSE 0
    IN  SubSeq(q, 1, own) \o SubSeq(q, own + most + 1, Len(q))

\* _ames_put_packet()
PutPacket(p, fa) ==
    /\ ext' = CapQueue(Append(ext, p)) /\ puts' = Append(puts, p)
    /\ fate' = [r \in Packets |-> IF r \in ToSet(ext) \cup {p}
                                  THEN IF r \in ToSet(ext') THEN "queue" ELSE "drop" ELSE fa[r]]

\* A slip: a failed lookup forgets the address it cannot confirm.
CzarGoneBad == imp' = [ip |-> "sentinel", wen |-> clock]

\* _ames_czar_gone(): a known address is kept for another five minutes.
CzarGone == imp' = [ip |-> IF imp.ip \in Addrs THEN imp.ip ELSE "sentinel", wen |-> clock]

Fresh == clock - imp.wen < CzarTtl

\* _ames_czar(): nothing without a domain, nothing for five minutes after a lookup failed, an address is good for
\* as long; otherwise it is looked up, for every packet again.
CzarSend(p, fa) ==
    \/ ~turf /\ fate' = [fa EXCEPT ![p] = "lost"] /\ UNCHANGED <<imp, look>>
    \/ /\ turf /\ (clock < imp.wen \/ (imp.ip = "sentinel" /\ Fresh))
       /\ fate' = [fa EXCEPT ![p] = "lost"] /\ UNCHANGED <<imp, look>>
    \/ /\ turf /\ clock >= imp.wen /\ imp.ip \in Addrs /\ Fresh
       /\ fate' = [fa EXCEPT ![p] = "sent"] /\ UNCHANGED <<imp, look>>
    \/ /\ turf /\ clock >= imp.wen /\ (imp.ip = "none" \/ ~Fresh)
       /\ \/ look' = Append(look, p) /\ fate' = [fa EXCEPT ![p] = "wait"] /\ UNCHANGED imp
          \/ CzarGone /\ fate' = [fa EXCEPT ![p] = "lost"] /\ UNCHANGED look

\* _ames_ef_send(): to the galaxy, to an address, or nowhere.
EfSend(p, lane, fa) ==
    IF lane = Czar THEN CzarSend(p, fa)
    ELSE /\ fate' = [fa EXCEPT ![p] = IF lane = "bad" THEN "lost" ELSE "sent"]
         /\ UNCHANGED <<imp, look>>

\* _ames_kick_newt(): a %send of %ames, and its %turf.
Send(p) ==
    /\ alive = "up" /\ fate[p] = "none" /\ \E lane \in Lanes : EfSend(p, lane, fate)
    /\ UNCHANGED <<clock, ext, lax, pac, foq, saw, see, puts, born, turf, alive>>

EfTurf ==
    /\ alive = "up" /\ ~turf /\ turf' = TRUE
    /\ UNCHANGED <<clock, ext, imp, look, lax, pac, foq, saw, see, puts, born, fate, alive>>

\* _ames_forward(): the packet is sent on every lane of a list, here of one at most.
Forward(p, las) == EfSend(p, las[1], fate)

\* _ames_lane_from_cache(): what is known and fresh.
Cached(s) == lax[s].las # <<"none">> /\ clock - lax[s].wen < LaneTtl

\* _ames_try_forward().  A galaxy's lane, given where a list of lanes is read, is no
\* list: u3x_cell() bails.
TryForward(p, s) ==
    \/ s = Czar /\ alive' = "dead" /\ UNCHANGED <<imp, look, pac, foq, fate>>
    \/ /\ s # Czar /\ ~Cached(s) /\ foq > ForwardCap
       /\ fate' = [fate EXCEPT ![p] = "drop"] /\ UNCHANGED <<imp, look, pac, foq, alive>>
    \/ /\ s # Czar /\ Cached(s) /\ lax[s].las = <<>>
       /\ fate' = [fate EXCEPT ![p] = "lost"] /\ UNCHANGED <<imp, look, pac, foq, alive>>
    \/ /\ s # Czar /\ Cached(s) /\ lax[s].las # <<>>
       /\ Forward(p, lax[s].las) /\ UNCHANGED <<pac, foq, alive>>
    \/ /\ s # Czar /\ ~Cached(s) /\ foq <= ForwardCap
       /\ foq' = foq + 1 /\ pac' = [r \in DOMAIN pac \cup {p} |-> IF r = p THEN s ELSE pac[r]]
       /\ fate' = [fate EXCEPT ![p] = "wait"] /\ UNCHANGED <<imp, look, alive>>

\* _ames_recv_cb(), _ames_hear(): a packet that cannot be read (its header, version,
\* body or mug) goes; one for another ship is forwarded if %ames can be asked.
Hear(p) ==
    /\ alive = "up" /\ fate[p] = "none"
    /\ \/ /\ fate' = [fate EXCEPT ![p] = "drop"] /\ UNCHANGED <<ext, puts, imp, look, pac, foq, alive>>
       \/ \E s \in Ships :
             IF see /\ s # Us THEN TryForward(p, s) /\ UNCHANGED <<ext, puts>>
             ELSE PutPacket(p, fate) /\ UNCHANGED <<imp, look, pac, foq, alive>>
    /\ UNCHANGED <<clock, born, turf, lax, saw, see>>

\* _ames_lane_scry_cb() when the scry failed: after too many of them %ames is not asked
\* again, and the packet is queued like one for us.
ScryFailed(p) ==
    /\ PutPacket(p, fate) /\ UNCHANGED <<lax, imp, look>> /\ foq' = foq - 1
    /\ saw' = (IF saw > ScryCap THEN saw ELSE saw + 1) /\ see' = (see /\ saw + 1 <= ScryCap)

\* _ames_lane_scry_cb() with its lanes, which are cached.
ScryDone(p, las) ==
    /\ foq' = foq - 1 /\ saw' = 0 /\ lax' = [lax EXCEPT ![pac[p]] = [las |-> las, wen |-> clock]]
    /\ IF las = <<>> THEN fate' = [fate EXCEPT ![p] = "lost"] /\ UNCHANGED <<imp, look>>
       ELSE Forward(p, las)
    /\ UNCHANGED <<ext, puts, see>>

LaneScryCb(p) ==
    /\ alive = "up" /\ p \in DOMAIN pac
    /\ pac' = [r \in DOMAIN pac \ {p} |-> pac[r]]
    /\ ScryFailed(p) \/ \E las \in {<<>>} \cup {<<l>> : l \in Lanes} : ScryDone(p, las)
    /\ UNCHANGED <<clock, born, turf, alive>>

\* _ames_czar_cb(), _ames_czar_here(): any lookup may return first.
CzarCb(i) ==
    /\ i \in DOMAIN look /\ look' = RemoveAt(look, i)
    /\ IF alive = "free" THEN alive' = "dead" /\ UNCHANGED <<imp, fate>>
       ELSE /\ alive = "up" /\ UNCHANGED alive
            /\ \/ \E a \in Addrs : /\ imp' = [ip |-> a, wen |-> clock]
                                   /\ fate' = [fate EXCEPT ![look[i]] = "sent"]
               \/ CzarGone /\ fate' = [fate EXCEPT ![look[i]] = "lost"]
    /\ UNCHANGED <<clock, ext, lax, pac, foq, saw, see, puts, born, turf>>

\* The pier takes the next event of the driver.
Taken ==
    /\ alive = "up" /\ ext # <<>> /\ ext' = Tail(ext) /\ born' = (born /\ Head(ext) # "born")
    /\ UNCHANGED <<clock, imp, look, lax, pac, foq, saw, see, puts, turf, fate, alive>>

\* The clock may be set back.
Tick ==
    /\ alive = "up" /\ clock' \in (0 .. MaxTime) \ {clock}
    /\ UNCHANGED <<ext, imp, look, lax, pac, foq, saw, see, puts, born, turf, fate, alive>>

\* _ames_io_exit(), _ames_exit_cb(): what waits for a scry is freed, the lookups are not
\* stopped.
AmesExit ==
    /\ alive = "up" /\ alive' = "free" /\ pac' = <<>>
    /\ UNCHANGED <<clock, ext, imp, look, lax, foq, saw, see, puts, born, turf, fate>>

AmesNext ==
    \/ \E p \in Packets : Hear(p) \/ LaneScryCb(p) \/ Send(p)
    \/ \E i \in 1 .. Cardinality(Packets) : CzarCb(i)
    \/ EfTurf \/ Taken \/ Tick \/ AmesExit

AmesSpec == AmesInit /\ [][AmesNext]_avars
-----------------------------------------------------------------------------
\* The packets in the queue.
Heard(q) == IF q # <<>> /\ Head(q) = "born" THEN Tail(q) ELSE q

\* Under pressure the driver keeps its own events and the newest packets, in the order
\* they came, and every packet that waits for a lane is counted, so that the count
\* never shuts out forwards that there is room for.
PressureKept ==
    alive = "up" =>
        /\ foq = Cardinality(DOMAIN pac) /\ foq <= ForwardCap + 1
        /\ Len(ext) <= QueueCap /\ born = Contains(ext, "born")
        /\ IsSuffix(Heard(ext), puts)
        /\ \A p \in Packets : (fate[p] = "wait") = (p \in DOMAIN pac \/ p \in ToSet(look))

\* An address that was good once is never replaced by the mark of a failed lookup,
\* however lookups that fail and lookups that succeed return.
AddressKept == [][imp.ip \in Addrs => imp'.ip \in Addrs]_avars
=============================================================================
