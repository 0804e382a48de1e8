------------------------------ MODULE IoProofs ------------------------------
(***************************************************************************)
(* Proofs about the edges of the king: the timers and the driver queues    *)
(* (Drivers), the control socket (Conn) and the pipes (Newt).              *)
(***************************************************************************)
EXTENDS MCPipes, Drivers, ListingProofs, SequenceTheorems

-----------------------------------------------------------------------------
(* The timer driver *)

(* A %doze on its way is the first of the effects and says what Arvo holds *)
(* now; when none is on its way, the alarm is set if Arvo counts on it.    *)
DozeFirst ==
  \A i \in DOMAIN gifts :
      gifts[i].tag = "doze" => i = 1 /\ gifts[i].wen = told /\ due = told

AlarmInv ==
  /\ gifts \in Seq(Effects)
  /\ {alm, told, due} \subseteq BOOLEAN
  /\ DozeFirst
  /\ (\A i \in DOMAIN gifts : gifts[i].tag # "doze") /\ told => alm

LEMMA Pair ==
  ASSUME NEW S, NEW x \in S, NEW m \in S
  PROVE  /\ <<x>> \in Seq(S) /\ <<x, m>> \in Seq(S)
         /\ <<>> \o <<x>> = <<x>> /\ <<x>> \o <<>> = <<x>> /\ <<x>> \o <<m>> = <<x, m>>
<1>1. <<x>> \in Seq(S) /\ <<m>> \in Seq(S) /\ <<x, m>> \in Seq(S)
  OBVIOUS
<1>2. /\ <<x>> \o <<m>> \in Seq(S) /\ Len(<<x>> \o <<m>>) = 2
      /\ (<<x>> \o <<m>>)[1] = x /\ (<<x>> \o <<m>>)[2] = m
  BY <1>1
<1>3. Len(<<x, m>>) = 2 /\ <<x, m>>[1] = x /\ <<x, m>>[2] = m
  OBVIOUS
<1>4. <<x>> \o <<m>> = <<x, m>>
  <2>1. PICK s, t : s = <<x>> \o <<m>> /\ t = <<x, m>>
    OBVIOUS
  <2>2. s \in Seq(S) /\ t \in Seq(S) /\ Len(s) = 2 /\ Len(t) = 2
    BY <2>1, <1>1, <1>2, <1>3
  <2>3. s[1] = t[1] /\ s[2] = t[2]
    BY <2>1, <1>2, <1>3
  <2>4. \A i \in 1 .. Len(s) : s[i] = t[i]
    BY <2>2, <2>3
  <2>5. s = t
    BY ONLY <2>2, <2>4, SeqEqual
  <2> QED BY <2>1, <2>5
<1> QED BY <1>1, <1>4

LEMMA EffectFacts ==
  /\ \A d \in BOOLEAN : Doze(d) \in Effects /\ Doze(d).tag = "doze" /\ Doze(d).wen = d
  /\ \A t \in {"exit", "trim", "other"} : Plain(t) \in Effects /\ Plain(t).tag # "doze"
  BY DEF Effects, Doze, Plain

LEMMA AlarmInitial == DriversInit => AlarmInv
<1> SUFFICES ASSUME DriversInit PROVE AlarmInv
  OBVIOUS
<1>1. gifts = <<>> /\ alm = FALSE /\ told = FALSE /\ due \in BOOLEAN
  BY DEF DriversInit
<1>2. gifts \in Seq(Effects) /\ DOMAIN gifts = {}
  BY <1>1
<1> QED BY <1>1, <1>2 DEF AlarmInv, DozeFirst

(* What an event adds is a %doze when Arvo's mind changes, then at most one *)
(* other effect.                                                            *)
LEMMA AlarmArvo ==
  ASSUME AlarmInv, gifts = <<>>, NEW card, Arvo(card), UNCHANGED alm
  PROVE  AlarmInv'
<1> DEFINE known == told /\ card \notin {"wake", "born"}
<1>1. PICK d \in BOOLEAN,
           more \in {<<>>} \cup {<<Plain(t)>> : t \in {"exit", "trim", "other"} \ {card}} :
          /\ due' = d /\ told' = d
          /\ gifts' = gifts \o (IF d # known THEN <<Doze(d)>> ELSE <<>>) \o more
  BY DEF Arvo
<1>2. PICK m \in Effects : m.tag # "doze" /\ (more = <<>> \/ more = <<m>>)
  BY EffectFacts
<1>3. known \in BOOLEAN /\ (known => alm) /\ alm \in BOOLEAN
  BY DEF AlarmInv
<1> HIDE DEF known
<1>4. CASE d # known
  <2>1. PICK x \in Effects : x = Doze(d) /\ x.tag = "doze" /\ x.wen = d
    BY EffectFacts
  <2>2. gifts' = <<>> \o <<x>> \o more
    BY <1>1, <1>4, <2>1
  <2>3. gifts' = <<x>> \/ gifts' = <<x, m>>
    BY <2>1, <2>2, <1>2, Pair, Zenon, ZenonT(60)
  <2>4. gifts' \in Seq(Effects)
    BY <2>1, <2>3, <1>2, Pair, Zenon, ZenonT(60)
  <2>5. 1 \in DOMAIN gifts' /\ gifts'[1] = x
    BY ONLY <2>3
  <2>6. \A i \in DOMAIN gifts' : i # 1 => gifts'[i] = m
    BY ONLY <2>3
  <2>7. DozeFirst'
    BY <2>1, <2>5, <2>6, <1>1, <1>2 DEF DozeFirst
  <2>8. (\A i \in DOMAIN gifts' : gifts'[i].tag # "doze") => FALSE
    BY <2>1, <2>5
  <2> QED BY <2>4, <2>7, <2>8, <1>1, <1>3 DEF AlarmInv
<1>5. CASE d = known
  <2>1. gifts' = <<>> \o <<>> \o more
    BY <1>1, <1>5
  <2>2. gifts' = <<>> \/ gifts' = <<m>>
    BY ONLY <2>1, <1>2
  <2>3. gifts' \in Seq(Effects)
    <3>1. <<>> \in Seq(Effects)
      OBVIOUS
    <3> QED BY <3>1, <2>2, <1>2, Pair, Zenon
  <2>4. \A i \in DOMAIN gifts' : gifts'[i] = m
    BY ONLY <2>2
  <2>5. \A i \in DOMAIN gifts' : gifts'[i].tag # "doze"
    BY <2>4, <1>2
  <2> QED BY <2>3, <2>5, <1>1, <1>3, <1>5 DEF AlarmInv, DozeFirst
<1> QED BY <1>4, <1>5

LEMMA AlarmKick == ASSUME AlarmInv, Kick PROVE AlarmInv'
<1>1. gifts \in Seq(Effects) /\ gifts # <<>> /\ gifts' = Tail(gifts) /\ UNCHANGED <<due, told>>
  BY DEF AlarmInv, Kick
<1>2. /\ gifts' \in Seq(Effects) /\ 1 \in DOMAIN gifts /\ Head(gifts) = gifts[1]
      /\ \A i \in DOMAIN gifts' : i + 1 \in DOMAIN gifts /\ i + 1 # 1 /\ gifts'[i] = gifts[i + 1]
  BY <1>1
<1>3. \A i \in DOMAIN gifts' : gifts'[i].tag # "doze"
  BY <1>2 DEF AlarmInv, DozeFirst
<1>4. CASE Head(gifts).tag = "doze" /\ EfDoze(Head(gifts).wen)
  <2>1. alm' = told
    BY <1>2, <1>4 DEF EfDoze, AlarmInv, DozeFirst
  <2> QED BY <2>1, <1>1, <1>2, <1>3 DEF AlarmInv, DozeFirst
<1>5. CASE Head(gifts).tag # "doze" /\ UNCHANGED alm
  <2>1. \A i \in DOMAIN gifts : gifts[i].tag # "doze"
    BY <1>2, <1>5 DEF AlarmInv, DozeFirst
  <2> QED BY <2>1, <1>1, <1>2, <1>3, <1>5 DEF AlarmInv, DozeFirst
<1> QED BY <1>4, <1>5 DEF Kick, HindKick

LEMMA AlarmStep == AlarmInv /\ [DriversNext]_dvars => AlarmInv'
<1> SUFFICES ASSUME AlarmInv, [DriversNext]_dvars PROVE AlarmInv'
  OBVIOUS
<1>1. CASE WorkDone
  <2>1. PICK card : Arvo(card)
    BY <1>1 DEF WorkDone
  <2> QED BY <1>1, <2>1, AlarmArvo DEF WorkDone
<1>2. CASE Kick
  BY <1>2, AlarmKick
<1>3. CASE TimeCb
  BY <1>3 DEF TimeCb, AlarmInv, DozeFirst
<1>4. CASE UNCHANGED <<gifts, alm, due, told>>
  BY <1>4 DEF AlarmInv, DozeFirst
<1> QED BY <1>1, <1>2, <1>3, <1>4
    DEF DriversNext, dvars, Talk, Send, WorkSwap, WorkBail, WorkLost, Close

(* A timer that Arvo has asked for is never forgotten (_behn_ef_doze,      *)
(* _behn_time_cb), whatever the order of effects, crashes and alarms.      *)
THEOREM AlarmIsKept == DriversSpec => []AlarmKept
<1>1. AlarmInv => AlarmKept
  BY DEF AlarmInv, AlarmKept
<1> QED BY <1>1, AlarmInitial, AlarmStep, PTL DEF DriversSpec

-----------------------------------------------------------------------------
(* The control socket *)

Asks == {"fyrd", "peek", "ovum"}

Reads == [rid : Rids, tag : Tags]
Replies == {"bail", "peel", "peek", "news", "avow"}
Says == [rid : Rids \cup {0}, tag : Replies]

(* A number is with the connection, with the pier or with the client. *)
Read(c, r) == \E i \in DOMAIN inn[c] : inn[c][i].rid = r
Told(c, r) == \E i \in DOMAIN out[c] : out[c][i].rid = r

ConnTypes ==
  /\ nex \in 1 .. MaxConn + 1 /\ can \subseteq 1 .. nex - 1
  /\ used \in [Coqs -> SUBSET Rids]
  /\ inn \in [Coqs -> Seq(Reads)] /\ out \in [Coqs -> Seq(Says)]
  /\ {kan, end} \subseteq BOOLEAN

(* Requests not yet read have numbers of their own that were not answered. *)
InnFit ==
  \A c \in Coqs : \A i \in DOMAIN inn[c] :
      /\ inn[c][i].rid \in used[c] /\ ~Told(c, inn[c][i].rid)
      /\ \A j \in DOMAIN inn[c] : inn[c][i].rid = inn[c][j].rid => i = j

(* So have those that are with the pier, one task each. *)
WorkFit ==
  \A t \in work : t.typ \in Asks =>
      /\ t.coq \in Coqs /\ t.rid \in used[t.coq]
      /\ ~Read(t.coq, t.rid) /\ ~Told(t.coq, t.rid)
      /\ t.typ \in {"peek", "ovum"} => <<t.coq, t.rid>> \in DOMAIN cran
      /\ \A u \in work : u.typ \in Asks /\ u.coq = t.coq /\ u.rid = t.rid => u = t

(* A request that waits knows its own connection while it is open. *)
CranFit ==
  /\ DOMAIN cran \subseteq Coqs \X Rids
  /\ \A k \in DOMAIN cran : cran[k] = 0 \/ (cran[k] = k[1] /\ k[1] \in can)

(* The driver's own %bail, with number 0, is on no connection that is open *)
(* or that has yet to be accepted.                                         *)
NoBail == \A c \in Coqs : c \in can \/ c >= nex => ~Told(c, 0)

ConnInv ==
  /\ ConnTypes /\ InnFit /\ WorkFit /\ CranFit /\ NoBail /\ AnswersFit

LEMMA CoqFacts == ConnTypes => can \subseteq Coqs /\ 0 \notin Coqs /\ 0 \notin Rids
  BY ConnAssumption DEF ConnTypes, Coqs

LEMMA ConnInitial == ConnInit \/ ConnParked => ConnInv
<1> SUFFICES ASSUME ConnInit \/ ConnParked PROVE ConnInv
  OBVIOUS
<1>1. /\ nex = 1 /\ can = {} /\ inn = [c \in Coqs |-> <<>>] /\ used = [c \in Coqs |-> {}]
      /\ cran = <<>> /\ out = [c \in Coqs |-> <<>>] /\ {kan, end} \subseteq BOOLEAN
      /\ \A t \in work : t.typ \notin Asks
  <2>1. {kan, end} \subseteq BOOLEAN
    BY DEF ConnInit, ConnParked
  <2>2. \A t \in work : t.typ \notin Asks
    BY DEF ConnInit, ConnParked, Task, Asks
  <2> QED BY <2>1, <2>2 DEF ConnInit, ConnParked
<1>2. ConnTypes
  BY <1>1, ConnAssumption DEF ConnTypes, Coqs
<1>3. \A c \in Coqs : DOMAIN inn[c] = {} /\ DOMAIN out[c] = {}
  BY <1>1
<1>4. DOMAIN cran = {}
  BY <1>1
<1> QED BY <1>1, <1>2, <1>3, <1>4 DEF ConnInv, InnFit, WorkFit, CranFit, NoBail, AnswersFit, Told

(* What a message adds to what was sent on a connection. *)
LEMMA SentFacts ==
  ASSUME ConnTypes, NEW c \in Coqs, NEW r \in Rids \cup {0}, NEW tag \in Replies,
         out' = Sent(c, r, tag)
  PROVE  /\ out' \in [Coqs -> Seq(Says)]
         /\ \A d \in Coqs : d # c => out'[d] = out[d]
         /\ Len(out[c]) \in Nat /\ DOMAIN out[c] = 1 .. Len(out[c])
         /\ DOMAIN out'[c] = 1 .. Len(out[c]) + 1
         /\ out'[c][Len(out[c]) + 1].rid = r
         /\ \A i \in DOMAIN out[c] : out'[c][i] = out[c][i]
<1>1. PICK x \in Says : x = Answer(r, tag) /\ x.rid = r
  <2>1. Answer(r, tag) \in Says /\ Answer(r, tag).rid = r
    BY DEF Answer, Says
  <2> QED BY <2>1
<1>2. out \in [Coqs -> Seq(Says)] /\ out[c] \in Seq(Says)
  BY DEF ConnTypes
<1>3. out' = [out EXCEPT ![c] = Append(@, x)]
  BY <1>1 DEF Sent
<1>4. PICK n \in Nat : n = Len(out[c]) /\ DOMAIN out[c] = 1 .. n
  BY <1>2
<1>5. /\ Append(out[c], x) \in Seq(Says) /\ DOMAIN Append(out[c], x) = 1 .. n + 1
      /\ Append(out[c], x)[n + 1] = x
      /\ \A i \in 1 .. n : Append(out[c], x)[i] = out[c][i]
  BY <1>2, <1>4
<1>6. out'[c] = Append(out[c], x)
  BY <1>2, <1>3
<1> QED BY <1>1, <1>2, <1>3, <1>4, <1>5, <1>6

LEMMA SentTold ==
  ASSUME ConnTypes, NEW c \in Coqs, NEW r \in Rids \cup {0}, NEW tag \in Replies,
         out' = Sent(c, r, tag)
  PROVE  \A q : \A d \in Coqs : Told(d, q)' <=> Told(d, q) \/ (d = c /\ q = r)
<1>1. PICK n \in Nat : n = Len(out[c])
  BY SentFacts
<1>2. /\ \A d \in Coqs : d # c => out'[d] = out[d]
      /\ DOMAIN out[c] = 1 .. n /\ DOMAIN out'[c] = 1 .. n + 1 /\ out'[c][n + 1].rid = r
      /\ \A i \in DOMAIN out[c] : out'[c][i] = out[c][i]
  BY <1>1, SentFacts
<1> SUFFICES ASSUME NEW q PROVE Told(c, q)' <=> Told(c, q) \/ q = r
  <2>1. ASSUME NEW q, NEW d \in Coqs, d # c PROVE Told(d, q)' <=> Told(d, q)
    BY <1>2, <2>1 DEF Told
  <2> QED BY <2>1
<1>3. \A i \in 1 .. n + 1 : i \in 1 .. n \/ i = n + 1
  OBVIOUS
<1>4. n + 1 \in 1 .. n + 1 /\ 1 .. n \subseteq 1 .. n + 1
  OBVIOUS
<1> QED BY <1>2, <1>3, <1>4 DEF Told

LEMMA SentFit ==
  ASSUME ConnTypes, AnswersFit, NEW c \in Coqs, NEW r \in Rids \cup {0}, NEW tag \in Replies,
         out' = Sent(c, r, tag), used' = used, r \in used[c] \cup {0},
         ~Told(c, 0), ~Told(c, r)
  PROVE  AnswersFit'
<1>1. PICK n \in Nat : n = Len(out[c])
  BY SentFacts
<1>2. /\ \A d \in Coqs : d # c => out'[d] = out[d]
      /\ DOMAIN out[c] = 1 .. n /\ DOMAIN out'[c] = 1 .. n + 1 /\ out'[c][n + 1].rid = r
      /\ \A i \in 1 .. n : out'[c][i] = out[c][i]
  BY <1>1, SentFacts
<1>3. \A i \in 1 .. n + 1 : i \in 1 .. n \/ i = n + 1
  OBVIOUS
<1>4. \A i \in 1 .. n : out[c][i].rid # 0 /\ out[c][i].rid # r /\ out[c][i].rid \in used[c] \cup {0}
  BY <1>2 DEF Told, AnswersFit
<1>5. \A i \in DOMAIN out'[c] : out'[c][i].rid \in used[c] \cup {0}
  BY <1>2, <1>3, <1>4
<1>6. ASSUME NEW i \in DOMAIN out'[c], NEW j \in DOMAIN out'[c], i < j
      PROVE  out'[c][i].rid # 0 /\ out'[c][i].rid # out'[c][j].rid
  <2>1. i \in 1 .. n /\ (j \in 1 .. n \/ j = n + 1)
    BY <1>2, <1>3, <1>6
  <2>2. CASE j \in 1 .. n
    BY <2>1, <2>2, <1>2, <1>4, <1>6, SMTT(30) DEF AnswersFit
  <2>3. CASE j = n + 1
    BY <2>1, <2>3, <1>2, <1>4
  <2> QED BY <2>1, <2>2, <2>3
<1> QED BY <1>2, <1>5, <1>6, SMTT(30) DEF AnswersFit

LEMMA AcceptStep == ASSUME ConnInv, Accept PROVE ConnInv'
<1>1. /\ nex \in 1 .. MaxConn /\ can' = can \cup {nex} /\ nex' = nex + 1
      /\ UNCHANGED <<inn, used, cran, work, out, kan, end>>
  BY DEF Accept, ConnInv, ConnTypes
<1>2. ConnTypes'
  BY <1>1, ConnAssumption DEF ConnInv, ConnTypes
<1>3. InnFit' /\ WorkFit' /\ AnswersFit'
  BY <1>1, SMTT(30) DEF ConnInv, InnFit, WorkFit, AnswersFit, Read, Told
<1>4. CranFit'
  BY <1>1 DEF ConnInv, CranFit
<1>5. ASSUME NEW c \in Coqs, c \in can' \/ c >= nex' PROVE ~Told(c, 0)'
  <2>1. c \in can \/ c >= nex
    BY <1>1, <1>5, ConnAssumption DEF Coqs
  <2> QED BY <2>1, <1>1 DEF ConnInv, NoBail, Told
<1> QED BY <1>2, <1>3, <1>4, <1>5 DEF ConnInv, NoBail

LEMMA RequestStep == ASSUME ConnInv, NEW c \in Coqs, Request(c) PROVE ConnInv'
<1>1. PICK r \in Rids \ used[c], t \in Tags :
         /\ used' = [used EXCEPT ![c] = @ \cup {r}]
         /\ inn' = [inn EXCEPT ![c] = Append(@, [rid |-> r, tag |-> t])]
  BY DEF Request
<1>2. UNCHANGED <<nex, can, cran, work, out, kan, end>>
  BY DEF Request
<1>3. PICK x \in Reads : x = [rid |-> r, tag |-> t] /\ x.rid = r
  <2>1. [rid |-> r, tag |-> t] \in Reads /\ [rid |-> r, tag |-> t].rid = r
    BY <1>1 DEF Reads
  <2> QED BY <2>1
<1>4. inn' = [inn EXCEPT ![c] = Append(@, x)]
  BY <1>1, <1>3
<1>5. inn \in [Coqs -> Seq(Reads)] /\ used \in [Coqs -> SUBSET Rids]
  BY DEF ConnInv, ConnTypes
<1>6. PICK n \in Nat : n = Len(inn[c]) /\ DOMAIN inn[c] = 1 .. n
  BY <1>5
<1>7. /\ inn' \in [Coqs -> Seq(Reads)] /\ inn'[c] = Append(inn[c], x)
      /\ \A d \in Coqs : d # c => inn'[d] = inn[d]
  BY <1>4, <1>5
<1>8. /\ DOMAIN inn'[c] = 1 .. n + 1 /\ inn'[c][n + 1].rid = r
      /\ \A i \in 1 .. n : inn'[c][i] = inn[c][i]
  BY <1>3, <1>5, <1>6, <1>7
<1>9. /\ used' \in [Coqs -> SUBSET Rids] /\ used'[c] = used[c] \cup {r}
      /\ \A d \in Coqs : d # c => used'[d] = used[d]
  BY <1>1, <1>5
<1>10. ConnTypes'
  BY <1>2, <1>7, <1>9 DEF ConnInv, ConnTypes
<1>11. r \notin used[c] /\ r # 0 /\ ~Told(c, r)
  BY <1>1, ConnAssumption DEF ConnInv, AnswersFit, Told
<1>12. \A i \in 1 .. n + 1 : i \in 1 .. n \/ i = n + 1
  OBVIOUS
<1>13. InnFit'
  <2>1. \A i \in 1 .. n : inn[c][i].rid \in used[c] /\ inn[c][i].rid # r
    BY <1>6, <1>11 DEF ConnInv, InnFit
  <2>2. ASSUME NEW i \in DOMAIN inn'[c]
        PROVE  /\ inn'[c][i].rid \in used'[c] /\ (\A k \in DOMAIN out[c] : out[c][k].rid # inn'[c][i].rid)
               /\ \A j \in DOMAIN inn'[c] : inn'[c][i].rid = inn'[c][j].rid => i = j
    <3>1. CASE i \in 1 .. n
      <4>1. inn'[c][i].rid \in used'[c] /\ (\A k \in DOMAIN out[c] : out[c][k].rid # inn'[c][i].rid)
        BY <3>1, <1>2, <1>6, <1>8, <1>9 DEF ConnInv, InnFit, Told
      <4>2. \A j \in DOMAIN inn'[c] : inn'[c][i].rid = inn'[c][j].rid => i = j
        BY <3>1, <2>1, <1>6, <1>8, <1>12, SMTT(30) DEF ConnInv, InnFit
      <4> QED BY <4>1, <4>2
    <3>2. CASE i = n + 1
      <4>1. inn'[c][i].rid \in used'[c] /\ (\A k \in DOMAIN out[c] : out[c][k].rid # inn'[c][i].rid)
        BY <3>2, <1>2, <1>8, <1>9, <1>11 DEF Told
      <4>2. \A j \in DOMAIN inn'[c] : inn'[c][i].rid = inn'[c][j].rid => i = j
        BY <3>2, <2>1, <1>8, <1>12
      <4> QED BY <4>1, <4>2
    <3> QED BY <2>2, <3>1, <3>2, <1>8, <1>12
  <2>3. \A d \in Coqs : d # c => \A i \in DOMAIN inn'[d] :
            /\ inn'[d][i].rid \in used'[d] /\ (\A k \in DOMAIN out[d] : out[d][k].rid # inn'[d][i].rid)
            /\ \A j \in DOMAIN inn'[d] : inn'[d][i].rid = inn'[d][j].rid => i = j
    BY <1>2, <1>7, <1>9, SMTT(30) DEF ConnInv, InnFit, Told
  <2> QED BY <2>2, <2>3, <1>2 DEF InnFit, Told
<1>14. \A q : \A d \in Coqs : Read(d, q)' => Read(d, q) \/ (d = c /\ q = r)
  BY <1>6, <1>7, <1>8, <1>12, ZenonT(60) DEF Read
<1>15. \A d \in Coqs : used[d] \subseteq used'[d]
  BY <1>9
<1>16. WorkFit'
  <2> SUFFICES ASSUME NEW u \in work, u.typ \in Asks
               PROVE  /\ u.coq \in Coqs /\ u.rid \in used'[u.coq]
                      /\ ~Read(u.coq, u.rid)' /\ ~Told(u.coq, u.rid)'
                      /\ u.typ \in {"peek", "ovum"} => <<u.coq, u.rid>> \in DOMAIN cran
                      /\ \A v \in work : v.typ \in Asks /\ v.coq = u.coq /\ v.rid = u.rid => v = u
    BY <1>2 DEF WorkFit
  <2>1. /\ u.coq \in Coqs /\ u.rid \in used[u.coq]
        /\ ~Read(u.coq, u.rid) /\ ~Told(u.coq, u.rid)
        /\ u.typ \in {"peek", "ovum"} => <<u.coq, u.rid>> \in DOMAIN cran
        /\ \A v \in work : v.typ \in Asks /\ v.coq = u.coq /\ v.rid = u.rid => v = u
    BY DEF ConnInv, WorkFit
  <2>2. ~(u.coq = c /\ u.rid = r)
    BY <2>1, <1>11
  <2>3. ~Told(u.coq, u.rid)'
    BY <2>1, <1>2 DEF Told
  <2> QED BY <2>1, <2>2, <2>3, <1>14, <1>15
<1>17. CranFit' /\ NoBail' /\ AnswersFit'
  BY <1>2, <1>15 DEF ConnInv, CranFit, NoBail, AnswersFit, Told
<1> QED BY <1>10, <1>13, <1>16, <1>17 DEF ConnInv

(* The first request of a connection is read: its number is with nobody.   *)
LEMMA ReadFirst ==
  ASSUME ConnInv, NEW c \in Coqs, inn[c] # <<>>, inn' = [inn EXCEPT ![c] = Tail(@)],
         NEW r, r = Head(inn[c]).rid
  PROVE  /\ inn' \in [Coqs -> Seq(Reads)]
         /\ r \in Rids /\ r \in used[c] /\ ~Told(c, r) /\ ~Read(c, r)' /\ Read(c, r)
         /\ \A q : \A d \in Coqs : Read(d, q)' => Read(d, q)
         /\ \A d \in Coqs : \A i, j \in DOMAIN inn'[d] :
                inn'[d][i].rid = inn'[d][j].rid => i = j
<1>1. inn \in [Coqs -> Seq(Reads)]
  BY DEF ConnInv, ConnTypes
<1>2. /\ inn' \in [Coqs -> Seq(Reads)] /\ inn'[c] = Tail(inn[c])
      /\ \A d \in Coqs : d # c => inn'[d] = inn[d]
  BY <1>1
<1>3. /\ 1 \in DOMAIN inn[c] /\ Head(inn[c]) = inn[c][1]
      /\ \A i \in DOMAIN inn'[c] :
             i + 1 \in DOMAIN inn[c] /\ inn'[c][i] = inn[c][i + 1] /\ i + 1 # 1 /\ i \in Nat
  BY <1>1, <1>2
<1>4. inn[c][1] \in Reads
  BY <1>1, <1>3
<1>5. r \in Rids
  BY <1>3, <1>4 DEF Reads
<1>6. r \in used[c] /\ ~Told(c, r) /\ Read(c, r)
  BY <1>3 DEF ConnInv, InnFit, Read
<1>7. ~Read(c, r)'
  BY <1>3 DEF ConnInv, InnFit, Read
<1>8. \A q : \A d \in Coqs : Read(d, q)' => Read(d, q)
  BY <1>2, <1>3 DEF Read
<1>9. ASSUME NEW i \in DOMAIN inn'[c], NEW j \in DOMAIN inn'[c], inn'[c][i].rid = inn'[c][j].rid
      PROVE  i = j
  <2>1. i + 1 = j + 1
    BY <1>3, <1>9 DEF ConnInv, InnFit
  <2> QED BY <2>1, <1>3
<1>10. \A d \in Coqs : d # c => \A i, j \in DOMAIN inn'[d] :
            inn'[d][i].rid = inn'[d][j].rid => i = j
  BY <1>2 DEF ConnInv, InnFit
<1> QED BY <1>2, <1>5, <1>6, <1>7, <1>8, <1>9, <1>10

(* What is left to read still has numbers of its own. *)
LEMMA InnKept ==
  ASSUME ConnInv, used' = used, inn' \in [Coqs -> Seq(Reads)],
         \A q : \A d \in Coqs : Read(d, q)' => Read(d, q) /\ ~Told(d, q)',
         \A d \in Coqs : \A i, j \in DOMAIN inn'[d] : inn'[d][i].rid = inn'[d][j].rid => i = j
  PROVE  InnFit'
<1>1. ASSUME NEW d \in Coqs, NEW i \in DOMAIN inn'[d]
      PROVE  inn'[d][i].rid \in used[d] /\ \A k \in DOMAIN out'[d] : out'[d][k].rid # inn'[d][i].rid
  <2>1. PICK q : q = inn'[d][i].rid
    OBVIOUS
  <2>2. Read(d, q)'
    BY <1>1, <2>1 DEF Read
  <2>3. Read(d, q) /\ ~Told(d, q)'
    BY <1>1, <2>2
  <2>4. q \in used[d]
    BY <2>3, <1>1 DEF ConnInv, InnFit, Read
  <2> QED BY <2>1, <2>3, <2>4 DEF Told
<1> QED BY <1>1 DEF InnFit, Told

(* A request that is answered at once. *)
LEMMA PokePeel ==
  ASSUME ConnInv, NEW c \in Coqs, c \in can, inn[c] # <<>>, inn' = [inn EXCEPT ![c] = Tail(@)],
         out' = Sent(c, Head(inn[c]).rid, "peel"),
         UNCHANGED <<nex, can, used, cran, work, kan, end>>
  PROVE  ConnInv'
<1>1. PICK r : r = Head(inn[c]).rid
  OBVIOUS
<1>2. /\ inn' \in [Coqs -> Seq(Reads)]
      /\ r \in Rids /\ r \in used[c] /\ ~Told(c, r) /\ ~Read(c, r)' /\ Read(c, r)
      /\ \A q : \A d \in Coqs : Read(d, q)' => Read(d, q)
      /\ \A d \in Coqs : \A i, j \in DOMAIN inn'[d] : inn'[d][i].rid = inn'[d][j].rid => i = j
  BY <1>1, ReadFirst
<1>3. out' = Sent(c, r, "peel") /\ r \in Rids \cup {0} /\ "peel" \in Replies /\ ConnTypes
  BY <1>1, <1>2 DEF ConnInv, Replies
<1>4. /\ out' \in [Coqs -> Seq(Says)]
      /\ \A q : \A d \in Coqs : Told(d, q)' <=> Told(d, q) \/ (d = c /\ q = r)
  BY <1>3, SentFacts, SentTold
<1>5. ConnTypes'
  BY <1>2, <1>4 DEF ConnInv, ConnTypes
<1>6. ~Told(c, 0) /\ r # 0
  BY <1>2, ConnAssumption DEF ConnInv, NoBail
<1>7. AnswersFit'
  BY <1>2, <1>3, <1>6, SentFit DEF ConnInv
<1>8. \A q : \A d \in Coqs : Read(d, q) => ~Told(d, q)
  BY DEF ConnInv, InnFit, Read
<1>9. InnFit'
  BY <1>2, <1>4, <1>8, InnKept
<1>10. WorkFit'
  <2>1. ASSUME NEW t \in work, t.typ \in Asks
        PROVE  ~Read(t.coq, t.rid)' /\ ~Told(t.coq, t.rid)'
    <3>1. t.coq \in Coqs /\ ~Read(t.coq, t.rid) /\ ~Told(t.coq, t.rid)
      BY <2>1 DEF ConnInv, WorkFit
    <3>2. ~(t.coq = c /\ t.rid = r)
      BY <3>1, <1>2
    <3> QED BY <3>1, <3>2, <1>2, <1>4
  <2> QED BY <2>1 DEF ConnInv, WorkFit
<1>11. NoBail'
  BY <1>4, <1>6 DEF ConnInv, NoBail
<1>12. CranFit'
  BY DEF ConnInv, CranFit
<1> QED BY <1>5, <1>7, <1>9, <1>10, <1>11, <1>12 DEF ConnInv

(* A request that goes to the pier. *)
LEMMA PokeTask ==
  ASSUME ConnInv, NEW c \in Coqs, c \in can, inn[c] # <<>>, inn' = [inn EXCEPT ![c] = Tail(@)],
         NEW typ \in Asks,
         cran' = IF typ \in {"peek", "ovum"} THEN MakeCran(c, Head(inn[c]).rid) ELSE cran,
         work' = work \cup {Task(typ, c, Head(inn[c]).rid)},
         UNCHANGED <<nex, can, used, out, kan, end>>
  PROVE  ConnInv'
<1>1. PICK r : r = Head(inn[c]).rid
  OBVIOUS
<1>2. /\ inn' \in [Coqs -> Seq(Reads)]
      /\ r \in Rids /\ r \in used[c] /\ ~Told(c, r) /\ ~Read(c, r)' /\ Read(c, r)
      /\ \A q : \A d \in Coqs : Read(d, q)' => Read(d, q)
      /\ \A d \in Coqs : \A i, j \in DOMAIN inn'[d] : inn'[d][i].rid = inn'[d][j].rid => i = j
  BY <1>1, ReadFirst
<1>3. \A q : \A d \in Coqs : Told(d, q)' <=> Told(d, q)
  BY DEF Told
<1>4. ConnTypes'
  BY <1>2 DEF ConnInv, ConnTypes
<1>5. \A q : \A d \in Coqs : Read(d, q) => ~Told(d, q)
  BY DEF ConnInv, InnFit, Read
<1>6. InnFit'
  BY <1>2, <1>3, <1>5, InnKept
<1>7. PICK t : t = Task(typ, c, r) /\ t.typ = typ /\ t.coq = c /\ t.rid = r
  <2>1. Task(typ, c, r).typ = typ /\ Task(typ, c, r).coq = c /\ Task(typ, c, r).rid = r
    BY DEF Task
  <2> QED BY <2>1
<1>8. work' = work \cup {t}
  BY <1>1, <1>7
<1>9. /\ DOMAIN cran \subseteq DOMAIN cran'
      /\ \A k \in DOMAIN cran' : (k \in DOMAIN cran /\ cran'[k] = cran[k]) \/ (k = <<c, r>> /\ cran'[k] = c)
      /\ typ \in {"peek", "ovum"} => <<c, r>> \in DOMAIN cran'
  <2>1. CASE typ \in {"peek", "ovum"}
    <3>1. cran' = [k \in DOMAIN cran \cup {<<c, r>>} |-> IF k = <<c, r>> THEN c ELSE cran[k]]
      BY <2>1, <1>1 DEF MakeCran
    <3> QED BY <3>1
  <2>2. CASE typ \notin {"peek", "ovum"}
    BY <2>2
  <2> QED BY <2>1, <2>2
<1>10. CranFit'
  <2>1. <<c, r>> \in Coqs \X Rids /\ <<c, r>>[1] = c
    BY <1>2
  <2> QED BY <2>1, <1>9 DEF ConnInv, CranFit
<1>11. WorkFit'
  <2>1. ASSUME NEW u \in work, u.typ \in Asks
        PROVE  /\ u.coq \in Coqs /\ u.rid \in used[u.coq]
               /\ ~Read(u.coq, u.rid)' /\ ~Told(u.coq, u.rid)' /\ ~(u.coq = c /\ u.rid = r)
               /\ u.typ \in {"peek", "ovum"} => <<u.coq, u.rid>> \in DOMAIN cran'
               /\ \A v \in work : v.typ \in Asks /\ v.coq = u.coq /\ v.rid = u.rid => v = u
    <3>1. /\ u.coq \in Coqs /\ u.rid \in used[u.coq]
          /\ ~Read(u.coq, u.rid) /\ ~Told(u.coq, u.rid)
          /\ u.typ \in {"peek", "ovum"} => <<u.coq, u.rid>> \in DOMAIN cran
          /\ \A v \in work : v.typ \in Asks /\ v.coq = u.coq /\ v.rid = u.rid => v = u
      BY <2>1 DEF ConnInv, WorkFit
    <3> QED BY <3>1, <1>2, <1>3, <1>9
  <2>2. /\ t.coq \in Coqs /\ t.rid \in used[t.coq]
        /\ ~Read(t.coq, t.rid)' /\ ~Told(t.coq, t.rid)'
        /\ t.typ \in {"peek", "ovum"} => <<t.coq, t.rid>> \in DOMAIN cran'
    BY <1>2, <1>3, <1>7, <1>9
  <2>3. \A u \in work : u.typ \in Asks => ~(u.coq = t.coq /\ u.rid = t.rid)
    BY <2>1, <1>7
  <2> QED BY <2>1, <2>2, <2>3, <1>8 DEF WorkFit
<1>12. NoBail' /\ AnswersFit'
  BY DEF ConnInv, NoBail, AnswersFit, Told
<1> QED BY <1>4, <1>6, <1>10, <1>11, <1>12 DEF ConnInv

(* A connection is closed, with or without a last %bail. *)
LEMMA CloseStep ==
  ASSUME ConnInv, NEW c \in Coqs, c \in can, CloseChan(c), UNCHANGED <<nex, used, kan, end>>,
         out' = out \/ out' = Sent(c, 0, "bail")
  PROVE  ConnInv'
<1>1. ConnTypes /\ inn \in [Coqs -> Seq(Reads)] /\ out \in [Coqs -> Seq(Says)] /\ 0 \notin Coqs
  BY CoqFacts DEF ConnInv, ConnTypes
<1>2. /\ can' = can \ {c} /\ inn' = [inn EXCEPT ![c] = <<>>]
      /\ cran' = [k \in DOMAIN cran |-> IF cran[k] = c THEN 0 ELSE cran[k]]
      /\ work \subseteq work' /\ \A t \in work' : t \in work \/ t.typ \notin Asks
  <2>1. Task("done", c, 0).typ \notin Asks
    BY DEF Task, Asks
  <2> QED BY <2>1 DEF CloseChan
<1>3. /\ inn' \in [Coqs -> Seq(Reads)] /\ DOMAIN inn'[c] = {}
      /\ \A d \in Coqs : d # c => inn'[d] = inn[d]
  BY <1>1, <1>2
<1>4. /\ out' \in [Coqs -> Seq(Says)]
      /\ \A q : \A d \in Coqs : Told(d, q)' => Told(d, q) \/ (d = c /\ q = 0)
  <2>1. CASE out' = out
    BY <2>1, <1>1 DEF Told
  <2>2. CASE out' = Sent(c, 0, "bail")
    BY <2>2, <1>1, SentFacts, SentTold DEF Replies
  <2> QED BY <2>1, <2>2
<1>5. AnswersFit'
  <2>1. CASE out' = out
    BY <2>1 DEF ConnInv, AnswersFit
  <2>2. CASE out' = Sent(c, 0, "bail")
    <3>1. ~Told(c, 0)
      BY DEF ConnInv, NoBail
    <3> QED BY <2>2, <3>1, <1>1, SentFit DEF ConnInv, Replies
  <2> QED BY <2>1, <2>2
<1>6. ConnTypes'
  BY <1>2, <1>3, <1>4 DEF ConnInv, ConnTypes
<1>7. \A q : \A d \in Coqs : Read(d, q)' => d # c /\ Read(d, q)
  BY <1>3 DEF Read
<1>8. InnFit'
  <2>1. \A q : \A d \in Coqs : Read(d, q) => ~Told(d, q)
    BY DEF ConnInv, InnFit, Read
  <2>2. \A d \in Coqs : \A i, j \in DOMAIN inn'[d] : inn'[d][i].rid = inn'[d][j].rid => i = j
    BY <1>3, SMTT(30) DEF ConnInv, InnFit
  <2> QED BY <2>1, <2>2, <1>3, <1>4, <1>7, InnKept
<1>9. CranFit'
  <2>1. DOMAIN cran' = DOMAIN cran
    BY <1>2
  <2>2. ASSUME NEW k \in DOMAIN cran PROVE cran'[k] = 0 \/ (cran'[k] = k[1] /\ k[1] \in can')
    <3>1. cran'[k] = IF cran[k] = c THEN 0 ELSE cran[k]
      BY <1>2
    <3>2. cran[k] = 0 \/ (cran[k] = k[1] /\ k[1] \in can)
      BY DEF ConnInv, CranFit
    <3> QED BY <3>1, <3>2, <1>2
  <2> QED BY <2>1, <2>2 DEF ConnInv, CranFit
<1>10. WorkFit'
  <2>1. DOMAIN cran' = DOMAIN cran
    BY <1>2
  <2>2. ASSUME NEW t \in work', t.typ \in Asks
        PROVE  /\ t.coq \in Coqs /\ t.rid \in used[t.coq]
               /\ ~Read(t.coq, t.rid)' /\ ~Told(t.coq, t.rid)'
               /\ t.typ \in {"peek", "ovum"} => <<t.coq, t.rid>> \in DOMAIN cran
               /\ \A u \in work' : u.typ \in Asks /\ u.coq = t.coq /\ u.rid = t.rid => u = t
    <3>1. t \in work
      BY <2>2, <1>2
    <3>2. /\ t.coq \in Coqs /\ t.rid \in used[t.coq]
          /\ ~Read(t.coq, t.rid) /\ ~Told(t.coq, t.rid)
          /\ t.typ \in {"peek", "ovum"} => <<t.coq, t.rid>> \in DOMAIN cran
          /\ \A u \in work : u.typ \in Asks /\ u.coq = t.coq /\ u.rid = t.rid => u = t
      BY <3>1, <2>2 DEF ConnInv, WorkFit
    <3>3. t.rid # 0
      BY <3>2, <1>1, ConnAssumption DEF ConnTypes
    <3> QED BY <3>2, <3>3, <1>2, <1>4, <1>7
  <2> QED BY <2>1, <2>2 DEF WorkFit
<1>11. NoBail'
  <2>1. ASSUME NEW d \in Coqs, d \in can' \/ d >= nex PROVE ~Told(d, 0)'
    <3>1. d # c
      BY <2>1, <1>1, <1>2 DEF ConnTypes
    <3> QED BY <3>1, <2>1, <1>2, <1>4 DEF ConnInv, NoBail
  <2> QED BY <2>1 DEF NoBail
<1> QED BY <1>5, <1>6, <1>8, <1>9, <1>10, <1>11 DEF ConnInv

(* The pier is done with a task: the answer goes out if the connection is  *)
(* still open, and the request that waited for it is disposed of.          *)
LEMMA AnswerStep ==
  ASSUME ConnInv, NEW t \in work, t.typ \in Asks, NEW tag \in Replies,
         work' = work \ {t}, UNCHANGED <<nex, can, inn, used, kan, end>>,
         out' = out \/ (t.coq \in can /\ out' = Sent(t.coq, t.rid, tag)),
         cran' = cran \/ cran' = DropCran(<<t.coq, t.rid>>)
  PROVE  ConnInv'
<1>1. ConnTypes /\ 0 \notin Rids /\ used \in [Coqs -> SUBSET Rids] /\ out \in [Coqs -> Seq(Says)]
  BY CoqFacts DEF ConnInv, ConnTypes
<1>2. /\ t.coq \in Coqs /\ t.rid \in used[t.coq] /\ t.rid \in Rids
      /\ ~Read(t.coq, t.rid) /\ ~Told(t.coq, t.rid)
      /\ \A u \in work : u.typ \in Asks /\ u.coq = t.coq /\ u.rid = t.rid => u = t
  BY <1>1 DEF ConnInv, WorkFit
<1>3. /\ out' \in [Coqs -> Seq(Says)]
      /\ \A q : \A d \in Coqs : Told(d, q)' => Told(d, q) \/ (d = t.coq /\ q = t.rid)
  <2>1. CASE out' = out
    BY <2>1, <1>1 DEF Told
  <2>2. CASE out' = Sent(t.coq, t.rid, tag)
    BY <2>2, <1>1, <1>2, SentFacts, SentTold
  <2> QED BY <2>1, <2>2
<1>4. AnswersFit'
  <2>1. CASE out' = out
    BY <2>1 DEF ConnInv, AnswersFit
  <2>2. CASE t.coq \in can /\ out' = Sent(t.coq, t.rid, tag)
    <3>1. ~Told(t.coq, 0)
      BY <2>2, <1>2 DEF ConnInv, NoBail
    <3> QED BY <2>2, <3>1, <1>1, <1>2, SentFit DEF ConnInv
  <2> QED BY <2>1, <2>2
<1>5. ConnTypes'
  BY <1>3 DEF ConnInv, ConnTypes
<1>6. \A q : \A d \in Coqs : Read(d, q)' <=> Read(d, q)
  BY DEF Read
<1>7. InnFit'
  <2>1. \A q : \A d \in Coqs : Read(d, q) => ~Told(d, q)
    BY DEF ConnInv, InnFit, Read
  <2>2. \A d \in Coqs : \A i, j \in DOMAIN inn'[d] : inn'[d][i].rid = inn'[d][j].rid => i = j
    BY DEF ConnInv, InnFit
  <2>3. inn' \in [Coqs -> Seq(Reads)]
    BY <1>1 DEF ConnTypes
  <2> QED BY <2>1, <2>2, <2>3, <1>2, <1>3, <1>6, InnKept
<1>8. /\ DOMAIN cran' \subseteq DOMAIN cran
      /\ \A k \in DOMAIN cran : k # <<t.coq, t.rid>> => k \in DOMAIN cran'
      /\ \A k \in DOMAIN cran' : cran'[k] = cran[k]
  BY DEF DropCran
<1>9. CranFit'
  BY <1>8 DEF ConnInv, CranFit
<1>10. WorkFit'
  <2>1. ASSUME NEW u \in work', u.typ \in Asks
        PROVE  /\ u.coq \in Coqs /\ u.rid \in used[u.coq]
               /\ ~Read(u.coq, u.rid)' /\ ~Told(u.coq, u.rid)'
               /\ u.typ \in {"peek", "ovum"} => <<u.coq, u.rid>> \in DOMAIN cran'
               /\ \A v \in work' : v.typ \in Asks /\ v.coq = u.coq /\ v.rid = u.rid => v = u
    <3>1. u \in work /\ u # t /\ \A v \in work' : v \in work
      BY <2>1
    <3>2. /\ u.coq \in Coqs /\ u.rid \in used[u.coq]
          /\ ~Read(u.coq, u.rid) /\ ~Told(u.coq, u.rid)
          /\ u.typ \in {"peek", "ovum"} => <<u.coq, u.rid>> \in DOMAIN cran
          /\ \A v \in work : v.typ \in Asks /\ v.coq = u.coq /\ v.rid = u.rid => v = u
      BY <3>1, <2>1 DEF ConnInv, WorkFit
    <3>3. ~(u.coq = t.coq /\ u.rid = t.rid)
      BY <3>1, <2>1, <1>2
    <3>4. <<u.coq, u.rid>> # <<t.coq, t.rid>>
      BY <3>3
    <3> QED BY <3>1, <3>2, <3>3, <3>4, <1>3, <1>6, <1>8
  <2> QED BY <2>1 DEF WorkFit
<1>11. NoBail'
  BY <1>1, <1>2, <1>3 DEF ConnInv, NoBail
<1> QED BY <1>4, <1>5, <1>7, <1>9, <1>10, <1>11 DEF ConnInv

(* A callback finds its connection by the request, a thread by number: in  *)
(* each case it is the one that asked, and it is open.                     *)
LEMMA CallbackOpen ==
  ASSUME ConnInv, NEW t \in work, t.typ \in {"peek", "ovum"}
  PROVE  cran[<<t.coq, t.rid>>] = 0 \/ (cran[<<t.coq, t.rid>>] = t.coq /\ t.coq \in can)
<1>1. <<t.coq, t.rid>> \in DOMAIN cran /\ <<t.coq, t.rid>>[1] = t.coq
  BY DEF ConnInv, WorkFit, Asks
<1> QED BY <1>1 DEF ConnInv, CranFit

LEMMA CallbackStep ==
  ASSUME ConnInv, NEW t \in work, PeekCb(t) \/ OvumCb(t) \/ Thread(t)
  PROVE  /\ ConnInv'
         /\ out' = out \/ (t.coq \in can /\ \E tag \in Replies : out' = Sent(t.coq, t.rid, tag))
<1>1. t.typ \in Asks
  BY DEF PeekCb, OvumCb, Thread, Asks
<1>2. work' = work \ {t} /\ UNCHANGED <<nex, can, inn, used, kan, end>>
  BY DEF PeekCb, OvumCb, Thread
<1>3. cran' = cran \/ cran' = DropCran(<<t.coq, t.rid>>)
  BY DEF PeekCb, OvumCb, Thread
<1>4. PICK tag \in Replies : out' = out \/ (t.coq \in can /\ out' = Sent(t.coq, t.rid, tag))
  <2>1. CASE PeekCb(t)
    <3>1. \/ cran[<<t.coq, t.rid>>] = 0 /\ out' = out
          \/ cran[<<t.coq, t.rid>>] # 0 /\ out' = Sent(cran[<<t.coq, t.rid>>], t.rid, "peek")
      BY <2>1 DEF PeekCb
    <3>2. cran[<<t.coq, t.rid>>] = 0 \/ (cran[<<t.coq, t.rid>>] = t.coq /\ t.coq \in can)
      BY <2>1, CallbackOpen DEF PeekCb
    <3> QED BY <3>1, <3>2 DEF Replies
  <2>2. CASE OvumCb(t)
    <3>1. PICK g \in {"news", "bail"} :
            \/ cran[<<t.coq, t.rid>>] = 0 /\ out' = out
            \/ cran[<<t.coq, t.rid>>] # 0 /\ out' = Sent(cran[<<t.coq, t.rid>>], t.rid, g)
      BY <2>2 DEF OvumCb
    <3>2. cran[<<t.coq, t.rid>>] = 0 \/ (cran[<<t.coq, t.rid>>] = t.coq /\ t.coq \in can)
      BY <2>2, CallbackOpen DEF OvumCb
    <3> QED BY <3>1, <3>2 DEF Replies
  <2>3. CASE Thread(t)
    BY <2>3 DEF Thread, FindChan, Replies
  <2> QED BY <2>1, <2>2, <2>3
<1>5. ConnInv'
  BY <1>1, <1>2, <1>3, <1>4, AnswerStep
<1> QED BY <1>4, <1>5

LEMMA PokeStep == ASSUME ConnInv, NEW c \in Coqs, Poke(c) PROVE ConnInv'
<1>1. c \in can /\ inn[c] # <<>> /\ UNCHANGED <<nex, used, kan, end>>
  BY DEF Poke
<1>2. CASE MoorBail(c)
  BY <1>1, <1>2, CloseStep DEF MoorBail
<1>3. ASSUME ~MoorBail(c) PROVE ConnInv'
  <2>1. PICK t : t = Head(inn[c]).tag
    OBVIOUS
  <2>2. /\ inn' = [inn EXCEPT ![c] = Tail(@)]
        /\ cran' = IF t \in {"peek", "ovum"} THEN MakeCran(c, Head(inn[c]).rid) ELSE cran
        /\ work' = work \cup IF t \in {"fyrd", "peek", "ovum"} THEN {Task(t, c, Head(inn[c]).rid)} ELSE {}
        /\ out' = IF t = "peel" THEN Sent(c, Head(inn[c]).rid, t) ELSE out
        /\ UNCHANGED can /\ t # "bad"
    BY <1>3, <2>1 DEF Poke
  <2>3. Head(inn[c]) \in Reads
    BY <1>1 DEF ConnInv, ConnTypes
  <2>4. t \in {"fyrd", "peek", "ovum", "peel"}
    BY <2>1, <2>2, <2>3 DEF Reads, Tags
  <2>5. CASE t = "peel"
    <3>1. /\ out' = Sent(c, Head(inn[c]).rid, "peel") /\ inn' = [inn EXCEPT ![c] = Tail(@)]
          /\ UNCHANGED <<nex, can, used, cran, work, kan, end>>
      BY <2>2, <2>5, <1>1
    <3> QED BY <3>1, <1>1, PokePeel
  <2>6. CASE t # "peel"
    <3>1. /\ t \in Asks /\ work' = work \cup {Task(t, c, Head(inn[c]).rid)}
          /\ UNCHANGED <<nex, can, used, out, kan, end>>
      BY <2>2, <2>4, <2>6, <1>1 DEF Asks
    <3> QED BY <3>1, <2>2, <1>1, PokeTask
  <2> QED BY <2>5, <2>6
<1> QED BY <1>2, <1>3

LEMMA ExitStep == ASSUME ConnInv, ConnExit PROVE ConnInv'
<1>1. /\ can' = {} /\ inn' = [c \in Coqs |-> <<>>] /\ work' = {} /\ end' = TRUE
      /\ cran' = [k \in DOMAIN cran |-> 0] /\ UNCHANGED <<nex, used, out, kan>>
  BY DEF ConnExit
<1>2. \A c \in Coqs : DOMAIN inn'[c] = {}
  BY <1>1
<1>3. ConnTypes'
  BY <1>1 DEF ConnInv, ConnTypes
<1>4. InnFit' /\ WorkFit'
  BY <1>1, <1>2 DEF InnFit, WorkFit
<1>5. CranFit' /\ NoBail' /\ AnswersFit'
  BY <1>1 DEF ConnInv, CranFit, NoBail, AnswersFit, Told
<1> QED BY <1>3, <1>4, <1>5 DEF ConnInv

(* A task that is no request is done. *)
LEMMA OtherStep ==
  ASSUME ConnInv, NEW t, work' = work \ {t}, kan' \in BOOLEAN,
         UNCHANGED <<nex, can, inn, used, cran, out, end>>
  PROVE  ConnInv'
<1>1. ConnTypes'
  BY DEF ConnInv, ConnTypes
<1>2. InnFit' /\ CranFit' /\ NoBail' /\ AnswersFit'
  BY DEF ConnInv, InnFit, CranFit, NoBail, AnswersFit, Told
<1>3. WorkFit'
  BY DEF ConnInv, WorkFit, Read, Told
<1> QED BY <1>1, <1>2, <1>3 DEF ConnInv

LEMMA ConnStep == ConnInv /\ [ConnNext]_cvars => ConnInv'
<1> SUFFICES ASSUME ConnInv, [ConnNext]_cvars PROVE ConnInv'
  OBVIOUS
<1>1. CASE Accept
  BY <1>1, AcceptStep
<1>2. CASE Born
  BY <1>2, OtherStep DEF Born
<1>3. CASE ConnExit
  BY <1>3, ExitStep
<1>4. ASSUME NEW c \in Coqs, Request(c) PROVE ConnInv'
  BY <1>4, RequestStep
<1>5. ASSUME NEW c \in Coqs, Poke(c) PROVE ConnInv'
  BY <1>5, PokeStep
<1>6. ASSUME NEW c \in Coqs, Hangup(c) PROVE ConnInv'
  BY <1>6, CloseStep DEF Hangup, MoorBail
<1>7. ASSUME NEW t \in work, PeekCb(t) \/ OvumCb(t) \/ Thread(t) PROVE ConnInv'
  BY <1>7, CallbackStep
<1>8. ASSUME NEW t \in work, Done(t) PROVE ConnInv'
  <2>1. kan \in BOOLEAN
    BY DEF ConnInv, ConnTypes
  <2> QED BY <1>8, <2>1, OtherStep DEF Done
<1>9. CASE UNCHANGED cvars
  <2>1. UNCHANGED <<nex, can, inn, used, cran, work, out, kan, end>>
    BY <1>9 DEF cvars
  <2> QED BY <2>1 DEF ConnInv, ConnTypes, InnFit, WorkFit, CranFit, NoBail, AnswersFit, Read, Told
<1> QED BY <1>1, <1>2, <1>3, <1>4, <1>5, <1>6, <1>7, <1>8, <1>9 DEF ConnNext

(* Only an open connection is written to. *)
LEMMA SilentStep ==
  ASSUME ConnInv, ConnNext, NEW c \in Coqs, out'[c] # out[c]
  PROVE  c \in can
<1>1. ConnTypes
  BY DEF ConnInv
<1>2. ASSUME NEW d \in Coqs, NEW r, NEW tag, out' = Sent(d, r, tag), d \in can PROVE c \in can
  <2>1. CASE c = d
    BY <2>1, <1>2
  <2>2. CASE c # d
    <3>1. out'[c] = out[c]
      BY <2>2, <1>1, <1>2 DEF Sent, ConnTypes
    <3> QED BY <3>1
  <2> QED BY <2>1, <2>2
<1>3. CASE Accept \/ Born \/ ConnExit
  BY <1>3 DEF Accept, Born, ConnExit
<1>4. ASSUME NEW d \in Coqs, Request(d) \/ Poke(d) \/ Hangup(d) PROVE c \in can
  <2>1. UNCHANGED out \/ \E r, tag : out' = Sent(d, r, tag)
    BY <1>4 DEF Request, Poke, Hangup, MoorBail
  <2>2. d \in can
    BY <1>4 DEF Request, Poke, Hangup
  <2> QED BY <2>1, <2>2, <1>2
<1>5. ASSUME NEW t \in work, PeekCb(t) \/ OvumCb(t) \/ Thread(t) \/ Done(t) PROVE c \in can
  <2>1. CASE Done(t)
    BY <2>1 DEF Done
  <2>2. CASE PeekCb(t) \/ OvumCb(t) \/ Thread(t)
    <3>1. out' = out \/ (t.coq \in can /\ \E tag \in Replies : out' = Sent(t.coq, t.rid, tag))
      BY <2>2, CallbackStep
    <3>2. can \subseteq Coqs
      BY <1>1, CoqFacts
    <3> QED BY <3>1, <3>2, <1>2
  <2> QED BY <1>5, <2>1, <2>2
<1> QED BY <1>3, <1>4, <1>5 DEF ConnNext

-----------------------------------------------------------------------------
(* Induction and iteration *)

LEMMA Induct ==
  ASSUME NEW T \in SUBSET Nat, 0 \in T, \A n \in T : n + 1 \in T
  PROVE  T = Nat
<1>1. SUFFICES ASSUME Nat \ T # {} PROVE FALSE
  OBVIOUS
<1>2. PICK n \in Nat \ T : \A m \in Nat \ T : n <= m
  <2>1. Nat \ T \in SUBSET Nat
    OBVIOUS
  <2> QED BY <1>1, <2>1, Least
<1>3. n # 0 /\ n - 1 \in Nat /\ ~(n <= n - 1)
  BY <1>2
<1>4. n - 1 \in T
  BY <1>2, <1>3
<1>5. (n - 1) + 1 \in T
  BY <1>4
<1>6. (n - 1) + 1 = n
  BY <1>2
<1> QED BY <1>2, <1>5, <1>6

Iterates(f, b, N, g) == f[0] = b /\ \A k \in 1 .. N : f[k] = g[<<f[k - 1], k>>]

(* A function can be iterated: the recursive functions of the model exist. *)
LEMMA Iterated ==
  ASSUME NEW S, NEW b \in S, NEW N \in Nat, NEW g \in [S \X (1 .. N) -> S]
  PROVE  \E f \in [0 .. N -> S] : Iterates(f, b, N, g)
<1> SUFFICES \E f \in [0 .. N -> S] : f[0] = b /\ \A k \in 1 .. N : f[k] = g[<<f[k - 1], k>>]
  BY DEF Iterates
<1> DEFINE T == {n \in Nat : n <= N => \E f \in [0 .. n -> S] :
                    f[0] = b /\ \A k \in 1 .. n : f[k] = g[<<f[k - 1], k>>]}
<1>1. 0 \in T
  <2>1. [i \in 0 .. 0 |-> b] \in [0 .. 0 -> S] /\ [i \in 0 .. 0 |-> b][0] = b
    OBVIOUS
  <2>2. 1 .. 0 = {}
    OBVIOUS
  <2> QED BY <2>1, <2>2
<1>2. ASSUME NEW n \in T PROVE n + 1 \in T
  <2>1. SUFFICES ASSUME n + 1 <= N
                 PROVE  \E f \in [0 .. n + 1 -> S] :
                            f[0] = b /\ \A k \in 1 .. n + 1 : f[k] = g[<<f[k - 1], k>>]
    OBVIOUS
  <2>2. PICK f \in [0 .. n -> S] : f[0] = b /\ \A k \in 1 .. n : f[k] = g[<<f[k - 1], k>>]
    BY <2>1
  <2>3. n \in Nat /\ n \in 0 .. n /\ n + 1 \in 1 .. N
    BY <2>1
  <2>4. <<f[n], n + 1>> \in S \X (1 .. N)
    BY <2>2, <2>3
  <2>5. g[<<f[n], n + 1>>] \in S
    BY <2>4
  <2> DEFINE h1 == [i \in 0 .. n + 1 |-> IF i = n + 1 THEN g[<<f[n], n + 1>>] ELSE f[i]]
  <2>6. \A i \in 0 .. n + 1 : i = n + 1 \/ i \in 0 .. n
    BY <2>3
  <2>7. h1 \in [0 .. n + 1 -> S]
    BY <2>2, <2>5, <2>6
  <2>8. \A i \in 0 .. n : h1[i] = f[i]
    BY <2>3
  <2>9. h1[n + 1] = g[<<f[n], n + 1>>]
    BY <2>3
  <2>10. h1[0] = b
    BY <2>2, <2>3, <2>8
  <2>11. ASSUME NEW k \in 1 .. n + 1 PROVE h1[k] = g[<<h1[k - 1], k>>]
    <3> HIDE DEF h1
    <3>1. CASE k = n + 1
      <4>1. k - 1 = n
        BY <3>1, <2>3
      <4> QED BY <3>1, <4>1, <2>3, <2>8, <2>9
    <3>2. CASE k # n + 1
      <4>1. k \in 1 .. n /\ k \in 0 .. n /\ k - 1 \in 0 .. n
        BY <3>2, <2>3
      <4> QED BY <4>1, <2>2, <2>8
    <3> QED BY <3>1, <3>2
  <2> HIDE DEF h1
  <2> QED BY <2>7, <2>10, <2>11
<1>3. T = Nat
  <2>1. T \in SUBSET Nat
    OBVIOUS
  <2> HIDE DEF T
  <2> QED BY <1>1, <1>2, <2>1, Induct
<1>4. N \in T /\ N <= N
  <2> HIDE DEF T
  <2> QED BY <1>3
<1> QED BY <1>4

-----------------------------------------------------------------------------
(* The length in a header *)

LEMMA DivMod ==
  ASSUME NEW a \in Nat, NEW b \in Nat \ {0}
  PROVE  \E q, r \in Nat : a = b * q + r /\ r < b /\ a \div b = q /\ a % b = r
<1> DEFINE T == {n \in Nat : \A m \in Nat : m <= n => \E q, r \in Nat : m = b * q + r /\ r < b}
<1>1. 0 \in T
  <2>1. 0 = b * 0 + 0 /\ 0 < b
    OBVIOUS
  <2> QED BY <2>1
<1>2. ASSUME NEW n \in T PROVE n + 1 \in T
  <2> SUFFICES ASSUME NEW m \in Nat, m <= n + 1 PROVE \E q, r \in Nat : m = b * q + r /\ r < b
    OBVIOUS
  <2>1. CASE m < b
    <3>1. m = b * 0 + m
      OBVIOUS
    <3> QED BY <2>1, <3>1
  <2>2. CASE m >= b
    <3>1. m - b \in Nat /\ m - b <= n
      BY <2>2
    <3>2. PICK q \in Nat, r \in Nat : m - b = b * q + r /\ r < b
      BY <3>1, <1>2
    <3>3. b * (q + 1) = b * q + b /\ b * q \in Nat
      OBVIOUS
    <3>4. m = b * (q + 1) + r
      BY <3>2, <3>3
    <3>5. q + 1 \in Nat
      OBVIOUS
    <3> HIDE DEF T
    <3> QED BY <3>2, <3>4, <3>5, Zenon
  <2> QED BY <2>1, <2>2
<1>3. T = Nat
  <2>1. T \in SUBSET Nat
    OBVIOUS
  <2> HIDE DEF T
  <2> QED BY <1>1, <1>2, <2>1, Induct
<1>4. PICK q \in Nat, r \in Nat : a = b * q + r /\ r < b
  <2>1. a \in T /\ a <= a
    <3> HIDE DEF T
    <3> QED BY <1>3
  <2> QED BY <2>1
<1>5. a \div b = q
  BY <1>4
<1>6. a % b = r
  BY <1>4
<1> QED BY <1>4, <1>5, <1>6

LEMMA PlaceFacts ==
  /\ Place \in [0 .. LenBytes -> Nat \ {0}] /\ Place[0] = 1
  /\ \A i \in 1 .. LenBytes : Place[i] = Byte * Place[i - 1]
<1> DEFINE S == Nat \ {0}
           F(f) == [i \in 0 .. LenBytes |-> IF i = 0 THEN 1 ELSE Byte * f[i - 1]]
           g == [p \in S \X (1 .. LenBytes) |-> Byte * p[1]]
<1>1. LenBytes \in Nat /\ Byte \in S /\ 1 \in S
  BY NewtAssumption
<1>2. g \in [S \X (1 .. LenBytes) -> S]
  BY <1>1
<1>3. PICK f \in [0 .. LenBytes -> S] : f[0] = 1 /\ \A k \in 1 .. LenBytes : f[k] = g[<<f[k - 1], k>>]
  <2>1. \E f \in [0 .. LenBytes -> S] : Iterates(f, 1, LenBytes, g)
    <3> HIDE DEF S, g
    <3> QED BY <1>1, <1>2, Iterated
  <2> HIDE DEF S, g
  <2> QED BY <2>1 DEF Iterates
<1>4. \A k \in 1 .. LenBytes : f[k] = Byte * f[k - 1]
  <2>1. \A k \in 1 .. LenBytes : <<f[k - 1], k>> \in S \X (1 .. LenBytes)
    BY <1>1, <1>3
  <2> QED BY <1>3, <2>1
<1>5. f = F(f)
  <2>1. \A i \in 0 .. LenBytes : f[i] = F(f)[i]
    BY <1>1, <1>3, <1>4
  <2> QED BY <1>3, <2>1
<1>6. Place = CHOOSE p : p = F(p)
  BY DEF Place
<1>7. Place = F(Place)
  <2> HIDE DEF F
  <2> QED BY <1>5, <1>6, Zenon
<1>8. \A i \in 0 .. LenBytes : Place[i] = IF i = 0 THEN 1 ELSE Byte * Place[i - 1]
  BY <1>7
<1>9. Place[0] = 1 /\ \A i \in 1 .. LenBytes : Place[i] = Byte * Place[i - 1]
  BY <1>1, <1>8
<1>10. Place \in [0 .. LenBytes -> S]
  <2> DEFINE T == {n \in Nat : n <= LenBytes => Place[n] \in S}
  <2>1. 0 \in T
    BY <1>1, <1>9
  <2>2. ASSUME NEW n \in T PROVE n + 1 \in T
    <3>1. SUFFICES ASSUME n + 1 <= LenBytes PROVE Place[n + 1] \in S
      OBVIOUS
    <3>2. n + 1 \in 1 .. LenBytes /\ (n + 1) - 1 = n
      BY <3>1, <1>1
    <3>3. Place[n + 1] = Byte * Place[n] /\ Place[n] \in S
      BY <3>1, <3>2, <1>1, <1>9
    <3> QED BY <3>3, <1>1
  <2>3. T \in SUBSET Nat
    OBVIOUS
  <2>4. T = Nat
    <3> HIDE DEF T
    <3> QED BY <2>1, <2>2, <2>3, Induct
  <2>5. \A n \in 0 .. LenBytes : n \in T
    <3> HIDE DEF T
    <3> QED BY <2>4
  <2>6. \A n \in 0 .. LenBytes : Place[n] \in S
    BY <2>5, <1>1
  <2>7. Place = [i \in 0 .. LenBytes |-> Place[i]]
    BY <1>7
  <2> QED BY <2>6, <2>7
<1> QED BY <1>9, <1>10

LEMMA NestedDiv ==
  ASSUME NEW a \in Nat, NEW p \in Nat \ {0}, NEW b \in Nat \ {0}
  PROVE  /\ a \div (b * p) \in Nat
         /\ \E d \in Nat : /\ d < b /\ (a \div p) % b = d
                           /\ p * (a \div p) = (b * p) * (a \div (b * p)) + d * p
<1>1. PICK q \in Nat, r \in Nat : a = p * q + r /\ r < p /\ a \div p = q
  BY DivMod
<1>2. PICK e \in Nat, d \in Nat : q = b * e + d /\ d < b /\ q % b = d
  BY DivMod, ZenonT(60)
<1>3. PICK bp \in Nat \ {0} : bp = b * p
  OBVIOUS
<1>4. p * q = p * (b * e) + p * d
  BY <1>2
<1>5. p * (b * e) = bp * e
  BY <1>3
<1>6. PICK pd \in Nat : pd = p * d
  OBVIOUS
<1>7. pd + r < bp
  <2>1. d + 1 <= b /\ p * (d + 1) = p * d + p
    BY <1>2
  <2>2. p * (d + 1) <= p * b
    BY <2>1
  <2>3. p * b = bp
    BY <1>3
  <2> QED BY <2>1, <2>2, <2>3, <1>1, <1>6
<1>8. PICK be \in Nat : be = bp * e
  OBVIOUS
<1>9. a = bp * e + (pd + r)
  BY <1>1, <1>4, <1>5, <1>6, <1>8
<1>10. a \div bp = e
  <2>1. pd + r \in Nat
    OBVIOUS
  <2> QED BY <1>7, <1>9, <2>1
<1>11. p * q = bp * e + d * p
  BY <1>4, <1>5
<1> QED BY <1>1, <1>2, <1>3, <1>10, <1>11

(* The recursive function in the definition of Length. *)
LEMMA LengthSum ==
  ASSUME NEW hed, \A i \in 1 .. LenBytes : hed[i + 1] \in Nat
  PROVE  \E met \in [0 .. LenBytes -> Nat] :
            /\ met[0] = 0 /\ Length(hed) = met[LenBytes]
            /\ \A i \in 1 .. LenBytes : met[i] = met[i - 1] + hed[i + 1] * Place[i - 1]
<1> DEFINE F(f) == [i \in 0 .. LenBytes |-> IF i = 0 THEN 0 ELSE f[i - 1] + hed[i + 1] * Place[i - 1]]
           g == [p \in Nat \X (1 .. LenBytes) |-> p[1] + hed[p[2] + 1] * Place[p[2] - 1]]
<1>1. LenBytes \in Nat
  BY NewtAssumption
<1>2. \A i \in 1 .. LenBytes : Place[i - 1] \in Nat /\ hed[i + 1] * Place[i - 1] \in Nat
  BY <1>1, PlaceFacts
<1>3. g \in [Nat \X (1 .. LenBytes) -> Nat]
  BY <1>2
<1>4. PICK f \in [0 .. LenBytes -> Nat] :
         f[0] = 0 /\ \A k \in 1 .. LenBytes : f[k] = g[<<f[k - 1], k>>]
  <2>1. \E f \in [0 .. LenBytes -> Nat] : Iterates(f, 0, LenBytes, g)
    <3> HIDE DEF g
    <3> QED BY <1>1, <1>3, Iterated
  <2> HIDE DEF g
  <2> QED BY <2>1 DEF Iterates
<1>5. \A k \in 1 .. LenBytes : f[k] = f[k - 1] + hed[k + 1] * Place[k - 1]
  <2>1. \A k \in 1 .. LenBytes : <<f[k - 1], k>> \in Nat \X (1 .. LenBytes)
    BY <1>1, <1>4
  <2> QED BY <1>4, <2>1
<1>6. f = F(f)
  <2>1. \A i \in 0 .. LenBytes : f[i] = F(f)[i]
    BY <1>1, <1>4, <1>5
  <2> QED BY <1>4, <2>1
<1>7. PICK met : met = (CHOOSE p : p = F(p))
  OBVIOUS
<1>8. met = F(met)
  <2> HIDE DEF F
  <2> QED BY <1>6, <1>7, Zenon
<1>9. Length(hed) = met[LenBytes]
  BY <1>7 DEF Length
<1>10. \A i \in 0 .. LenBytes : met[i] = IF i = 0 THEN 0 ELSE met[i - 1] + hed[i + 1] * Place[i - 1]
  BY <1>8
<1>11. met[0] = 0 /\ \A i \in 1 .. LenBytes : met[i] = met[i - 1] + hed[i + 1] * Place[i - 1]
  BY <1>1, <1>10
<1>12. met \in [0 .. LenBytes -> Nat]
  <2> DEFINE T == {n \in Nat : n <= LenBytes => met[n] \in Nat}
  <2>1. 0 \in T
    BY <1>1, <1>11
  <2>2. ASSUME NEW n \in T PROVE n + 1 \in T
    <3>1. SUFFICES ASSUME n + 1 <= LenBytes PROVE met[n + 1] \in Nat
      OBVIOUS
    <3>2. n + 1 \in 1 .. LenBytes /\ (n + 1) - 1 = n
      BY <3>1, <1>1
    <3>3. PICK x \in Nat : x = hed[(n + 1) + 1] * Place[(n + 1) - 1]
      BY <3>2, <1>2
    <3>4. met[n + 1] = met[n] + x /\ met[n] \in Nat
      BY <3>1, <3>2, <3>3, <1>1, <1>11
    <3> QED BY <3>4
  <2>3. T \in SUBSET Nat
    OBVIOUS
  <2>4. T = Nat
    <3> HIDE DEF T
    <3> QED BY <2>1, <2>2, <2>3, Induct
  <2>5. \A n \in 0 .. LenBytes : n \in T
    <3> HIDE DEF T
    <3> QED BY <2>4
  <2>6. \A n \in 0 .. LenBytes : met[n] \in Nat
    BY <2>5, <1>1
  <2>7. met = [i \in 0 .. LenBytes |-> met[i]]
    BY <1>8
  <2> QED BY <2>6, <2>7
<1> QED BY <1>9, <1>11, <1>12

LEMMA HeaderFacts ==
  ASSUME NEW len \in Nat
  PROVE  /\ Header(len) \in Seq(Bytes) /\ Len(Header(len)) = 1 + LenBytes /\ Header(len)[1] = 0
         /\ \A i \in 1 .. LenBytes : Header(len)[i + 1] = (len \div Place[i - 1]) % Byte
<1> DEFINE z == [i \in 1 .. LenBytes |-> (len \div Place[i - 1]) % Byte]
<1>1. LenBytes \in Nat /\ Byte \in Nat \ {0} /\ 0 \in Bytes
  BY NewtAssumption DEF Bytes
<1>2. ASSUME NEW i \in 1 .. LenBytes PROVE (len \div Place[i - 1]) % Byte \in Bytes
  <2>1. PICK p \in Nat \ {0} : p = Place[i - 1]
    BY <1>1, PlaceFacts
  <2>2. PICK q \in Nat : q = len \div p
    BY DivMod
  <2>3. PICK r \in Nat : r < Byte /\ q % Byte = r
    BY <1>1, DivMod
  <2> QED BY <1>1, <2>1, <2>2, <2>3 DEF Bytes
<1>3. z \in Seq(Bytes) /\ Len(z) = LenBytes
  <2>1. z \in [1 .. LenBytes -> Bytes]
    BY <1>2
  <2> HIDE DEF z
  <2> QED BY <1>1, <2>1
<1>4. \A i \in 1 .. LenBytes : z[i] = (len \div Place[i - 1]) % Byte
  OBVIOUS
<1> HIDE DEF z
<1>5. /\ <<0>> \o z \in Seq(Bytes) /\ Len(<<0>> \o z) = 1 + LenBytes /\ (<<0>> \o z)[1] = 0
      /\ \A i \in 1 .. LenBytes : (<<0>> \o z)[i + 1] = z[i]
  BY <1>1, <1>3
<1>6. Header(len) = <<0>> \o z
  BY DEF Header, z
<1> QED BY <1>4, <1>5, <1>6

(* A length that fits its field is read as it was written. *)
LEMMA LengthOfHeader ==
  ASSUME NEW len \in Nat, len < Place[LenBytes]
  PROVE  Length(Header(len)) = len
<1>1. LenBytes \in Nat /\ Byte \in Nat \ {0}
  BY NewtAssumption
<1>2. PICK hed : hed = Header(len)
  OBVIOUS
<1>3. \A i \in 1 .. LenBytes : hed[i + 1] = (len \div Place[i - 1]) % Byte
  BY <1>2, HeaderFacts
<1>4. \A i \in 1 .. LenBytes :
        /\ Place[i - 1] \in Nat \ {0} /\ Place[i] = Byte * Place[i - 1] /\ Place[i] \in Nat \ {0}
  BY <1>1, PlaceFacts
<1>5. ASSUME NEW i \in 1 .. LenBytes
      PROVE  /\ hed[i + 1] \in Nat
             /\ Place[i - 1] * (len \div Place[i - 1])
                  = Place[i] * (len \div Place[i]) + hed[i + 1] * Place[i - 1]
  <2>1. PICK p \in Nat \ {0} : p = Place[i - 1] /\ Place[i] = Byte * p
    BY <1>4
  <2>2. PICK d \in Nat : /\ (len \div p) % Byte = d
                         /\ p * (len \div p) = (Byte * p) * (len \div (Byte * p)) + d * p
    BY <1>1, NestedDiv, ZenonT(60)
  <2>3. hed[i + 1] = d
    BY <2>1, <2>2, <1>3
  <2> QED BY <2>1, <2>2, <2>3
<1>6. PICK met \in [0 .. LenBytes -> Nat] :
            /\ met[0] = 0 /\ Length(hed) = met[LenBytes]
            /\ \A i \in 1 .. LenBytes : met[i] = met[i - 1] + hed[i + 1] * Place[i - 1]
  BY <1>5, LengthSum
<1> DEFINE T == {n \in Nat : n <= LenBytes => met[n] + Place[n] * (len \div Place[n]) = len}
<1>7. 0 \in T
  <2>1. Place[0] = 1 /\ len \div 1 = len
    BY PlaceFacts
  <2> QED BY <2>1, <1>6
<1>8. ASSUME NEW n \in T PROVE n + 1 \in T
  <2>1. SUFFICES ASSUME n + 1 <= LenBytes
                 PROVE  met[n + 1] + Place[n + 1] * (len \div Place[n + 1]) = len
    OBVIOUS
  <2>2. n + 1 \in 1 .. LenBytes /\ (n + 1) - 1 = n /\ n \in 0 .. LenBytes /\ n + 1 \in 0 .. LenBytes
    BY <2>1, <1>1
  <2>3. PICK a \in Nat, b \in Nat, x \in Nat, y \in Nat, z \in Nat :
          /\ a = met[n] /\ b = met[n + 1] /\ x = Place[n] * (len \div Place[n])
          /\ y = Place[n + 1] * (len \div Place[n + 1]) /\ z = hed[(n + 1) + 1] * Place[n]
    <3>1. met[n] \in Nat /\ met[n + 1] \in Nat
      BY <2>2, <1>6
    <3>2. PICK p \in Nat \ {0}, p1 \in Nat \ {0} : p = Place[n] /\ p1 = Place[n + 1]
      BY <2>2, <1>4
    <3>3. PICK q \in Nat, q1 \in Nat : q = len \div p /\ q1 = len \div p1
      BY DivMod
    <3>4. p * q \in Nat /\ p1 * q1 \in Nat
      OBVIOUS
    <3>5. PICK d \in Nat : d = hed[(n + 1) + 1]
      BY <2>2, <1>5
    <3>6. d * p \in Nat
      OBVIOUS
    <3> QED BY <3>1, <3>2, <3>3, <3>4, <3>5, <3>6
  <2>4. x = y + z
    BY <2>2, <2>3, <1>5
  <2>5. b = a + z
    BY <2>2, <2>3, <1>6
  <2>6. a + x = len
    BY <1>8, <2>1, <2>3, <1>1
  <2>7. b + y = len
    BY <2>4, <2>5, <2>6
  <2> QED BY <2>3, <2>7
<1>9. LenBytes \in T
  <2>1. T \in SUBSET Nat
    OBVIOUS
  <2> HIDE DEF T
  <2> QED BY <1>1, <1>7, <1>8, <2>1, Induct
<1>10. met[LenBytes] + Place[LenBytes] * (len \div Place[LenBytes]) = len
  BY <1>9, <1>1
<1>11. len \div Place[LenBytes] = 0
  <2>1. PICK p \in Nat \ {0} : p = Place[LenBytes]
    BY <1>1, PlaceFacts
  <2>2. len = p * 0 + len /\ len < p
    BY <2>1
  <2>3. len \div p = 0
    BY <2>2
  <2> QED BY <2>1, <2>3
<1>12. Place[LenBytes] \in Nat /\ met[LenBytes] \in Nat
  BY <1>1, <1>6, PlaceFacts
<1> QED BY <1>2, <1>6, <1>10, <1>11, <1>12

LEMMA LengthOfZeros ==
  ASSUME NEW hed, \A i \in 1 .. LenBytes : hed[i + 1] = 0
  PROVE  Length(hed) = 0
<1>1. LenBytes \in Nat
  BY NewtAssumption
<1>2. PICK met \in [0 .. LenBytes -> Nat] :
            /\ met[0] = 0 /\ Length(hed) = met[LenBytes]
            /\ \A i \in 1 .. LenBytes : met[i] = met[i - 1] + hed[i + 1] * Place[i - 1]
  BY LengthSum, SMTT(30)
<1> DEFINE T == {n \in Nat : n <= LenBytes => met[n] = 0}
<1>3. 0 \in T
  BY <1>2
<1>4. ASSUME NEW n \in T PROVE n + 1 \in T
  <2>1. SUFFICES ASSUME n + 1 <= LenBytes PROVE met[n + 1] = 0
    OBVIOUS
  <2>2. n + 1 \in 1 .. LenBytes /\ (n + 1) - 1 = n /\ n \in 0 .. LenBytes
    BY <2>1, <1>1
  <2>3. PICK p \in Nat : p = Place[n]
    BY <2>2, PlaceFacts
  <2>4. met[n + 1] = met[n] + 0 * p
    BY <2>2, <2>3, <1>2
  <2>5. met[n] = 0
    BY <2>1, <1>4, <1>1
  <2> QED BY <2>4, <2>5
<1>5. LenBytes \in T
  <2>1. T \in SUBSET Nat
    OBVIOUS
  <2> HIDE DEF T
  <2> QED BY <1>1, <1>3, <1>4, <2>1, Induct
<1> QED BY <1>1, <1>2, <1>5

-----------------------------------------------------------------------------
(* The decoder *)

(* Two ways to cut a sequence at the same place are one. *)
LEMMA Cut ==
  ASSUME NEW S, NEW s \in Seq(S), NEW t \in Seq(S), NEW u \in Seq(S), NEW v \in Seq(S),
         Len(s) = Len(u), s \o t = u \o v
  PROVE  s = u /\ t = v
<1>1. PICK a \in Nat, b \in Nat, c \in Nat : a = Len(s) /\ a = Len(u) /\ b = Len(t) /\ c = Len(v)
  BY LenProperties
<1>2. /\ Len(s \o t) = a + b /\ Len(u \o v) = a + c
      /\ \A i \in 1 .. a + b : (s \o t)[i] = IF i <= a THEN s[i] ELSE t[i - a]
      /\ \A i \in 1 .. a + c : (u \o v)[i] = IF i <= a THEN u[i] ELSE v[i - a]
  <2>1. /\ Len(s \o t) = Len(s) + Len(t)
        /\ \A i \in 1 .. Len(s) + Len(t) : (s \o t)[i] = IF i <= Len(s) THEN s[i] ELSE t[i - Len(s)]
    BY ONLY ConcatProperties, s \in Seq(S), t \in Seq(S)
  <2>2. /\ Len(u \o v) = Len(u) + Len(v)
        /\ \A i \in 1 .. Len(u) + Len(v) : (u \o v)[i] = IF i <= Len(u) THEN u[i] ELSE v[i - Len(u)]
    BY ONLY ConcatProperties, u \in Seq(S), v \in Seq(S)
  <2> QED BY ONLY <2>1, <2>2, <1>1, SMTT(30)
<1>3. b = c
  BY <1>2
<1>4. ASSUME NEW i \in 1 .. a PROVE s[i] = u[i]
  <2>1. i \in 1 .. a + b /\ i <= a
    OBVIOUS
  <2> QED BY <2>1, <1>2, <1>3
<1>5. ASSUME NEW i \in 1 .. b PROVE t[i] = v[i]
  <2>1. i + a \in 1 .. a + b /\ ~(i + a <= a) /\ (i + a) - a = i
    OBVIOUS
  <2> QED BY <2>1, <1>2, <1>3
<1>6. s = u
  BY <1>1, <1>4, SeqEqual
<1>7. t = v
  BY <1>1, <1>3, <1>5, SeqEqual
<1> QED BY <1>6, <1>7

(* Concatenation of bytes, as the laws below and nothing else. *)
Cat(s, t) == s \o t

LEMMA CatType == ASSUME NEW x \in Seq(Bytes), NEW y \in Seq(Bytes) PROVE Cat(x, y) \in Seq(Bytes)
  BY ConcatProperties DEF Cat

LEMMA CatLen ==
  ASSUME NEW x \in Seq(Bytes), NEW y \in Seq(Bytes)
  PROVE  Len(Cat(x, y)) = Len(x) + Len(y)
  BY ConcatProperties DEF Cat

LEMMA CatAssoc ==
  ASSUME NEW x \in Seq(Bytes), NEW y \in Seq(Bytes), NEW z \in Seq(Bytes)
  PROVE  Cat(Cat(x, y), z) = Cat(x, Cat(y, z))
  BY ConcatAssociative, SMTT(30) DEF Cat

LEMMA CatEmpty == ASSUME NEW x \in Seq(Bytes) PROVE Cat(x, <<>>) = x /\ Cat(<<>>, x) = x
  BY ConcatEmptySeq DEF Cat

LEMMA CatCut ==
  ASSUME NEW x \in Seq(Bytes), NEW y \in Seq(Bytes), NEW z \in Seq(Bytes), NEW w \in Seq(Bytes),
         Len(x) = Len(z), Cat(x, y) = Cat(z, w)
  PROVE  x = z /\ y = w
<1>1. x \o y = z \o w
  BY DEF Cat
<1> QED BY ONLY <1>1, x \in Seq(Bytes), y \in Seq(Bytes), z \in Seq(Bytes), w \in Seq(Bytes),
                Len(x) = Len(z), Cut

Mess == [sat : {"head", "tail"}, has : Seq(Bytes), len : Nat]

(* What is in progress is not complete. *)
MessOK(m) == m \in Mess /\ Len(m.has) < m.len /\ (m.sat = "head" => m.len = 1 + LenBytes)

Decs == [mes : {m \in Mess : MessOK(m)}, ext : Seq(Seq(Bytes)), ok : BOOLEAN, buf : Seq(Bytes)]

LEMMA MessFacts ==
  /\ MessOK(MessHead) /\ MessHead.sat = "head" /\ MessHead.has = <<>>
  /\ \A n \in Nat \ {0} : /\ MessOK(MessTail(n)) /\ MessTail(n).sat = "tail"
                          /\ MessTail(n).has = <<>> /\ MessTail(n).len = n
<1>1. LenBytes \in Nat
  BY NewtAssumption
<1>2. <<>> \in Seq(Bytes) /\ Len(<<>>) = 0
  OBVIOUS
<1>3. MessHead \in Mess /\ MessHead.sat = "head" /\ MessHead.has = <<>> /\ MessHead.len = 1 + LenBytes
  BY <1>1, <1>2 DEF MessHead, Mess
<1>4. ASSUME NEW n \in Nat \ {0}
      PROVE  MessTail(n) \in Mess /\ MessTail(n).sat = "tail" /\ MessTail(n).has = <<>> /\ MessTail(n).len = n
  BY <1>2 DEF MessTail, Mess
<1>5. \A n \in Nat \ {0} : 0 < n
  OBVIOUS
<1> HIDE DEF MessHead, MessTail
<1>6. MessOK(MessHead)
  BY <1>1, <1>2, <1>3 DEF MessOK
<1>7. ASSUME NEW n \in Nat \ {0} PROVE MessOK(MessTail(n))
  BY <1>2, <1>4, <1>5 DEF MessOK
<1> QED BY <1>3, <1>4, <1>6, <1>7

(* The part of the buffer that what is in progress takes. *)
LEMMA FillFacts ==
  ASSUME NEW m, MessOK(m), NEW buf \in Seq(Bytes), buf # <<>>
  PROVE  \E has \in Seq(Bytes), cop \in Nat \ {0} :
            /\ Fill(m, buf) = [sat |-> m.sat, has |-> has, len |-> m.len]
            /\ Len(has) = Len(m.has) + cop /\ cop <= Len(buf) /\ Len(has) <= m.len
            /\ Cat(has, SubSeq(buf, cop + 1, Len(buf))) = Cat(m.has, buf)
<1>1. m \in Mess /\ m.has \in Seq(Bytes) /\ m.len \in Nat
  BY DEF MessOK, Mess
<1>2. PICK h0 \in Nat, n \in Nat, l \in Nat \ {0} : h0 = Len(m.has) /\ n = m.len /\ l = Len(buf) /\ h0 < n
  BY <1>1, EmptySeq, LenProperties DEF MessOK
<1>3. PICK cop \in Nat \ {0} : cop = Min({n - h0, l}) /\ cop <= l /\ h0 + cop <= n
  <2>1. CASE n - h0 <= l
    <3>1. n - h0 \in {n - h0, l} /\ \A y \in {n - h0, l} : n - h0 <= y
      BY <2>1, <1>2
    <3>2. \A x \in {n - h0, l} : (\A y \in {n - h0, l} : x <= y) => x = n - h0
      BY <3>1, <1>2
    <3>3. Min({n - h0, l}) = n - h0
      BY <3>1, <3>2 DEF Min
    <3> QED BY <2>1, <3>3, <1>2
  <2>2. CASE l < n - h0
    <3>1. l \in {n - h0, l} /\ \A y \in {n - h0, l} : l <= y
      BY <2>2, <1>2
    <3>2. \A x \in {n - h0, l} : (\A y \in {n - h0, l} : x <= y) => x = l
      BY <3>1, <1>2
    <3>3. Min({n - h0, l}) = l
      BY <3>1, <3>2 DEF Min
    <3> QED BY <2>2, <3>3, <1>2
  <2>3. n - h0 <= l \/ l < n - h0
    BY <1>2
  <2> QED BY ONLY <2>1, <2>2, <2>3
<1>4. PICK a : a = SubSeq(buf, 1, cop)
  OBVIOUS
<1>5. PICK b : b = SubSeq(buf, cop + 1, l)
  OBVIOUS
<1>6. a \in Seq(Bytes) /\ Len(a) = cop
  <2>1. \A i \in 1 .. cop : buf[i] \in Bytes
    BY <1>2, <1>3
  <2>2. 1 \in Int /\ cop \in Int /\ 1 <= cop /\ cop - 1 + 1 = cop
    BY <1>3
  <2> QED BY <1>4, <2>1, <2>2, SubSeqProperties
<1>7. b \in Seq(Bytes)
  <2>1. \A i \in cop + 1 .. l : buf[i] \in Bytes
    BY <1>2, <1>3
  <2>2. cop + 1 \in Int /\ l \in Int
    BY <1>2, <1>3
  <2> QED BY <1>5, <2>1, <2>2, SubSeqProperties
<1>8. Cat(a, b) = buf
  <2>1. SubSeq(buf, 1, cop) \o SubSeq(buf, cop + 1, l) = SubSeq(buf, 1, l)
    <3>1. 1 \in 1 .. Len(buf) + 1 /\ cop \in 1 - 1 .. Len(buf) /\ l \in cop .. Len(buf)
      BY <1>2, <1>3
    <3> QED BY <3>1, <1>2, ConcatAdjacentSubSeq
  <2>2. SubSeq(buf, 1, l) = buf
    BY <1>2, SubSeqFull
  <2> QED BY <2>1, <2>2, <1>4, <1>5 DEF Cat
<1>9. PICK has : has = Cat(m.has, a)
  OBVIOUS
<1>10. has \in Seq(Bytes) /\ Len(has) = h0 + cop
  BY <1>1, <1>2, <1>6, <1>9, CatType, CatLen
<1>11. Cat(has, b) = Cat(m.has, buf)
  BY <1>1, <1>6, <1>7, <1>8, <1>9, CatAssoc
<1>12. Fill(m, buf) = [m EXCEPT !.has = has]
  <2>1. has = m.has \o SubSeq(buf, 1, cop)
    BY <1>4, <1>9 DEF Cat
  <2> QED BY <2>1, <1>2, <1>3 DEF Fill
<1>13. [m EXCEPT !.has = has] = [sat |-> m.sat, has |-> has, len |-> m.len]
  BY <1>1 DEF Mess
<1> QED BY <1>2, <1>3, <1>5, <1>10, <1>11, <1>12, <1>13

(* What a turn of the decoder's loop does, by what it has after it. *)
Outcome(d, e, has) ==
  \/ /\ Len(has) < d.mes.len
     /\ e.mes = [sat |-> d.mes.sat, has |-> has, len |-> d.mes.len]
     /\ e.ext = d.ext /\ e.ok = d.ok
  \/ /\ Len(has) = d.mes.len /\ d.mes.sat = "tail"
     /\ e.mes = MessHead /\ e.ext = Append(d.ext, has) /\ e.ok = d.ok
  \/ /\ Len(has) = d.mes.len /\ d.mes.sat = "head" /\ (has[1] # 0 \/ Length(has) = 0)
     /\ e.mes = d.mes /\ e.ext = d.ext /\ e.ok = FALSE
  \/ /\ Len(has) = d.mes.len /\ d.mes.sat = "head" /\ has[1] = 0 /\ Length(has) # 0
     /\ e.mes = MessTail(Length(has)) /\ e.ext = d.ext /\ e.ok = d.ok

LEMMA LengthType ==
  ASSUME NEW has \in Seq(Bytes), Len(has) = 1 + LenBytes
  PROVE  Length(has) \in Nat
<1>1. LenBytes \in Nat /\ Bytes \subseteq Nat
  BY NewtAssumption DEF Bytes
<1>2. \A i \in 1 .. LenBytes : i + 1 \in 1 .. Len(has)
  BY <1>1
<1>3. \A i \in 1 .. LenBytes : has[i + 1] \in Nat
  <2>1. \A j \in 1 .. Len(has) : has[j] \in Bytes
    OBVIOUS
  <2> QED BY <2>1, <1>1, <1>2
<1>4. LenBytes \in 0 .. LenBytes
  BY <1>1
<1> QED BY <1>3, <1>4, LengthSum

LEMMA DecFacts ==
  ASSUME NEW d \in Decs
  PROVE  /\ MessOK(d.mes) /\ d.ext \in Seq(Seq(Bytes)) /\ d.ok \in BOOLEAN /\ d.buf \in Seq(Bytes)
         /\ d.mes \in Mess /\ d.mes.has \in Seq(Bytes) /\ d.mes.len \in Nat
         /\ d.mes.sat \in {"head", "tail"}
<1>1. MessOK(d.mes) /\ d.ext \in Seq(Seq(Bytes)) /\ d.ok \in BOOLEAN /\ d.buf \in Seq(Bytes)
  BY DEF Decs
<1> QED BY <1>1 DEF MessOK, Mess

LEMMA TurnFacts ==
  ASSUME NEW d \in Decs, d.buf # <<>>
  PROVE  /\ \E has, rest \in Seq(Bytes) :
               /\ Cat(has, rest) = Cat(d.mes.has, d.buf)
               /\ Turn(d).buf = rest /\ Len(rest) < Len(d.buf) /\ Outcome(d, Turn(d), has)
         /\ Turn(d) \in Decs
<1>1. /\ MessOK(d.mes) /\ d.ext \in Seq(Seq(Bytes)) /\ d.ok \in BOOLEAN /\ d.buf \in Seq(Bytes)
      /\ d.mes.has \in Seq(Bytes) /\ d.mes.len \in Nat /\ d.mes.sat \in {"head", "tail"}
  BY DecFacts
<1>2. PICK has \in Seq(Bytes), cop \in Nat \ {0} :
            /\ Fill(d.mes, d.buf) = [sat |-> d.mes.sat, has |-> has, len |-> d.mes.len]
            /\ Len(has) = Len(d.mes.has) + cop /\ cop <= Len(d.buf) /\ Len(has) <= d.mes.len
            /\ Cat(has, SubSeq(d.buf, cop + 1, Len(d.buf))) = Cat(d.mes.has, d.buf)
  BY <1>1, FillFacts
<1>3. PICK rest : rest = SubSeq(d.buf, cop + 1, Len(d.buf))
  OBVIOUS
<1>4. rest \in Seq(Bytes) /\ Len(rest) < Len(d.buf)
  <2>1. PICK l \in Nat : l = Len(d.buf)
    BY <1>1
  <2>2. \A i \in cop + 1 .. l : d.buf[i] \in Bytes
    BY <2>1, <1>1
  <2>3. cop + 1 \in Int /\ l \in Int /\ cop <= l
    BY <2>1, <1>2
  <2>4. rest \in Seq(Bytes) /\ Len(rest) = IF cop + 1 <= l THEN l - (cop + 1) + 1 ELSE 0
    BY <2>1, <2>2, <2>3, <1>3, SubSeqProperties
  <2> QED BY <2>1, <2>3, <2>4
<1>5. PICK s : s = Fill(d.mes, d.buf) /\ s.sat = d.mes.sat /\ s.has = has /\ s.len = d.mes.len
  <2>1. PICK s : s = Fill(d.mes, d.buf)
    OBVIOUS
  <2>2. s = [sat |-> d.mes.sat, has |-> has, len |-> d.mes.len]
    BY <2>1, <1>2
  <2> QED BY <2>1, <2>2
<1>6. SubSeq(d.buf, Len(s.has) - Len(d.mes.has) + 1, Len(d.buf)) = rest
  <2>1. PICK a \in Nat : a = Len(d.mes.has)
    BY <1>1
  <2>2. Len(s.has) - Len(d.mes.has) + 1 = cop + 1
    <3>1. Len(s.has) = a + cop
      BY <2>1, <1>2, <1>5, Zenon
    <3>2. (a + cop) - a + 1 = cop + 1
      OBVIOUS
    <3> QED BY ONLY <3>1, <3>2, <2>1
  <2> QED BY <2>2, <1>3
<1>7. PICK n \in Nat : n = Length(has) \/ Len(has) # d.mes.len \/ d.mes.sat # "head"
  <2>1. Len(has) = d.mes.len /\ d.mes.sat = "head" => Length(has) \in Nat
    BY <1>1, LengthType DEF MessOK
  <2> QED BY <2>1
<1>8. DOMAIN d = {"mes", "ext", "ok", "buf"} /\ d = [mes |-> d.mes, ext |-> d.ext, ok |-> d.ok, buf |-> d.buf]
  BY DEF Decs
<1>9. CASE Len(has) < d.mes.len
  <2>1. PICK m : m = [sat |-> d.mes.sat, has |-> has, len |-> d.mes.len]
    OBVIOUS
  <2>2. s = m
    BY <2>1, <1>2, <1>5, Zenon
  <2>3. MessOK(m) /\ m \in Mess
    <3>1. m \in Mess /\ m.has = has /\ m.len = d.mes.len /\ m.sat = d.mes.sat
      BY <2>1, <1>1, <1>2 DEF Mess
    <3> QED BY <3>1, <1>1, <1>9 DEF MessOK
  <2>4. Turn(d) = [[d EXCEPT !.mes = m] EXCEPT !.buf = rest]
    BY <2>2, <1>5, <1>6, <1>9 DEF Turn
  <2>5. Turn(d) = [mes |-> m, ext |-> d.ext, ok |-> d.ok, buf |-> rest]
    BY <2>4, <1>8
  <2>6. Turn(d) \in Decs
    BY <2>3, <2>5, <1>1, <1>4 DEF Decs
  <2>7. Outcome(d, Turn(d), has) /\ Turn(d).buf = rest
    BY <2>1, <2>5, <1>9 DEF Outcome
  <2> QED BY <2>6, <2>7, <1>2, <1>3, <1>4
<1>10. CASE Len(has) = d.mes.len /\ d.mes.sat = "tail"
  <2>1. ~(Len(s.has) < s.len) /\ s.sat = "tail"
    BY <1>1, <1>5, <1>10
  <2>2. Turn(d) = [[d EXCEPT !.ext = Append(@, has), !.mes = MessHead] EXCEPT !.buf = rest]
    BY <2>1, <1>5, <1>6 DEF Turn
  <2>3. Turn(d) = [mes |-> MessHead, ext |-> Append(d.ext, has), ok |-> d.ok, buf |-> rest]
    BY <2>2, <1>8
  <2>4. Append(d.ext, has) \in Seq(Seq(Bytes)) /\ MessOK(MessHead) /\ MessHead \in Mess
    BY <1>1, <1>2, MessFacts DEF MessOK
  <2>5. Turn(d) \in Decs
    BY <2>3, <2>4, <1>1, <1>4 DEF Decs
  <2>6. Outcome(d, Turn(d), has) /\ Turn(d).buf = rest
    BY <2>3, <1>10 DEF Outcome
  <2> QED BY <2>5, <2>6, <1>2, <1>3, <1>4
<1>11. CASE Len(has) = d.mes.len /\ d.mes.sat = "head" /\ (has[1] # 0 \/ Length(has) = 0)
  <2>1. ~(Len(s.has) < s.len) /\ s.sat # "tail" /\ (s.has[1] # 0 \/ Length(s.has) = 0)
    BY <1>1, <1>5, <1>11
  <2>2. Turn(d) = [[d EXCEPT !.ok = FALSE] EXCEPT !.buf = rest]
    BY <2>1, <1>5, <1>6 DEF Turn
  <2>3. Turn(d) = [mes |-> d.mes, ext |-> d.ext, ok |-> FALSE, buf |-> rest]
    BY <2>2, <1>8
  <2>4. d.mes \in Mess
    BY <1>1 DEF MessOK
  <2>5. Turn(d) \in Decs
    BY <2>3, <2>4, <1>1, <1>4 DEF Decs
  <2>6. Outcome(d, Turn(d), has) /\ Turn(d).buf = rest
    <3>1. Turn(d).mes = d.mes /\ Turn(d).ext = d.ext /\ Turn(d).buf = rest
      BY <2>3
    <3>2. Turn(d).ok = FALSE
      BY <2>3
    <3> QED BY <3>1, <3>2, <1>11 DEF Outcome
  <2> QED BY <2>5, <2>6, <1>2, <1>3, <1>4
<1>12. CASE Len(has) = d.mes.len /\ d.mes.sat = "head" /\ has[1] = 0 /\ Length(has) # 0
  <2>1. ~(Len(s.has) < s.len) /\ s.sat # "tail" /\ s.has[1] = 0 /\ Length(s.has) # 0
    BY <1>1, <1>5, <1>12
  <2>2. Turn(d) = [[d EXCEPT !.mes = MessTail(Length(has))] EXCEPT !.buf = rest]
    BY <2>1, <1>5, <1>6 DEF Turn
  <2>3. Turn(d) = [mes |-> MessTail(Length(has)), ext |-> d.ext, ok |-> d.ok, buf |-> rest]
    BY <2>2, <1>8
  <2>4. n = Length(has) /\ n \in Nat \ {0}
    BY <1>7, <1>12
  <2>5. MessOK(MessTail(n)) /\ MessTail(n) \in Mess
    BY <2>4, MessFacts DEF MessOK
  <2>6. Turn(d) \in Decs
    BY <2>3, <2>4, <2>5, <1>1, <1>4 DEF Decs
  <2>7. Outcome(d, Turn(d), has) /\ Turn(d).buf = rest
    BY <2>3, <1>12 DEF Outcome
  <2> QED BY <2>6, <2>7, <1>2, <1>3, <1>4
<1> QED BY <1>1, <1>2, <1>9, <1>10, <1>11, <1>12, SMTT(30)

-----------------------------------------------------------------------------
(* The stream *)

(* What a client that does not know the protocol writes, or nothing. *)
JunkFrame(J) ==
  \/ J = <<>>
  \/ J \in Seq(Bytes) /\ Len(J) = 1 + LenBytes /\ \A i \in 1 .. LenBytes : J[i + 1] = 0

(* R[i] is what follows the first i of the messages s in the stream. *)
Frames(R, s, J) ==
  /\ R \in [0 .. Len(s) -> Seq(Bytes)] /\ R[Len(s)] = J
  /\ \A i \in 1 .. Len(s) : R[i - 1] = Cat(Header(Len(s[i])), Cat(s[i], R[i]))

(* With j messages complete, what is in progress and the bytes x to come   *)
(* are the rest of the stream.                                             *)
Held(m, x, s, R, j) ==
  IF m.sat = "head" THEN Cat(m.has, x) = R[j]
  ELSE j < Len(s) /\ m.len = Len(s[j + 1]) /\ Cat(m.has, x) = Cat(s[j + 1], R[j + 1])

(* After g messages that were handed over, the queue holds the next ones.  *)
Queue(q, s, g) ==
  g + Len(q) <= Len(s) /\ \A i \in 1 .. Len(q) : q[i] = s[g + i]

Fits(d, w, s, R, g) ==
  /\ Queue(d.ext, s, g)
  /\ d.ok => Held(d.mes, Cat(d.buf, w), s, R, g + Len(d.ext))

LEMMA SentMessage ==
  ASSUME NEW s \in Seq(Messages), NEW i \in 1 .. Len(s)
  PROVE  /\ s[i] \in Seq(Bytes) /\ Len(s[i]) \in Nat \ {0} /\ Len(s[i]) < Place[LenBytes]
         /\ Header(Len(s[i])) \in Seq(Bytes) /\ Len(Header(Len(s[i]))) = 1 + LenBytes
         /\ Header(Len(s[i]))[1] = 0 /\ Length(Header(Len(s[i]))) = Len(s[i])
<1>1. s[i] \in Messages
  OBVIOUS
<1>2. s[i] \in Seq(Bytes) /\ Len(s[i]) \in 1 .. Place[LenBytes] - 1
  BY <1>1, NewtAssumption
<1>3. PICK p \in Nat, n \in Nat : p = Place[LenBytes] /\ n = Len(s[i])
  <2>1. LenBytes \in 0 .. LenBytes
    BY NewtAssumption
  <2>2. Place[LenBytes] \in Nat
    BY <2>1, PlaceFacts
  <2> QED BY <2>2, <1>2
<1>4. n # 0 /\ n < p
  BY <1>2, <1>3
<1> QED BY <1>2, <1>3, <1>4, HeaderFacts, LengthOfHeader

(* A turn of the loop keeps to the stream: a header is read as the length  *)
(* of the next message, or as wrong where there is none.                   *)
LEMMA TurnFits ==
  ASSUME NEW d \in Decs, d.buf # <<>>, d.ok, NEW w \in Seq(Bytes), NEW s \in Seq(Messages),
         NEW R, NEW J, Frames(R, s, J), JunkFrame(J), NEW g \in Nat, Fits(d, w, s, R, g)
  PROVE  Fits(Turn(d), w, s, R, g)
<1>1. PICK has \in Seq(Bytes), rest \in Seq(Bytes) :
               /\ Cat(has, rest) = Cat(d.mes.has, d.buf)
               /\ Turn(d).buf = rest /\ Outcome(d, Turn(d), has)
  BY TurnFacts
<1>2. PICK e : e = Turn(d)
  OBVIOUS
<1>3. PICK x \in Seq(Bytes) : x = Cat(rest, w)
  BY <1>1, CatType
<1>4. /\ d.mes.has \in Seq(Bytes) /\ d.buf \in Seq(Bytes) /\ d.ext \in Seq(Seq(Bytes)) /\ MessOK(d.mes)
      /\ d.mes.len \in Nat /\ d.mes.sat \in {"head", "tail"}
  BY DecFacts
<1>5. Cat(has, x) = Cat(d.mes.has, Cat(d.buf, w))
  <2>1. Cat(Cat(has, rest), w) = Cat(has, Cat(rest, w))
    BY <1>1, CatAssoc
  <2>2. Cat(Cat(d.mes.has, d.buf), w) = Cat(d.mes.has, Cat(d.buf, w))
    BY <1>4, CatAssoc
  <2> QED BY <2>1, <2>2, <1>1, <1>3
<1>6. PICK n \in Nat, l \in Nat : n = Len(s) /\ l = Len(d.ext)
  BY <1>4, LenProperties
<1>7. PICK j \in Nat : j = g + l
  OBVIOUS
<1>8. /\ j <= n /\ (\A i \in 1 .. l : d.ext[i] = s[g + i])
      /\ Held(d.mes, Cat(d.buf, w), s, R, j)
  BY <1>6, <1>7 DEF Fits, Queue
<1>9. /\ R[n] = J /\ (\A i \in 0 .. n : R[i] \in Seq(Bytes))
      /\ \A i \in 1 .. n : R[i - 1] = Cat(Header(Len(s[i])), Cat(s[i], R[i]))
  BY <1>6 DEF Frames
<1>10. e.buf = rest /\ Cat(e.buf, w) = x
  BY <1>1, <1>2, <1>3
<1>11. ASSUME e.ext = d.ext, e.ok => Held(e.mes, x, s, R, j) PROVE Fits(e, w, s, R, g)
  <2>1. Queue(e.ext, s, g) /\ g + Len(e.ext) = j
    BY <1>6, <1>7, <1>11 DEF Fits
  <2> QED BY <2>1, <1>10, <1>11 DEF Fits
<1>12. CASE /\ e.mes = [sat |-> d.mes.sat, has |-> has, len |-> d.mes.len]
            /\ e.ext = d.ext
  <2>1. e.mes.sat = d.mes.sat /\ e.mes.has = has /\ e.mes.len = d.mes.len
    BY <1>12
  <2>2. Held(e.mes, x, s, R, j)
    BY <2>1, <1>5, <1>8 DEF Held
  <2> QED BY <2>2, <1>2, <1>11, <1>12
<1>13. CASE /\ Len(has) = d.mes.len /\ d.mes.sat = "tail"
            /\ e.mes = MessHead /\ e.ext = Append(d.ext, has)
  <2>1. j < n /\ Len(has) = Len(s[j + 1]) /\ Cat(has, x) = Cat(s[j + 1], R[j + 1])
    BY <1>5, <1>6, <1>8, <1>13 DEF Held
  <2>2. j + 1 \in 1 .. n /\ j + 1 \in 0 .. n
    BY <2>1
  <2>3. s[j + 1] \in Seq(Bytes) /\ R[j + 1] \in Seq(Bytes)
    BY <2>2, <1>6, <1>9, SentMessage
  <2>4. has = s[j + 1] /\ x = R[j + 1]
    BY <2>1, <2>3, CatCut, SMTT(30)
  <2>5. Len(e.ext) = l + 1 /\ e.ext[l + 1] = has /\ \A i \in 1 .. l : e.ext[i] = d.ext[i]
    BY <1>4, <1>6, <1>13
  <2>6. g + (l + 1) = j + 1 /\ j + 1 <= n
    BY <2>2, <1>7
  <2>7. \A i \in 1 .. l + 1 : i \in 1 .. l \/ i = l + 1
    OBVIOUS
  <2>8. \A i \in 1 .. l + 1 : e.ext[i] = s[g + i]
    BY <2>4, <2>5, <2>6, <2>7, <1>8
  <2>9. Queue(e.ext, s, g)
    BY <2>5, <2>6, <2>8, <1>6 DEF Queue
  <2>10. e.mes.sat = "head" /\ e.mes.has = <<>>
    BY <1>13, MessFacts
  <2>11. Cat(<<>>, x) = R[j + 1]
    BY <2>4, CatEmpty
  <2>12. Held(e.mes, x, s, R, j + 1)
    BY <2>10, <2>11 DEF Held
  <2>13. g + Len(e.ext) = j + 1
    BY <2>5, <2>6
  <2> QED BY <2>9, <2>12, <2>13, <1>2, <1>10 DEF Fits
<1>14. ASSUME Len(has) = d.mes.len, d.mes.sat = "head"
       PROVE  \/ has[1] = 0 /\ Length(has) # 0
                 /\ Held(MessTail(Length(has)), x, s, R, j)
              \/ has[1] # 0 \/ Length(has) = 0
  <2>1. Len(has) = 1 + LenBytes /\ Cat(has, x) = R[j]
    BY <1>4, <1>5, <1>8, <1>14 DEF Held, MessOK
  <2>2. CASE j < n
    <3>1. j + 1 \in 1 .. n /\ j + 1 \in 0 .. n /\ (j + 1) - 1 = j
      BY <2>2
    <3>2. PICK m \in Seq(Bytes), hd \in Seq(Bytes), r \in Seq(Bytes) :
            /\ m = s[j + 1] /\ hd = Header(Len(m)) /\ r = R[j + 1] /\ Len(m) \in Nat \ {0}
            /\ Len(hd) = 1 + LenBytes /\ hd[1] = 0 /\ Length(hd) = Len(m)
      BY <3>1, <1>6, <1>9, SentMessage, SMTT(30)
    <3>3. R[j] = Cat(hd, Cat(m, r))
      BY <3>1, <3>2, <1>9
    <3>4. Cat(m, r) \in Seq(Bytes)
      BY <3>2, CatType
    <3>5. has = hd /\ x = Cat(m, r)
      BY <2>1, <3>2, <3>3, <3>4, CatCut
    <3>6. PICK k \in Nat \ {0} : k = Len(m) /\ k = Length(has)
      BY <3>2, <3>5
    <3>7. MessTail(k).sat = "tail" /\ MessTail(k).has = <<>> /\ MessTail(k).len = k
      BY <3>6, MessFacts, SMTT(30)
    <3>8. Cat(<<>>, x) = Cat(s[j + 1], R[j + 1])
      BY <3>2, <3>5, CatEmpty
    <3>9. Held(MessTail(k), x, s, R, j)
      BY <3>2, <3>6, <3>7, <3>8, <2>2, <1>6 DEF Held
    <3> QED BY <3>2, <3>5, <3>6, <3>9
  <2>3. CASE j = n
    <3>1. Cat(has, x) = J
      BY <2>1, <2>3, <1>9
    <3>2. PICK a \in Nat, b \in Nat : a = LenBytes /\ b = Len(x) /\ Len(Cat(has, x)) = (1 + a) + b
      <4>1. LenBytes \in Nat /\ Len(x) \in Nat
        BY <1>3, NewtAssumption, LenProperties
      <4>2. Len(Cat(has, x)) = Len(has) + Len(x)
        BY <1>1, <1>3, CatLen
      <4> QED BY <4>1, <4>2, <2>1
    <3>3. CASE J = <<>>
      <4>1. Len(J) = 0
        BY <3>3
      <4>2. (1 + a) + b # 0
        BY <3>2
      <4>3. (1 + a) + b = 0
        BY ONLY <3>1, <3>2, <4>1
      <4> QED BY ONLY <4>2, <4>3
    <3>4. CASE J \in Seq(Bytes) /\ Len(J) = 1 + LenBytes /\ \A i \in 1 .. LenBytes : J[i + 1] = 0
      <4>1. Cat(has, x) = Cat(J, <<>>) /\ <<>> \in Seq(Bytes)
        BY <3>1, <3>4, CatEmpty
      <4>2. has = J
        BY <4>1, <3>4, <2>1, CatCut
      <4>3. Length(has) = 0
        BY <4>2, <3>4, LengthOfZeros, SMTT(30)
      <4> QED BY <4>3
    <3> QED BY <3>3, <3>4 DEF JunkFrame
  <2> QED BY <2>2, <2>3, <1>8
<1>15. CASE /\ Len(has) = d.mes.len /\ d.mes.sat = "head" /\ (has[1] # 0 \/ Length(has) = 0)
            /\ e.ext = d.ext /\ e.ok = FALSE
  BY <1>2, <1>11, <1>15
<1>16. CASE /\ Len(has) = d.mes.len /\ d.mes.sat = "head" /\ has[1] = 0 /\ Length(has) # 0
            /\ e.mes = MessTail(Length(has)) /\ e.ext = d.ext
  BY <1>2, <1>11, <1>14, <1>16
<1> QED BY <1>1, <1>2, <1>12, <1>13, <1>15, <1>16 DEF Outcome

(* u3_newt_decode() keeps to the stream and uses up the buffer, or stops   *)
(* where there is no message.                                              *)
LEMMA DecodeFits ==
  ASSUME NEW d \in Decs, NEW w \in Seq(Bytes), NEW s \in Seq(Messages),
         NEW R, NEW J, Frames(R, s, J), JunkFrame(J), NEW g \in Nat, Fits(d, w, s, R, g)
  PROVE  /\ Decode(d) \in Decs /\ Fits(Decode(d), w, s, R, g)
         /\ Decode(d).ok => Decode(d).buf = <<>>
<1> DEFINE N == Len(d.buf)
           Step(e) == IF e.buf = <<>> \/ ~e.ok THEN e ELSE Turn(e)
           F(f) == [n \in 0 .. N |-> IF n = 0 THEN d ELSE Step(f[n - 1])]
           st == [p \in Decs \X (1 .. N) |-> Step(p[1])]
<1>1. N \in Nat
  BY DecFacts, LenProperties
<1>2. ASSUME NEW e \in Decs PROVE Step(e) \in Decs
  BY TurnFacts
<1>3. st \in [Decs \X (1 .. N) -> Decs]
  <2> HIDE DEF Step, N
  <2> QED BY <1>2
<1>4. PICK f \in [0 .. N -> Decs] : f[0] = d /\ \A k \in 1 .. N : f[k] = st[<<f[k - 1], k>>]
  <2>1. \E f \in [0 .. N -> Decs] : Iterates(f, d, N, st)
    <3> HIDE DEF st, N
    <3> QED BY <1>1, <1>3, Iterated
  <2> HIDE DEF st, N
  <2> QED BY <2>1 DEF Iterates
<1>5. \A k \in 1 .. N : f[k] = Step(f[k - 1])
  <2> HIDE DEF N, Step
  <2>1. \A k \in 1 .. N : <<f[k - 1], k>> \in Decs \X (1 .. N) /\ <<f[k - 1], k>>[1] = f[k - 1]
    BY <1>1, <1>4
  <2> QED BY <1>4, <2>1
<1>6. f = F(f)
  <2> HIDE DEF N, Step
  <2>1. \A i \in 0 .. N : f[i] = F(f)[i]
    BY <1>1, <1>4, <1>5
  <2> QED BY <1>4, <2>1
<1>7. PICK turn : turn = (CHOOSE p : p = F(p))
  OBVIOUS
<1>8. turn = F(turn)
  <2> HIDE DEF F
  <2> QED BY <1>6, <1>7, Zenon
<1>9. Decode(d) = turn[N]
  BY <1>7 DEF Decode
<1>10. turn[0] = d /\ \A n \in 1 .. N : turn[n] = Step(turn[n - 1])
  <2> HIDE DEF N, Step
  <2>1. \A n \in 0 .. N : turn[n] = IF n = 0 THEN d ELSE Step(turn[n - 1])
    BY <1>8
  <2> QED BY <1>1, <2>1
<1> DEFINE Good(e, n) == e \in Decs /\ Fits(e, w, s, R, g) 
                        /\ (e.ok => e.buf = <<>> \/ n + Len(e.buf) <= N)
           T == {n \in Nat : n <= N => Good(turn[n], n)}
<1>11. ASSUME NEW e \in Decs, NEW n \in Nat, Good(e, n) PROVE Good(Step(e), n + 1)
  <2>1. PICK l \in Nat, m \in Nat : l = Len(e.buf) /\ m = N /\ e.buf \in Seq(Bytes) /\ e.ok \in BOOLEAN
    BY <1>1, DecFacts, LenProperties
  <2>2. CASE e.buf = <<>> \/ ~e.ok
    <3>1. Step(e) = e
      BY <2>2
    <3> HIDE DEF Step, N
    <3> QED BY <2>2, <3>1, <1>11
  <2>3. CASE e.ok /\ e.buf # <<>>
    <3>1. Step(e) = Turn(e)
      BY <2>3
    <3>2. Turn(e) \in Decs /\ Fits(Turn(e), w, s, R, g)
      BY <2>3, <1>11, TurnFacts, TurnFits
    <3>3. PICK k \in Nat : k = Len(Turn(e).buf) /\ k < l
      <4>1. Turn(e).buf \in Seq(Bytes) /\ Len(Turn(e).buf) < Len(e.buf)
        BY <2>3, TurnFacts
      <4> QED BY <4>1, <2>1, LenProperties
    <3>4. n + l <= m
      BY <1>11, <2>1, <2>3
    <3>5. n + 1 + k <= m
      <4>1. \A a, b, c, e1 \in Nat : b < c /\ a + c <= e1 => a + 1 + b <= e1
        OBVIOUS
      <4> HIDE DEF N
      <4> QED BY <4>1, <3>3, <3>4
    <3> HIDE DEF Step, N
    <3> QED BY <3>1, <3>2, <3>3, <3>5, <2>1
  <2> QED BY <2>1, <2>2, <2>3
<1> HIDE DEF Step
<1>12. 0 \in T
  <2>1. 0 + Len(d.buf) <= N
    BY <1>1
  <2> QED BY <2>1, <1>10
<1> HIDE DEF Good, N
<1>13. ASSUME NEW n \in T PROVE n + 1 \in T
  <2>1. SUFFICES ASSUME n + 1 <= N PROVE Good(turn[n + 1], n + 1)
    OBVIOUS
  <2>2. n \in Nat /\ n <= N /\ n + 1 \in 1 .. N /\ (n + 1) - 1 = n
    BY <2>1, <1>1
  <2>3. Good(turn[n], n)
    BY <1>13, <2>2
  <2>4. turn[n] \in Decs
    BY <2>3 DEF Good
  <2>5. turn[n + 1] = Step(turn[n])
    BY <2>2, <1>10
  <2> QED BY <2>2, <2>3, <2>4, <2>5, <1>11
<1>14. N \in T
  <2>1. T \in SUBSET Nat
    OBVIOUS
  <2> HIDE DEF T
  <2> QED BY <1>1, <1>12, <1>13, <2>1, Induct
<1>15. Good(turn[N], N)
  BY <1>1, <1>14
<1>16. /\ turn[N] \in Decs /\ Fits(turn[N], w, s, R, g)
       /\ turn[N].ok => turn[N].buf = <<>> \/ N + Len(turn[N].buf) <= N
  BY <1>15 DEF Good
<1>17. ASSUME turn[N].ok, turn[N].buf # <<>> PROVE FALSE
  <2>1. PICK l \in Nat, m \in Nat : l = Len(turn[N].buf) /\ m = N /\ l # 0
    BY <1>1, <1>16, <1>17, DecFacts, EmptySeq
  <2>2. m + l <= m
    BY <2>1, <1>16, <1>17
  <2> QED BY <2>1, <2>2
<1> QED BY <1>9, <1>16, <1>17

-----------------------------------------------------------------------------
(* The pipe *)

Handed(q, s) == Len(q) <= Len(s) /\ \A i \in 1 .. Len(q) : q[i] = s[i]

(* What is in progress and on the wire is what was sent after j messages,  *)
(* and then what a client wrote that is no frame.                          *)
Stream(m, x, s, j, clean) ==
  \E R, J : /\ Frames(R, s, J) /\ JunkFrame(J) /\ (clean => J = <<>>)
            /\ Held(m, x, s, R, j)

NewtTypes ==
  /\ wire \in Seq(Bytes) /\ sent \in Seq(Messages)
  /\ ext \in Seq(Seq(Bytes)) /\ got \in Seq(Seq(Bytes)) /\ MessOK(mes)
  /\ tim \in BOOLEAN /\ sync \in BOOLEAN /\ open \in BOOLEAN /\ junk \in BOOLEAN
  /\ bal \in {"no", "eof", "decode"}

NewtInv ==
  /\ NewtTypes /\ Handed(got, sent)
  /\ open => Queue(ext, sent, Len(got))
  /\ open /\ bal = "no" => Stream(mes, wire, sent, Len(got) + Len(ext), ~junk)

(* The end of the stream can be put off. *)
LEMMA FramesMore ==
  ASSUME NEW s \in Seq(Messages), NEW R, NEW J \in Seq(Bytes), Frames(R, s, J), NEW F \in Seq(Bytes)
  PROVE  Frames([i \in 0 .. Len(s) |-> Cat(R[i], F)], s, Cat(J, F))
<1>1. PICK n \in Nat : n = Len(s)
  BY LenProperties
<1>2. PICK Q : Q = [i \in 0 .. n |-> Cat(R[i], F)]
  OBVIOUS
<1>3. /\ R[n] = J /\ (\A i \in 0 .. n : R[i] \in Seq(Bytes))
      /\ \A i \in 1 .. n : R[i - 1] = Cat(Header(Len(s[i])), Cat(s[i], R[i]))
  BY <1>1 DEF Frames
<1>4. \A i \in 0 .. n : Q[i] = Cat(R[i], F) /\ Q[i] \in Seq(Bytes)
  <2>1. \A i \in 0 .. n : Cat(R[i], F) \in Seq(Bytes)
    BY <1>3, CatType
  <2> QED BY <2>1, <1>2
<1>5. Q \in [0 .. n -> Seq(Bytes)]
  BY <1>2, <1>4
<1>6. ASSUME NEW i \in 1 .. n PROVE Q[i - 1] = Cat(Header(Len(s[i])), Cat(s[i], Q[i]))
  <2>1. PICK hd \in Seq(Bytes), m \in Seq(Bytes), r \in Seq(Bytes) :
          hd = Header(Len(s[i])) /\ m = s[i] /\ r = R[i]
    <3>1. i \in 1 .. Len(s) /\ i \in 0 .. n
      BY <1>1
    <3> QED BY <3>1, <1>3, SentMessage
  <2>2. i - 1 \in 0 .. n /\ i \in 0 .. n
    OBVIOUS
  <2>3. Q[i - 1] = Cat(Cat(hd, Cat(m, r)), F)
    BY <2>1, <2>2, <1>3, <1>4
  <2>4. Cat(m, r) \in Seq(Bytes)
    BY <2>1, CatType
  <2>5. Cat(Cat(hd, Cat(m, r)), F) = Cat(hd, Cat(Cat(m, r), F))
    BY <2>1, <2>4, CatAssoc
  <2>6. Cat(Cat(m, r), F) = Cat(m, Cat(r, F))
    BY <2>1, CatAssoc
  <2>7. Q[i] = Cat(r, F)
    BY <2>1, <2>2, <1>4
  <2> QED BY <2>1, <2>3, <2>5, <2>6, <2>7, Zenon
<1>7. Q[n] = Cat(J, F)
  <2>1. n \in 0 .. n
    OBVIOUS
  <2> QED BY <2>1, <1>3, <1>4
<1>8. Frames(Q, s, Cat(J, F))
  BY <1>1, <1>5, <1>6, <1>7 DEF Frames
<1> QED BY <1>1, <1>2, <1>8

LEMMA HeldMore ==
  ASSUME NEW s \in Seq(Messages), NEW R, NEW J, Frames(R, s, J), NEW F \in Seq(Bytes),
         NEW m, MessOK(m), NEW x \in Seq(Bytes), NEW j \in 0 .. Len(s), Held(m, x, s, R, j)
  PROVE  Held(m, Cat(x, F), s, [i \in 0 .. Len(s) |-> Cat(R[i], F)], j)
<1>1. PICK n \in Nat : n = Len(s)
  BY LenProperties
<1>2. PICK Q : Q = [i \in 0 .. n |-> Cat(R[i], F)]
  OBVIOUS
<1>3. m.has \in Seq(Bytes) /\ m.sat \in {"head", "tail"}
  BY DEF MessOK, Mess
<1>4. Cat(m.has, Cat(x, F)) = Cat(Cat(m.has, x), F)
  BY <1>3, CatAssoc
<1>5. CASE m.sat = "head"
  <2>1. Cat(m.has, x) = R[j]
    BY <1>5 DEF Held
  <2>2. Q[j] = Cat(R[j], F)
    BY <1>1, <1>2
  <2>3. Held(m, Cat(x, F), s, Q, j)
    BY <2>1, <2>2, <1>4, <1>5 DEF Held
  <2> QED BY <2>3, <1>1, <1>2
<1>6. CASE m.sat # "head"
  <2>1. j < n /\ m.len = Len(s[j + 1]) /\ Cat(m.has, x) = Cat(s[j + 1], R[j + 1])
    BY <1>1, <1>6 DEF Held
  <2>2. j + 1 \in 1 .. n /\ j + 1 \in 0 .. n /\ j + 1 \in 1 .. Len(s)
    BY <2>1, <1>1
  <2>3. Q[j + 1] = Cat(R[j + 1], F)
    BY <2>2, <1>2
  <2>4. s[j + 1] \in Seq(Bytes) /\ R[j + 1] \in Seq(Bytes)
    <3>1. R[j + 1] \in Seq(Bytes)
      BY <2>2, <1>1 DEF Frames
    <3> QED BY <3>1, <2>2, SentMessage
  <2>5. Cat(Cat(s[j + 1], R[j + 1]), F) = Cat(s[j + 1], Cat(R[j + 1], F))
    BY <2>4, CatAssoc
  <2>6. Cat(m.has, Cat(x, F)) = Cat(s[j + 1], Q[j + 1])
    BY <2>1, <2>3, <2>5, <1>4, Zenon
  <2>7. Held(m, Cat(x, F), s, Q, j)
    BY <2>1, <2>6, <1>1, <1>6 DEF Held
  <2> QED BY <2>7, <1>1, <1>2
<1> QED BY <1>5, <1>6

(* A frame at the end of the stream is one message more. *)
LEMMA FramesNext ==
  ASSUME NEW s \in Seq(Messages), NEW m \in Messages, NEW R,
         Frames(R, s, Cat(Header(Len(m)), m))
  PROVE  Frames([i \in 0 .. Len(s) + 1 |-> IF i = Len(s) + 1 THEN <<>> ELSE R[i]], Append(s, m), <<>>)
<1>1. PICK n \in Nat : n = Len(s)
  BY LenProperties
<1>2. PICK t, Q : /\ t \in Seq(Messages) /\ t = Append(s, m)
                 /\ Q = [i \in 0 .. n + 1 |-> IF i = n + 1 THEN <<>> ELSE R[i]]
  <2>1. PICK t : t = Append(s, m)
    OBVIOUS
  <2>2. t \in Seq(Messages)
    BY <2>1, AppendProperties
  <2> QED BY <2>1, <2>2
<1>3. /\ R[n] = Cat(Header(Len(m)), m) /\ (\A i \in 0 .. n : R[i] \in Seq(Bytes))
      /\ \A i \in 1 .. n : R[i - 1] = Cat(Header(Len(s[i])), Cat(s[i], R[i]))
  BY <1>1 DEF Frames
<1>4. Len(t) = n + 1 /\ t[n + 1] = m /\ \A i \in 1 .. n : t[i] = s[i]
  BY <1>1, <1>2, AppendProperties
<1>5. <<>> \in Seq(Bytes)
  OBVIOUS
<1>6. Q[n + 1] = <<>> /\ \A i \in 0 .. n : Q[i] = R[i]
  <2>1. n + 1 \in 0 .. n + 1 /\ \A i \in 0 .. n : i \in 0 .. n + 1 /\ i # n + 1
    OBVIOUS
  <2> QED BY <2>1, <1>2
<1>7. Q \in [0 .. n + 1 -> Seq(Bytes)]
  <2>1. \A i \in 0 .. n + 1 : i \in 0 .. n \/ i = n + 1
    OBVIOUS
  <2>2. \A i \in 0 .. n + 1 : Q[i] \in Seq(Bytes)
    BY <2>1, <1>3, <1>5, <1>6
  <2> QED BY <2>2, <1>2
<1>8. ASSUME NEW i \in 1 .. n + 1 PROVE Q[i - 1] = Cat(Header(Len(t[i])), Cat(t[i], Q[i]))
  <2>1. CASE i = n + 1
    <3>1. n \in 0 .. n /\ i - 1 = n
      BY <2>1
    <3>2. Q[i - 1] = Cat(Header(Len(m)), m)
      BY <3>1, <1>3, <1>6
    <3>3. m \in Seq(Bytes)
      BY NewtAssumption
    <3>4. Cat(m, <<>>) = m
      BY <3>3, CatEmpty
    <3> QED BY <3>2, <3>4, <2>1, <1>4, <1>6
  <2>2. CASE i \in 1 .. n
    <3>1. i - 1 \in 0 .. n /\ i \in 0 .. n
      BY <2>2
    <3> QED BY <3>1, <2>2, <1>3, <1>4, <1>6
  <2> QED BY <2>1, <2>2
<1>9. Frames(Q, t, <<>>)
  BY <1>4, <1>6, <1>7, <1>8 DEF Frames
<1> QED BY <1>1, <1>2, <1>9

LEMMA StreamSend ==
  ASSUME NEW s \in Seq(Messages), NEW m, MessOK(m), NEW x \in Seq(Bytes), NEW j \in 0 .. Len(s),
         Stream(m, x, s, j, TRUE), NEW p \in Messages
  PROVE  Stream(m, Cat(x, Cat(Header(Len(p)), p)), Append(s, p), j, TRUE)
<1>1. PICK R : Frames(R, s, <<>>) /\ Held(m, x, s, R, j)
  BY DEF Stream
<1>2. PICK F \in Seq(Bytes) : F = Cat(Header(Len(p)), p)
  <2>1. <<p>> \in Seq(Messages) /\ 1 \in 1 .. Len(<<p>>) /\ <<p>>[1] = p
    OBVIOUS
  <2>2. p \in Seq(Bytes) /\ Header(Len(p)) \in Seq(Bytes)
    BY ONLY <2>1, SentMessage
  <2> QED BY <2>2, CatType
<1>3. PICK n \in Nat : n = Len(s)
  BY LenProperties
<1>3a. PICK Q : Q = [i \in 0 .. Len(s) |-> Cat(R[i], F)]
  OBVIOUS
<1>4. Frames(Q, s, F)
  <2>1. <<>> \in Seq(Bytes)
    OBVIOUS
  <2>2. Frames(Q, s, Cat(<<>>, F))
    BY <2>1, <1>1, <1>3, <1>3a, FramesMore
  <2> QED BY <2>2, CatEmpty
<1>5. Held(m, Cat(x, F), s, Q, j)
  BY <1>1, <1>3, <1>3a, HeldMore
<1>6. PICK P : P = [i \in 0 .. Len(s) + 1 |-> IF i = Len(s) + 1 THEN <<>> ELSE Q[i]]
  OBVIOUS
<1>7. Frames(P, Append(s, p), <<>>)
  BY <1>2, <1>4, <1>6, FramesNext
<1>8. \A i \in 0 .. n : P[i] = Q[i]
  <2>1. \A i \in 0 .. n : i \in 0 .. n + 1 /\ i # n + 1
    OBVIOUS
  <2> QED BY <2>1, <1>3, <1>3a, <1>6
<1>9. /\ Len(Append(s, p)) = n + 1 /\ \A i \in 1 .. n : Append(s, p)[i] = s[i]
  BY <1>3, <1>3a, AppendProperties
<1>10. Held(m, Cat(x, F), Append(s, p), P, j)
  <2>1. CASE m.sat = "head"
    BY <2>1, <1>3, <1>3a, <1>5, <1>8 DEF Held
  <2>2. CASE m.sat # "head"
    <3>1. j < n /\ m.len = Len(s[j + 1]) /\ Cat(m.has, Cat(x, F)) = Cat(s[j + 1], Q[j + 1])
      BY <2>2, <1>3, <1>3a, <1>5 DEF Held
    <3>2. j + 1 \in 1 .. n /\ j + 1 \in 0 .. n /\ j < n + 1
      BY <3>1
    <3>3. P[j + 1] = Q[j + 1] /\ Append(s, p)[j + 1] = s[j + 1]
      BY <3>2, <1>8, <1>9
    <3> QED BY <2>2, <3>1, <3>2, <3>3, <1>9 DEF Held
  <2> QED BY <2>1, <2>2
<1> QED BY <1>2, <1>7, <1>10 DEF Stream, JunkFrame

LEMMA StreamJunk ==
  ASSUME NEW s \in Seq(Messages), NEW m, MessOK(m), NEW x \in Seq(Bytes), NEW j \in 0 .. Len(s),
         Stream(m, x, s, j, TRUE), NEW F \in Seq(Bytes), JunkFrame(F)
  PROVE  Stream(m, Cat(x, F), s, j, FALSE)
<1>1. PICK R : Frames(R, s, <<>>) /\ Held(m, x, s, R, j)
  BY DEF Stream
<1>2. PICK Q : Q = [i \in 0 .. Len(s) |-> Cat(R[i], F)]
  OBVIOUS
<1>3. Frames(Q, s, F)
  <2>1. <<>> \in Seq(Bytes)
    OBVIOUS
  <2>2. Frames(Q, s, Cat(<<>>, F))
    BY <2>1, <1>1, <1>2, FramesMore
  <2> QED BY <2>2, CatEmpty
<1>4. Held(m, Cat(x, F), s, Q, j)
  BY <1>1, <1>2, HeldMore
<1> QED BY <1>3, <1>4 DEF Stream

(* The first of the queue, or all of it, is handed over. *)
LEMMA HandOne ==
  ASSUME NEW s, NEW q \in Seq(Seq(Bytes)), NEW u \in Seq(Seq(Bytes)), Len(s) \in Nat,
         q # <<>>, Handed(u, s), Queue(q, s, Len(u))
  PROVE  /\ Append(u, Head(q)) \in Seq(Seq(Bytes)) /\ Tail(q) \in Seq(Seq(Bytes))
         /\ Handed(Append(u, Head(q)), s) /\ Queue(Tail(q), s, Len(Append(u, Head(q))))
         /\ Len(Append(u, Head(q))) + Len(Tail(q)) = Len(u) + Len(q)
         /\ Len(u) < Len(Append(u, Head(q)))
<1>1. PICK n \in Nat, a \in Nat, b \in Nat : n = Len(s) /\ a = Len(u) /\ b = Len(q)
  BY LenProperties
<1>2. b # 0
  BY <1>1, EmptySeq
<1>3. PICK p \in Seq(Seq(Bytes)), r \in Seq(Seq(Bytes)) :
        /\ p = Append(u, Head(q)) /\ r = Tail(q)
        /\ Len(p) = a + 1 /\ (\A i \in 1 .. a : p[i] = u[i]) /\ p[a + 1] = q[1]
        /\ Len(r) = b - 1 /\ \A i \in 1 .. b - 1 : r[i] = q[i + 1]
  <2>1. Head(q) \in Seq(Bytes) /\ Head(q) = q[1]
    BY HeadTailProperties
  <2>2. Tail(q) \in Seq(Seq(Bytes)) /\ Len(Tail(q)) = b - 1 /\ \A i \in 1 .. b - 1 : Tail(q)[i] = q[i + 1]
    BY <1>1, HeadTailProperties
  <2>3. /\ Append(u, Head(q)) \in Seq(Seq(Bytes)) /\ Len(Append(u, Head(q))) = a + 1
        /\ (\A i \in 1 .. a : Append(u, Head(q))[i] = u[i]) /\ Append(u, Head(q))[a + 1] = Head(q)
    BY <2>1, <1>1, AppendProperties
  <2> QED BY <2>1, <2>2, <2>3, ZenonT(60)
<1>4. /\ a <= n /\ (\A i \in 1 .. a : u[i] = s[i])
      /\ a + b <= n /\ \A i \in 1 .. b : q[i] = s[a + i]
  BY <1>1 DEF Handed, Queue
<1>5. (a + 1) + (b - 1) = a + b /\ a < a + 1 /\ a + 1 <= n /\ 1 \in 1 .. b
  BY <1>2, <1>4
<1>6. Handed(p, s)
  <2>1. \A i \in 1 .. a + 1 : i \in 1 .. a \/ i = a + 1
    OBVIOUS
  <2>2. p[a + 1] = s[a + 1]
    BY <1>3, <1>4, <1>5
  <2>3. \A i \in 1 .. a + 1 : p[i] = s[i]
    BY <2>1, <2>2, <1>3, <1>4
  <2> QED BY <2>3, <1>1, <1>3, <1>5 DEF Handed
<1>7. Queue(r, s, a + 1)
  <2>1. \A i \in 1 .. b - 1 : i + 1 \in 1 .. b /\ a + (i + 1) = (a + 1) + i
    OBVIOUS
  <2>2. \A i \in 1 .. b - 1 : r[i] = s[(a + 1) + i]
    BY <2>1, <1>3, <1>4, ZenonT(60)
  <2> QED BY <2>2, <1>1, <1>3, <1>4, <1>5 DEF Queue
<1> QED BY <1>1, <1>3, <1>5, <1>6, <1>7

LEMMA HandAll ==
  ASSUME NEW s, NEW q \in Seq(Seq(Bytes)), NEW u \in Seq(Seq(Bytes)), Len(s) \in Nat,
         Handed(u, s), Queue(q, s, Len(u))
  PROVE  /\ u \o q \in Seq(Seq(Bytes)) /\ <<>> \in Seq(Seq(Bytes))
         /\ Handed(u \o q, s) /\ Queue(<<>>, s, Len(u \o q))
         /\ Len(u \o q) + Len(<<>>) = Len(u) + Len(q)
         /\ Len(u) <= Len(u \o q)
<1>1. PICK n \in Nat, a \in Nat, b \in Nat : n = Len(s) /\ a = Len(u) /\ b = Len(q)
  BY LenProperties
<1>2. PICK p \in Seq(Seq(Bytes)) : p = u \o q
  BY ConcatProperties
<1>3. Len(p) = a + b /\ \A i \in 1 .. a + b : p[i] = IF i <= a THEN u[i] ELSE q[i - a]
  BY ONLY <1>1, <1>2, ConcatProperties, q \in Seq(Seq(Bytes)), u \in Seq(Seq(Bytes))
<1>4. /\ a <= n /\ (\A i \in 1 .. a : u[i] = s[i])
      /\ a + b <= n /\ \A i \in 1 .. b : q[i] = s[a + i]
  BY <1>1 DEF Handed, Queue
<1>5. ASSUME NEW i \in 1 .. a + b PROVE p[i] = s[i]
  <2>1. CASE i <= a
    <3>1. i \in 1 .. a
      BY <2>1
    <3> QED BY <2>1, <3>1, <1>3, <1>4
  <2>2. CASE ~(i <= a)
    <3>1. i - a \in 1 .. b /\ a + (i - a) = i
      BY <2>2
    <3>2. p[i] = q[i - a]
      BY <2>2, <1>3
    <3> QED BY <3>1, <3>2, <1>4
  <2> QED BY <2>1, <2>2
<1>6. Handed(p, s)
  BY <1>1, <1>3, <1>4, <1>5 DEF Handed
<1>7. <<>> \in Seq(Seq(Bytes)) /\ Len(<<>>) = 0
  OBVIOUS
<1>8. Queue(<<>>, s, a + b)
  <2>1. (a + b) + 0 <= n
    BY <1>4
  <2>2. \A i \in 1 .. 0 : FALSE
    OBVIOUS
  <2> QED BY <2>1, <2>2, <1>1, <1>7 DEF Queue
<1>9. (a + b) + 0 = a + b /\ a <= a + b
  OBVIOUS
<1> QED BY <1>1, <1>2, <1>3, <1>6, <1>7, <1>8, <1>9

LEMMA NewtInitial == NewtInit \/ NewtParked => NewtInv
<1> SUFFICES ASSUME NewtInit \/ NewtParked PROVE NewtInv
  OBVIOUS
<1>1. wire = <<>> /\ mes = MessHead /\ ext = <<>> /\ sent = <<>> /\ got = <<>> /\ bal = "no"
  BY DEF NewtInit, NewtParked
<1>2. tim \in BOOLEAN /\ sync \in BOOLEAN /\ open \in BOOLEAN /\ junk \in BOOLEAN
  BY Zenon DEF NewtInit, NewtParked
<1>3. Len(<<>>) = 0 /\ <<>> \in Seq(Bytes) /\ <<>> \in Seq(Messages) /\ <<>> \in Seq(Seq(Bytes))
  OBVIOUS
<1>4. NewtTypes
  BY <1>1, <1>2, <1>3, MessFacts DEF NewtTypes
<1>5. Handed(<<>>, <<>>) /\ Queue(<<>>, <<>>, 0)
  <2>1. \A i \in 1 .. 0 : FALSE
    OBVIOUS
  <2> QED BY <2>1, <1>3 DEF Handed, Queue
<1>6. Stream(MessHead, <<>>, <<>>, 0, ~junk)
  <2>1. PICK R : R = [i \in 0 .. 0 |-> <<>>]
    OBVIOUS
  <2>2. R[0] = <<>> /\ R \in [0 .. 0 -> Seq(Bytes)] /\ \A i \in 1 .. 0 : FALSE
    BY <2>1, <1>3
  <2>3. Frames(R, <<>>, <<>>)
    BY <2>2, <1>3 DEF Frames
  <2>4. Cat(<<>>, <<>>) = <<>>
    BY <1>3, CatEmpty
  <2>5. Held(MessHead, <<>>, <<>>, R, 0)
    BY <2>2, <2>4, MessFacts DEF Held
  <2> QED BY <2>3, <2>5 DEF Stream, JunkFrame
<1>7. 0 + 0 = 0
  OBVIOUS
<1> QED BY <1>1, <1>3, <1>4, <1>5, <1>6, <1>7 DEF NewtInv

LEMMA SendStep == ASSUME NewtInv, NewtSend PROVE NewtInv'
<1>1. PICK m \in Messages : wire' = wire \o Header(Len(m)) \o m /\ sent' = Append(sent, m)
  BY DEF NewtSend
<1>2. UNCHANGED <<mes, ext, tim, sync, got, open, bal, junk>> /\ ~junk
  BY DEF NewtSend
<1>3. NewtTypes /\ Handed(got, sent)
  BY DEF NewtInv
<1>4. wire \in Seq(Bytes) /\ sent \in Seq(Messages) /\ ext \in Seq(Seq(Bytes)) /\ got \in Seq(Seq(Bytes)) /\ MessOK(mes)
  BY <1>3 DEF NewtTypes
<1>5. m \in Seq(Bytes) /\ Header(Len(m)) \in Seq(Bytes)
  <2>1. <<m>> \in Seq(Messages) /\ 1 \in 1 .. Len(<<m>>) /\ <<m>>[1] = m
    OBVIOUS
  <2> QED BY ONLY <2>1, SentMessage
<1>6. wire' = Cat(wire, Cat(Header(Len(m)), m))
  <2>1. wire' = Cat(Cat(wire, Header(Len(m))), m)
    BY <1>1 DEF Cat
  <2> QED BY <2>1, <1>4, <1>5, CatAssoc
<1>7. wire' \in Seq(Bytes)
  <2>1. Cat(Header(Len(m)), m) \in Seq(Bytes)
    BY <1>5, CatType
  <2> QED BY <2>1, <1>4, <1>6, CatType
<1>8. PICK n \in Nat, a \in Nat, b \in Nat : n = Len(sent) /\ a = Len(got) /\ b = Len(ext)
  BY <1>4, LenProperties
<1>9. sent' \in Seq(Messages) /\ Len(sent') = n + 1 /\ \A i \in 1 .. n : sent'[i] = sent[i]
  BY <1>1, <1>4, <1>8, AppendProperties
<1>10. NewtTypes'
  BY <1>2, <1>3, <1>7, <1>9 DEF NewtTypes
<1>11. Handed(got, sent')
  <2>1. a <= n /\ \A i \in 1 .. a : got[i] = sent[i]
    BY <1>3, <1>8 DEF Handed
  <2>2. a <= n + 1 /\ \A i \in 1 .. a : i \in 1 .. n
    BY <2>1
  <2> QED BY <2>1, <2>2, <1>8, <1>9 DEF Handed
<1>12. ASSUME open PROVE Queue(ext, sent', a) /\ a + b <= n
  <2>1. a + b <= n /\ \A i \in 1 .. b : ext[i] = sent[a + i]
    BY <1>8, <1>12 DEF NewtInv, Queue
  <2>2. a + b <= n + 1 /\ \A i \in 1 .. b : a + i \in 1 .. n
    BY <2>1
  <2> QED BY <2>1, <2>2, <1>8, <1>9 DEF Queue
<1>13. ASSUME open, bal = "no" PROVE Stream(mes, wire', sent', a + b, ~junk)
  <2>1. Stream(mes, wire, sent, a + b, TRUE)
    BY <1>2, <1>8, <1>13 DEF NewtInv, Stream
  <2>2. a + b \in 0 .. Len(sent)
    BY <1>8, <1>12, <1>13
  <2>3. Stream(mes, wire', sent', a + b, TRUE)
    BY <2>1, <2>2, <1>1, <1>4, <1>6, StreamSend
  <2> QED BY <2>3, <1>2 DEF Stream
<1> QED BY <1>2, <1>8, <1>10, <1>11, <1>12, <1>13 DEF NewtInv

LEMMA JunkStep == ASSUME NewtInv, NewtJunk PROVE NewtInv'
<1>1. PICK tag \in Bytes : wire' = wire \o <<tag>> \o [i \in 1 .. LenBytes |-> 0]
  BY DEF NewtJunk
<1>2. UNCHANGED <<mes, ext, tim, sync, sent, got, open, bal>> /\ ~junk /\ junk'
  BY DEF NewtJunk
<1>3. NewtTypes /\ Handed(got, sent)
  BY DEF NewtInv
<1>4. wire \in Seq(Bytes) /\ sent \in Seq(Messages) /\ ext \in Seq(Seq(Bytes)) /\ got \in Seq(Seq(Bytes)) /\ MessOK(mes)
  BY <1>3 DEF NewtTypes
<1>5. LenBytes \in Nat /\ 0 \in Bytes
  BY NewtAssumption DEF Bytes
<1>6. PICK z \in Seq(Bytes) : /\ z = [i \in 1 .. LenBytes |-> 0] /\ Len(z) = LenBytes
                              /\ \A i \in 1 .. LenBytes : z[i] = 0
  <2>1. PICK z : z = [i \in 1 .. LenBytes |-> 0]
    OBVIOUS
  <2>2. z \in Seq(Bytes) /\ Len(z) = LenBytes /\ \A i \in 1 .. LenBytes : z[i] = 0
    BY <2>1, <1>5
  <2> QED BY <2>1, <2>2
<1>7. PICK o \in Seq(Bytes) : o = <<tag>> /\ Len(o) = 1
  <2>1. <<tag>> \in Seq(Bytes) /\ Len(<<tag>>) = 1
    OBVIOUS
  <2> QED BY <2>1
<1>8. PICK F \in Seq(Bytes) : F = Cat(o, z)
  BY CatType
<1>9. JunkFrame(F)
  <2>1. Len(F) = 1 + LenBytes
    <3>1. Len(Cat(o, z)) = Len(o) + Len(z)
      BY CatLen
    <3> QED BY ONLY <3>1, <1>6, <1>7, <1>8
  <2>2. ASSUME NEW i \in 1 .. LenBytes PROVE F[i + 1] = 0
    <3>1. \A k \in 1 .. Len(o) + Len(z) : (o \o z)[k] = IF k <= Len(o) THEN o[k] ELSE z[k - Len(o)]
      BY ONLY ConcatProperties, o \in Seq(Bytes), z \in Seq(Bytes)
    <3>2. i + 1 \in 1 .. 1 + LenBytes /\ ~(i + 1 <= 1) /\ (i + 1) - 1 = i
      BY <1>5
    <3>3. (o \o z)[i + 1] = z[(i + 1) - 1]
      BY <3>1, <3>2, <1>6, <1>7
    <3> QED BY <3>2, <3>3, <1>6, <1>8 DEF Cat
  <2> QED BY <2>1, <2>2 DEF JunkFrame
<1>10. wire' = Cat(wire, F)
  <2>1. wire' = Cat(Cat(wire, o), z)
    BY <1>1, <1>6, <1>7 DEF Cat
  <2> QED BY <2>1, <1>4, <1>8, CatAssoc
<1>11. wire' \in Seq(Bytes)
  BY <1>4, <1>10, CatType
<1>12. NewtTypes'
  <2>1. junk' \in BOOLEAN
    BY Zenon DEF NewtJunk
  <2> QED BY <2>1, <1>2, <1>3, <1>11 DEF NewtTypes
<1>13. ASSUME open, bal = "no" PROVE Stream(mes, wire', sent, Len(got) + Len(ext), ~junk')
  <2>1. PICK j \in Nat : j = Len(got) + Len(ext) /\ j \in 0 .. Len(sent)
    <3>1. PICK n \in Nat, a \in Nat, b \in Nat : n = Len(sent) /\ a = Len(got) /\ b = Len(ext)
      BY <1>4, LenProperties
    <3>2. a + b <= n
      BY <3>1, <1>13 DEF NewtInv, Queue
    <3> QED BY <3>1, <3>2
  <2>2. Stream(mes, wire, sent, j, TRUE)
    BY <2>1, <1>2, <1>13 DEF NewtInv, Stream
  <2>3. Stream(mes, wire', sent, j, FALSE)
    BY <2>1, <2>2, <1>4, <1>9, <1>10, StreamJunk
  <2> QED BY <2>1, <2>3, <1>2 DEF Stream
<1> QED BY <1>2, <1>3, <1>12, <1>13 DEF NewtInv

LEMMA ReadStep ==
  ASSUME NewtInv, NewtRead
  PROVE  NewtInv' /\ Len(got) <= Len(got')
<1>1. NewtTypes /\ Handed(got, sent) /\ open /\ bal = "no" /\ Queue(ext, sent, Len(got))
  BY DEF NewtInv, NewtRead
<1>2. wire \in Seq(Bytes) /\ sent \in Seq(Messages) /\ ext \in Seq(Seq(Bytes)) /\ got \in Seq(Seq(Bytes)) /\ MessOK(mes)
  BY <1>1 DEF NewtTypes
<1>3. PICK n \in 1 .. Len(wire) : \E dec :
        /\ dec = Decode([mes |-> mes, ext |-> ext, ok |-> TRUE, buf |-> SubSeq(wire, 1, n)])
        /\ wire' = SubSeq(wire, n + 1, Len(wire)) /\ mes' = dec.mes
        /\ bal' = IF dec.ok THEN bal ELSE "decode"
        /\ IF ~dec.ok THEN ext' = dec.ext /\ UNCHANGED <<tim, got>>
           ELSE IF sync THEN MeatNextSync(dec.ext) ELSE MeatNext(dec.ext, tim)
  BY DEF NewtRead
<1>3a. PICK dec :
        /\ dec = Decode([mes |-> mes, ext |-> ext, ok |-> TRUE, buf |-> SubSeq(wire, 1, n)])
        /\ wire' = SubSeq(wire, n + 1, Len(wire)) /\ mes' = dec.mes
        /\ bal' = IF dec.ok THEN bal ELSE "decode"
        /\ IF ~dec.ok THEN ext' = dec.ext /\ UNCHANGED <<tim, got>>
           ELSE IF sync THEN MeatNextSync(dec.ext) ELSE MeatNext(dec.ext, tim)
  BY <1>3
<1>4. UNCHANGED <<sync, sent, open, junk>>
  BY DEF NewtRead
<1>5. PICK buf \in Seq(Bytes), w \in Seq(Bytes) :
        buf = SubSeq(wire, 1, n) /\ w = SubSeq(wire, n + 1, Len(wire)) /\ Cat(buf, w) = wire
  <2>0. PICK l \in Nat : l = Len(wire)
    BY <1>2, LenProperties
  <2>1. PICK b, w : b = SubSeq(wire, 1, n) /\ w = SubSeq(wire, n + 1, l)
    OBVIOUS
  <2>2. n \in 1 .. l /\ n \in Nat /\ \A i \in 1 .. l : wire[i] \in Bytes
    BY <2>0, <2>1, <1>2
  <2>3. b \in Seq(Bytes) /\ Len(b) = n /\ \A i \in 1 .. n : b[i] = wire[i]
    <3>1. \A i \in 1 .. n : wire[i] \in Bytes
      BY <2>2
    <3>2. /\ b \in Seq(Bytes) /\ Len(b) = (IF 1 <= n THEN n - 1 + 1 ELSE 0)
          /\ \A i \in 1 .. n - 1 + 1 : b[i] = wire[1 + i - 1]
      BY <3>1, <2>0, <2>1, <2>2, <1>2, SubSeqProperties
    <3>3. n - 1 + 1 = n /\ 1 <= n /\ \A i \in 1 .. n : 1 + i - 1 = i
      BY <2>2
    <3> QED BY <3>2, <3>3
  <2>4. w \in Seq(Bytes) /\ Len(w) = l - n /\ \A i \in 1 .. l - n : w[i] = wire[n + i]
    <3>1. \A i \in n + 1 .. l : wire[i] \in Bytes
      BY <2>2
    <3>2. /\ w \in Seq(Bytes) /\ Len(w) = (IF n + 1 <= l THEN l - (n + 1) + 1 ELSE 0)
          /\ \A i \in 1 .. l - (n + 1) + 1 : w[i] = wire[n + 1 + i - 1]
      <4>1. PICK m \in Nat : m = n + 1
        BY <2>2
      <4>2. /\ w \in Seq(Bytes) /\ Len(w) = (IF m <= l THEN l - m + 1 ELSE 0)
            /\ \A i \in 1 .. l - m + 1 : w[i] = wire[m + i - 1]
        <5>1. w = SubSeq(wire, m, l) /\ (\A i \in m .. l : wire[i] \in Bytes) /\ m \in Int /\ l \in Int
          BY <4>1, <3>1, <2>0, <2>1
        <5> QED BY ONLY <5>1, <1>2, SubSeqProperties, SMTT(30)
      <4> QED BY <4>1, <4>2, Zenon
    <3>3. l - (n + 1) + 1 = l - n /\ (~(n + 1 <= l) => l - n = 0) /\ \A i \in 1 .. l - n : n + 1 + i - 1 = n + i
      BY <2>2
    <3> QED BY <3>2, <3>3
  <2>5. b \o w = wire
    <3>1. PICK c : c = b \o w
      OBVIOUS
    <3>2. /\ c \in Seq(Bytes) /\ Len(c) = Len(b) + Len(w)
          /\ \A i \in 1 .. Len(b) + Len(w) : c[i] = IF i <= Len(b) THEN b[i] ELSE w[i - Len(b)]
      BY ONLY <3>1, <2>3, <2>4, ConcatProperties, ZenonT(60)
    <3>3. n + (l - n) = l
      BY <2>2
    <3>4. Len(c) = l /\ \A i \in 1 .. l : c[i] = IF i <= n THEN b[i] ELSE w[i - n]
      BY <3>2, <3>3, <2>3, <2>4
    <3>5. ASSUME NEW i \in 1 .. l PROVE c[i] = wire[i]
      <4>1. CASE i <= n
        <5>1. i \in 1 .. n
          BY <4>1
        <5> QED BY <4>1, <5>1, <3>4, <2>3
      <4>2. CASE ~(i <= n)
        <5>1. i - n \in 1 .. l - n /\ n + (i - n) = i
          BY <4>2, <2>2
        <5>2. c[i] = w[i - n]
          BY <4>2, <3>4
        <5> QED BY <5>1, <5>2, <2>4
      <4> QED BY <4>1, <4>2
    <3> QED BY <3>1, <3>2, <3>4, <3>5, <2>0, <2>1, <1>2, SeqEqual
  <2> QED BY <2>0, <2>1, <2>3, <2>4, <2>5 DEF Cat
<1>6. PICK g \in Nat : g = Len(got)
  BY <1>2, LenProperties
<1>6a. PICK d : d = [mes |-> mes, ext |-> ext, ok |-> TRUE, buf |-> buf]
  OBVIOUS
<1>7. d \in Decs /\ d.mes = mes /\ d.ext = ext /\ d.buf = buf
  <2>1. mes \in Mess
    BY <1>2 DEF MessOK
  <2> QED BY <2>1, <1>2, <1>5, <1>6, <1>6a DEF Decs
<1>8. PICK R, J : /\ Frames(R, sent, J) /\ JunkFrame(J) /\ (~junk => J = <<>>)
                  /\ Held(mes, wire, sent, R, g + Len(ext))
  BY <1>1, <1>6, <1>6a DEF NewtInv, Stream
<1>9. Fits(d, w, sent, R, g)
  BY <1>1, <1>5, <1>6, <1>6a, <1>7, <1>8 DEF Fits
<1>10. dec \in Decs /\ Fits(dec, w, sent, R, g) /\ (dec.ok => dec.buf = <<>>)
  <2>1. dec = Decode(d)
    BY <1>3a, <1>5, <1>6, <1>6a
  <2> QED BY <2>1, <1>2, <1>7, <1>8, <1>9, DecodeFits
<1>11. MessOK(dec.mes) /\ dec.ext \in Seq(Seq(Bytes)) /\ dec.ok \in BOOLEAN
  BY <1>10, DecFacts
<1>12. Queue(dec.ext, sent, g) /\ (dec.ok => Stream(dec.mes, w, sent, g + Len(dec.ext), ~junk))
  <2>1. Queue(dec.ext, sent, g) /\ (dec.ok => Held(dec.mes, Cat(dec.buf, w), sent, R, g + Len(dec.ext)))
    BY <1>10 DEF Fits
  <2>2. Cat(<<>>, w) = w
    BY <1>5, CatEmpty
  <2>3. dec.ok => Held(dec.mes, w, sent, R, g + Len(dec.ext))
    BY <2>1, <2>2, <1>10
  <2> QED BY <2>1, <2>3, <1>8 DEF Stream
<1>13. ASSUME ext' \in Seq(Seq(Bytes)), got' \in Seq(Seq(Bytes)), tim' \in BOOLEAN, Handed(got', sent),
              Queue(ext', sent, Len(got')), dec.ok => Len(got') + Len(ext') = g + Len(dec.ext)
       PROVE  NewtInv'
  <2>1. wire' = w /\ mes' = dec.mes /\ (bal' = "no" => dec.ok) /\ bal' \in {"no", "eof", "decode"}
    BY <1>1, <1>3a, <1>5
  <2>2. NewtTypes'
    BY <2>1, <1>1, <1>4, <1>5, <1>11, <1>13 DEF NewtTypes
  <2> QED BY <2>1, <2>2, <1>4, <1>12, <1>13 DEF NewtInv
<1>14. Len(sent) \in Nat
  BY <1>2, LenProperties
<1>15. tim \in BOOLEAN /\ sync \in BOOLEAN
  BY <1>1 DEF NewtTypes
<1>16. CASE ~dec.ok
  <2>1. ext' = dec.ext /\ got' = got /\ tim' = tim
    BY <1>3a, <1>16
  <2>2. Len(got') = g /\ g <= g
    BY <2>1, <1>6, <1>6a
  <2> QED BY <2>1, <2>2, <1>1, <1>2, <1>6, <1>6a, <1>11, <1>12, <1>13, <1>15, <1>16
<1>17. CASE dec.ok /\ sync
  <2>1. ext' = <<>> /\ got' = got \o dec.ext /\ tim' = tim
    BY <1>3a, <1>17 DEF MeatNextSync
  <2>2. /\ got' \in Seq(Seq(Bytes)) /\ ext' \in Seq(Seq(Bytes))
        /\ Handed(got', sent) /\ Queue(ext', sent, Len(got'))
        /\ Len(got') + Len(ext') = g + Len(dec.ext) /\ Len(got) <= Len(got')
    BY <2>1, <1>1, <1>2, <1>6, <1>6a, <1>11, <1>12, <1>14, HandAll, SMTT(30)
  <2> QED BY <2>1, <2>2, <1>13, <1>15
<1>18. CASE dec.ok /\ ~sync
  <2>1. MeatNext(dec.ext, tim)
    BY <1>3a, <1>18
  <2>2. tim' \in BOOLEAN
    BY <2>1, Zenon DEF MeatNext
  <2>3. CASE dec.ext = <<>>
    <3>1. ext' = dec.ext /\ got' = got
      BY <2>1, <2>3 DEF MeatNext
    <3>2. Len(got') = g /\ g <= g
      BY <3>1, <1>6, <1>6a
    <3> QED BY <3>1, <3>2, <2>2, <1>1, <1>2, <1>6, <1>6a, <1>11, <1>12, <1>13
  <2>4. CASE dec.ext # <<>>
    <3>1. ext' = Tail(dec.ext) /\ got' = Append(got, Head(dec.ext))
      BY <2>1, <2>4 DEF MeatNext
    <3>2. /\ got' \in Seq(Seq(Bytes)) /\ ext' \in Seq(Seq(Bytes))
          /\ Handed(got', sent) /\ Queue(ext', sent, Len(got'))
          /\ Len(got') + Len(ext') = g + Len(dec.ext) /\ Len(got) < Len(got')
      BY <3>1, <2>4, <1>1, <1>2, <1>6, <1>6a, <1>11, <1>12, <1>14, HandOne, ZenonT(60)
    <3>3. Len(got) <= Len(got')
      <4>1. Len(got') \in Nat
        BY <3>2, LenProperties
      <4> QED BY <4>1, <3>2, <1>6, <1>6a
    <3> QED BY <3>2, <3>3, <2>2, <1>13
  <2> QED BY <2>3, <2>4
<1> QED BY <1>16, <1>17, <1>18

LEMMA TimerStep ==
  ASSUME NewtInv, NewtTimer
  PROVE  NewtInv' /\ Len(got) <= Len(got')
<1>1. NewtTypes /\ Handed(got, sent) /\ open /\ Queue(ext, sent, Len(got)) /\ MeatNext(ext, FALSE)
  BY DEF NewtInv, NewtTimer
<1>2. UNCHANGED <<wire, mes, sync, sent, open, bal, junk>>
  BY DEF NewtTimer
<1>3. sent \in Seq(Messages) /\ ext \in Seq(Seq(Bytes)) /\ got \in Seq(Seq(Bytes))
  BY <1>1 DEF NewtTypes
<1>4. Len(sent) \in Nat /\ Len(got) \in Nat
  BY <1>3, LenProperties
<1>5. tim' \in BOOLEAN
  BY <1>1, Zenon DEF MeatNext
<1>6. ASSUME ext' \in Seq(Seq(Bytes)), got' \in Seq(Seq(Bytes)), Handed(got', sent),
             Queue(ext', sent, Len(got')), Len(got') + Len(ext') = Len(got) + Len(ext)
      PROVE  NewtInv'
  <2>1. NewtTypes'
    BY <1>1, <1>2, <1>5, <1>6 DEF NewtTypes
  <2> QED BY <2>1, <1>2, <1>6 DEF NewtInv
<1>7. CASE ext = <<>>
  <2>1. ext' = ext /\ got' = got
    BY <1>1, <1>7 DEF MeatNext
  <2>2. Len(got') = Len(got) /\ Len(got) <= Len(got) /\ Len(got') + Len(ext') = Len(got) + Len(ext)
    BY <2>1, <1>4
  <2> QED BY <2>1, <2>2, <1>1, <1>3, <1>6
<1>8. CASE ext # <<>>
  <2>1. ext' = Tail(ext) /\ got' = Append(got, Head(ext))
    BY <1>1, <1>8 DEF MeatNext
  <2>2. /\ got' \in Seq(Seq(Bytes)) /\ ext' \in Seq(Seq(Bytes))
        /\ Handed(got', sent) /\ Queue(ext', sent, Len(got'))
        /\ Len(got') + Len(ext') = Len(got) + Len(ext) /\ Len(got) < Len(got')
    BY <2>1, <1>1, <1>3, <1>4, <1>8, HandOne
  <2>3. Len(got) <= Len(got')
    <3>1. Len(got') \in Nat
      BY <2>2, LenProperties
    <3> QED BY <3>1, <2>2, <1>4
  <2> QED BY <2>2, <2>3, <1>6
<1> QED BY <1>7, <1>8

LEMMA NewtStep == NewtInv /\ [NewtNext]_nvars => NewtInv'
<1> SUFFICES ASSUME NewtInv, [NewtNext]_nvars PROVE NewtInv'
  OBVIOUS
<1>1. NewtTypes /\ Handed(got, sent)
  BY DEF NewtInv
<1>2. CASE NewtEof
  <2>1. bal' = "eof" /\ UNCHANGED <<wire, mes, ext, tim, sync, sent, got, open, junk>>
    BY <1>2 DEF NewtEof
  <2>2. NewtTypes'
    BY <2>1, <1>1 DEF NewtTypes
  <2> QED BY <2>1, <2>2, <1>1 DEF NewtInv
<1>3. CASE NewtStop
  <2>1. /\ open' = FALSE /\ mes' = MessHead /\ ext' = <<>> /\ tim' = FALSE
        /\ UNCHANGED <<wire, sync, sent, got, bal, junk>>
    BY <1>3 DEF NewtStop
  <2>2. <<>> \in Seq(Seq(Bytes)) /\ MessOK(MessHead)
    BY MessFacts
  <2>3. open' \in BOOLEAN /\ tim' \in BOOLEAN
    BY <2>1, Zenon
  <2>4. NewtTypes'
    BY <2>1, <2>2, <2>3, <1>1 DEF NewtTypes
  <2> QED BY <2>1, <2>4, <1>1 DEF NewtInv
<1>4. CASE UNCHANGED nvars
  <2>1. UNCHANGED <<wire, mes, ext, tim, sync, sent, got, open, bal, junk>>
    BY <1>4 DEF nvars
  <2> QED BY <2>1 DEF NewtInv, NewtTypes
<1> QED BY <1>2, <1>3, <1>4, SendStep, JunkStep, ReadStep, TimerStep DEF NewtNext

LEMMA NewtTyped == NewtInv => NewtTypeOK
<1> SUFFICES ASSUME NewtInv PROVE NewtTypeOK
  OBVIOUS
<1>1. NewtTypes
  BY DEF NewtInv
<1>2. {tim, sync, open, junk} \subseteq BOOLEAN
  BY <1>1, Zenon DEF NewtTypes
<1>3. mes.sat \in {"head", "tail"} /\ Len(mes.has) < mes.len
  BY <1>1 DEF NewtTypes, MessOK, Mess
<1> QED BY <1>1, <1>2, <1>3 DEF NewtTypes, NewtTypeOK

(* What a step of the pipe does to the channel. *)
LEMMA ChannelStep ==
  ASSUME NewtInv, NewtNext
  PROVE  C!ChannelNext \/ UNCHANGED <<sent, got, open>>
<1>1. CASE NewtSend
  BY <1>1 DEF NewtSend, C!ChannelNext, C!ChannelSend
<1>2. CASE NewtJunk \/ NewtEof
  BY <1>2 DEF NewtJunk, NewtEof
<1>3. CASE NewtStop
  BY <1>3 DEF NewtStop, C!ChannelNext, C!ChannelStop
<1>4. CASE NewtRead \/ NewtTimer
  <2>1. NewtInv' /\ Len(got) <= Len(got')
    BY <1>4, ReadStep, TimerStep
  <2>2. open /\ UNCHANGED <<sent, open>>
    BY <1>4 DEF NewtRead, NewtTimer
  <2>3. /\ got \in Seq(Seq(Bytes)) /\ got' \in Seq(Seq(Bytes)) /\ sent \in Seq(Messages)
        /\ Handed(got, sent) /\ Handed(got', sent)
    BY <2>1, <2>2 DEF NewtInv, NewtTypes
  <2>4. PICK a \in Nat, b \in Nat, n \in Nat : a = Len(got) /\ b = Len(got') /\ n = Len(sent)
    BY <2>3, LenProperties
  <2>5. /\ a <= b /\ b <= n /\ (\A i \in 1 .. a : got[i] = sent[i])
        /\ \A i \in 1 .. b : got'[i] = sent[i]
    BY <2>1, <2>3, <2>4 DEF Handed
  <2>6. CASE a = b
    <3>1. \A i \in 1 .. a : got'[i] = got[i]
      BY <2>5, <2>6
    <3>2. got' = got
      BY <3>1, <2>3, <2>4, <2>6, SeqEqual
    <3> QED BY <3>2, <2>2
  <2>7. CASE a # b
    <3>1. b \in a + 1 .. n
      BY <2>5, <2>7
    <3>2. PICK p : p = SubSeq(sent, 1, b)
      OBVIOUS
    <3>3. \A i \in 1 .. b : i \in 1 .. n /\ sent[i] \in Messages /\ sent[i] \in Seq(Bytes)
      <4>1. \A i \in 1 .. b : i \in 1 .. n
        BY <2>5
      <4>2. \A i \in 1 .. n : sent[i] \in Messages
        BY <2>3, <2>4
      <4> QED BY <4>1, <4>2, NewtAssumption
    <3>4. p \in Seq(Seq(Bytes)) /\ Len(p) = b /\ \A i \in 1 .. b : p[i] = sent[i]
      <4>2. \A i \in 1 .. b : sent[i] \in Messages
        BY <3>3
      <4>3. /\ p \in Seq(Messages) /\ Len(p) = (IF 1 <= b THEN b - 1 + 1 ELSE 0)
            /\ \A i \in 1 .. b - 1 + 1 : p[i] = sent[1 + i - 1]
        BY <4>2, <3>2, <2>3, SubSeqProperties
      <4>4. b - 1 + 1 = b /\ (~(1 <= b) => b = 0) /\ \A i \in 1 .. b : 1 + i - 1 = i
        OBVIOUS
      <4>5. Len(p) = b /\ \A i \in 1 .. b : p[i] = sent[i]
        BY <4>3, <4>4
      <4>6. p \in Seq(Seq(Bytes))
        BY <4>3, <4>5, <3>3
      <4> QED BY <4>5, <4>6
    <3>5. got' = p
      <4>1. \A i \in 1 .. b : got'[i] = p[i]
        BY <3>4, <2>5
      <4> QED BY <4>1, <3>4, <2>3, <2>4, SeqEqual
    <3> QED BY <3>1, <3>2, <3>5, <2>2, <2>4 DEF C!ChannelNext, C!ChannelDeliver
  <2> QED BY <2>6, <2>7
<1> QED BY <1>1, <1>2, <1>3, <1>4 DEF NewtNext

-----------------------------------------------------------------------------
(* The pipe and the control socket together *)

PipesInv == NewtInv /\ ConnInv

LEMMA PipesInitial == MCInit => PipesInv
  BY NewtInitial, ConnInitial DEF MCInit, PipesInv

LEMMA PipesStep == PipesInv /\ [MCNext]_<<nvars, cvars>> => PipesInv'
<1> SUFFICES ASSUME PipesInv, [MCNext]_<<nvars, cvars>> PROVE PipesInv'
  OBVIOUS
<1>1. NewtInv /\ ConnInv
  BY DEF PipesInv
<1>2. [NewtNext]_nvars /\ [ConnNext]_cvars
  BY DEF MCNext
<1>3. NewtInv' /\ ConnInv'
  BY <1>1, <1>2, NewtStep, ConnStep
<1> QED BY <1>3 DEF PipesInv

LEMMA ConnTyped == ConnInv => ConnTypeOK
<1> SUFFICES ASSUME ConnInv PROVE ConnTypeOK
  OBVIOUS
<1>1. ConnTypes
  BY DEF ConnInv
<1>2. {kan, end} \subseteq BOOLEAN
  BY <1>1, Zenon DEF ConnTypes
<1>3. \A c \in Coqs : \A i \in DOMAIN inn[c] : inn[c][i].tag \in Tags
  <2> SUFFICES ASSUME NEW c \in Coqs, NEW i \in DOMAIN inn[c] PROVE inn[c][i].tag \in Tags
    OBVIOUS
  <2>1. PICK q \in Seq(Reads) : q = inn[c]
    BY <1>1 DEF ConnTypes
  <2>2. q[i] \in Reads
    BY <2>1
  <2> QED BY <2>1, <2>2 DEF Reads
<1>4. nex \in 1 .. MaxConn + 1 /\ can \subseteq 1 .. nex - 1 /\ used \in [Coqs -> SUBSET Rids]
  BY <1>1 DEF ConnTypes
<1>5. DOMAIN cran \subseteq Coqs \X Rids
  BY DEF ConnInv, CranFit
<1> QED BY <1>2, <1>3, <1>4, <1>5 DEF ConnTypeOK

LEMMA PipesAlways == MCSpec => []PipesInv
<1> QED BY PipesInitial, PipesStep, PTL DEF MCSpec

(* For every width of a byte and of the length, every set of messages that *)
(* the length can count, and any number of connections and requests: what  *)
(* u3_newt_decode() holds is a header or a body that is not complete, and  *)
(* every answer on a connection is to one of its requests, once each, but  *)
(* for a last %bail of _conn_moor_bail(), whatever the order of scries,    *)
(* injected events, threads and hangups.                                   *)
THEOREM PipesAreRight == MCSpec => []PipesRight
<1>1. PipesInv => PipesRight
  <2> SUFFICES ASSUME PipesInv PROVE PipesRight
    OBVIOUS
  <2>1. NewtInv /\ ConnInv
    BY DEF PipesInv
  <2> QED BY <2>1, NewtTyped, ConnTyped DEF PipesRight, ConnInv
<1> QED BY <1>1, PipesAlways, PTL

(* However the stream is cut into reads, whichever of                      *)
(* u3_newt_read() and u3_newt_read_sync() was called, whenever the timer   *)
(* of _newt_meat_next() runs out, and also when the stream ends, is        *)
(* stopped or turns into something that is no frame: the reader gets the   *)
(* messages that were sent, whole, once and in order.                      *)
THEOREM NewtImplementsChannel == MCSpec => NewtIsChannel
<1>1. MCInit => C!ChannelInit
  BY Zenon DEF MCInit, NewtInit, NewtParked, C!ChannelInit
<1>2. PipesInv /\ [MCNext]_<<nvars, cvars>> => [C!ChannelNext]_<<sent, got, open>>
  <2> SUFFICES ASSUME PipesInv, [MCNext]_<<nvars, cvars>>
               PROVE  C!ChannelNext \/ UNCHANGED <<sent, got, open>>
    OBVIOUS
  <2>1. NewtNext \/ UNCHANGED nvars
    BY DEF MCNext
  <2>2. UNCHANGED nvars => UNCHANGED <<sent, got, open>>
    BY DEF nvars
  <2> QED BY <2>1, <2>2, ChannelStep DEF PipesInv
<1> QED BY <1>1, <1>2, PipesAlways, PTL DEF MCSpec, NewtIsChannel, C!ChannelSpec

(* Nothing is sent on a connection after _conn_close_chan() freed it: a    *)
(* callback finds its connection in the list, or finds that its request    *)
(* has forgotten it.                                                       *)
THEOREM ConnClosedSilent == MCSpec => ClosedSilent
<1>1. PipesInv /\ [MCNext]_<<nvars, cvars>> => [\A c \in Coqs : out'[c] # out[c] => c \in can]_cvars
  <2> SUFFICES ASSUME PipesInv, ConnNext, NEW c \in Coqs, out'[c] # out[c] PROVE c \in can
    BY DEF MCNext
  <2> QED BY SilentStep DEF PipesInv
<1> QED BY <1>1, PipesAlways, PTL DEF MCSpec, ClosedSilent

-----------------------------------------------------------------------------
(* The driver queues *)

(* The list s of driver c in a heap g, with both directions, its owner and *)
(* its depth.                                                              *)
Links(g, c, s) ==
  /\ s \in Seq(Eggs) /\ (\A i, j \in 1 .. Len(s) : s[i] = s[j] => i = j)
  /\ g.ext[c] = (IF Len(s) = 0 THEN Nil ELSE s[1])
  /\ \A i \in 1 .. Len(s) :
       /\ g.nex[s[i]] = (IF i = Len(s) THEN Nil ELSE s[i + 1])
       /\ g.car[s[i]] = c /\ g.gone[s[i]] = 0

Lane(g, c, s) ==
  /\ Links(g, c, s)
  /\ g.ent[c] = (IF Len(s) = 0 THEN Nil ELSE s[Len(s)])
  /\ \A i \in 1 .. Len(s) : g.pre[s[i]] = (IF i = 1 THEN Nil ELSE s[i - 1])
  /\ g.dep[c] = Len(s) % DepthWrap

LEMMA EggFacts == Eggs \subseteq Nat /\ Nil \notin Eggs /\ Nil = 0 /\ IsFiniteSet(Eggs)
  BY AutoAssumption DEF Nil

LEMMA HeapFacts ==
  ASSUME NEW g \in Heaps
  PROVE  /\ g.ent \in [CarSet -> Eggs \cup {Nil}] /\ g.ext \in [CarSet -> Eggs \cup {Nil}]
         /\ g.dep \in [CarSet -> 0 .. DepthWrap - 1]
         /\ g.pre \in [Eggs -> Eggs \cup {Nil}] /\ g.nex \in [Eggs -> Eggs \cup {Nil}]
         /\ g.car \in [Eggs -> CarSet \cup {NoCar}] /\ g.cad \in [Eggs -> Cards \cup {NoCard}]
         /\ g.try \in [Eggs -> 0 .. 2] /\ g.gone \in [Eggs -> 0 .. 2]
  BY DEF Heaps

(* A list has no more ova than there are. *)
LEMMA ListShort ==
  ASSUME NEW s \in Seq(Eggs), \A i, j \in 1 .. Len(s) : s[i] = s[j] => i = j
  PROVE  Len(s) <= Cardinality(Eggs)
<1>1. PICK n \in Nat : n = Len(s)
  BY LenProperties
<1>2. s \in Injection(1 .. n, Eggs)
  <2>1. s \in [1 .. n -> Eggs]
    BY <1>1
  <2>2. \A i, j \in 1 .. n : s[i] = s[j] => i = j
    BY <1>1
  <2> QED BY <2>1, <2>2 DEF Injection, IsInjective
<1>3. Cardinality(1 .. n) = n
  <2>1. 1 \in Int /\ n \in Int /\ (1 > n => n = 0) /\ n - 1 + 1 = n
    OBVIOUS
  <2>2. Cardinality(1 .. n) = IF 1 > n THEN 0 ELSE n - 1 + 1
    BY <2>1, FS_Interval
  <2> QED BY <2>1, <2>2
<1>4. Cardinality(1 .. n) <= Cardinality(Eggs)
  BY <1>2, EggFacts, FS_Injection
<1> QED BY <1>1, <1>3, <1>4

(* The walk from the exit of a list, or from its entry, meets its ova. *)
LEMMA WalkList ==
  ASSUME NEW link \in [Eggs -> Eggs \cup {Nil}], NEW s \in Seq(Eggs),
         \A i, j \in 1 .. Len(s) : s[i] = s[j] => i = j,
         \A i \in 1 .. Len(s) : link[s[i]] = (IF i = Len(s) THEN Nil ELSE s[i + 1])
  PROVE  Walk(link, IF Len(s) = 0 THEN Nil ELSE s[1]) = s
<1>1. PICK n \in Nat : n = Len(s)
  BY LenProperties
<1>2. PICK N \in Nat : N = Cardinality(Eggs) /\ n <= N
  <2>1. Cardinality(Eggs) \in Nat
    BY EggFacts, FS_CardinalityType
  <2> QED BY <2>1, <1>1, ListShort
<1>3. PICK e : e = IF n = 0 THEN Nil ELSE s[1]
  OBVIOUS
<1> DEFINE F(f) == [k \in 0 .. N |-> IF k = 0 THEN e ELSE LET p == f[k - 1] IN IF p = Nil THEN Nil ELSE link[p]]
           a == [k \in 0 .. N |-> IF k < n THEN s[k + 1] ELSE Nil]
<1>4. \A i \in 1 .. n : s[i] \in Eggs /\ s[i] # Nil /\ link[s[i]] = IF i = n THEN Nil ELSE s[i + 1]
  <2>1. \A i \in 1 .. n : s[i] \in Eggs
    BY <1>1
  <2> QED BY <2>1, <1>1, EggFacts
<1>5. ASSUME NEW k \in 0 .. N PROVE a[k] = F(a)[k]
  <2>1. CASE k = 0
    BY <2>1, <1>3
  <2>2. CASE k # 0 /\ k <= n
    <3>1. k - 1 \in 0 .. N /\ k - 1 < n /\ (k - 1) + 1 = k /\ k \in 1 .. n /\ (k < n <=> k # n)
      BY <2>2, <1>2
    <3>2. a[k - 1] = s[k] /\ a[k] = IF k < n THEN s[k + 1] ELSE Nil
      BY <3>1
    <3>3. F(a)[k] = link[s[k]]
      BY <2>2, <3>1, <3>2, <1>4
    <3> HIDE DEF a, F
    <3> QED BY <3>1, <3>2, <3>3, <1>4
  <2>3. CASE k # 0 /\ ~(k <= n)
    <3>1. k - 1 \in 0 .. N /\ ~(k - 1 < n) /\ ~(k < n)
      BY <2>3, <1>2
    <3>2. a[k - 1] = Nil /\ a[k] = Nil
      BY <3>1
    <3> QED BY <2>3, <3>2
  <2> QED BY <2>1, <2>2, <2>3
<1>6. a = F(a)
  <2>1. DOMAIN a = 0 .. N /\ DOMAIN F(a) = 0 .. N /\ a = [k \in 0 .. N |-> a[k]] /\ F(a) = [k \in 0 .. N |-> F(a)[k]]
    OBVIOUS
  <2> HIDE DEF a, F
  <2> QED BY <2>1, <1>5, ZenonT(60)
<1>7. PICK at : at = (CHOOSE f : f = F(f))
  OBVIOUS
<1>8. at = F(at)
  <2> HIDE DEF F
  <2> QED BY <1>6, <1>7, Zenon
<1>9. at[0] = e /\ \A k \in 1 .. N : at[k] = IF at[k - 1] = Nil THEN Nil ELSE link[at[k - 1]]
  <2>1. \A k \in 0 .. N : at[k] = IF k = 0 THEN e ELSE IF at[k - 1] = Nil THEN Nil ELSE link[at[k - 1]]
    BY <1>8
  <2> QED BY <2>1, <1>2
<1> DEFINE T == {k \in Nat : k <= N => at[k] = a[k]}
<1>10. 0 \in T
  <2>1. 0 \in 0 .. N /\ a[0] = e
    BY <1>3
  <2> HIDE DEF a
  <2> QED BY <2>1, <1>9
<1>11. ASSUME NEW k \in T PROVE k + 1 \in T
  <2>1. SUFFICES ASSUME k + 1 <= N PROVE at[k + 1] = a[k + 1]
    OBVIOUS
  <2>2. k \in Nat /\ k <= N /\ k + 1 \in 1 .. N /\ k + 1 \in 0 .. N /\ (k + 1) - 1 = k /\ k + 1 # 0
    BY <2>1
  <2>3. at[k] = a[k]
    BY <2>2, <1>11
  <2>4. a[k + 1] = F(a)[k + 1]
    BY <2>2, <1>5
  <2>5. F(a)[k + 1] = IF a[k] = Nil THEN Nil ELSE link[a[k]]
    <3> HIDE DEF a
    <3> QED BY <2>2
  <2> HIDE DEF a, F
  <2> QED BY <2>2, <2>3, <2>4, <2>5, <1>9
<1>12. \A k \in 0 .. N : at[k] = a[k]
  <2>1. T \in SUBSET Nat
    OBVIOUS
  <2>2. T = Nat
    <3> HIDE DEF T
    <3> QED BY <2>1, <1>10, <1>11, Induct
  <2>3. \A k \in 0 .. N : k \in T /\ k <= N
    <3> HIDE DEF T
    <3> QED BY <2>2
  <2> HIDE DEF a
  <2> QED BY <2>3
<1> DEFINE met == {k \in 0 .. N : at[k] # Nil}
<1>13. met = 0 .. n - 1
  <2>1. ASSUME NEW k \in 0 .. N PROVE at[k] # Nil <=> k < n
    <3>1. at[k] = IF k < n THEN s[k + 1] ELSE Nil
      BY <1>12
    <3>2. k < n => k + 1 \in 1 .. n
      OBVIOUS
    <3> QED BY <3>1, <3>2, <1>4
  <2>2. \A k \in 0 .. N : k < n <=> k \in 0 .. n - 1
    OBVIOUS
  <2>3. \A k \in 0 .. n - 1 : k \in 0 .. N
    BY <1>2
  <2> QED BY <2>1, <2>2, <2>3
<1>14. Cardinality(met) = n
  <2>1. 0 \in Int /\ n - 1 \in Int /\ (0 > n - 1 => n = 0) /\ n - 1 - 0 + 1 = n
    OBVIOUS
  <2>2. Cardinality(0 .. n - 1) = IF 0 > n - 1 THEN 0 ELSE n - 1 - 0 + 1
    BY <2>1, FS_Interval
  <2> HIDE DEF met
  <2> QED BY <2>1, <2>2, <1>13
<1>15. Walk(link, e) = [i \in 1 .. n |-> at[i - 1]]
  <2>1. Walk(link, e) = [i \in 1 .. Cardinality(met) |-> at[i - 1]]
    BY <1>2, <1>7 DEF Walk
  <2> HIDE DEF met
  <2> QED BY <2>1, <1>14
<1>16. \A i \in 1 .. n : at[i - 1] = s[i]
  <2>1. \A i \in 1 .. n : i - 1 \in 0 .. N /\ i - 1 < n /\ (i - 1) + 1 = i
    BY <1>2
  <2> QED BY <2>1, <1>12
<1>17. s = [i \in 1 .. n |-> s[i]]
  BY <1>1
<1>18. [i \in 1 .. n |-> at[i - 1]] = [i \in 1 .. n |-> s[i]]
  BY <1>16
<1>19. Walk(link, e) = s
  BY ONLY <1>15, <1>17, <1>18, Zenon
<1> QED BY ONLY <1>1, <1>3, <1>19, Zenon

LEMMA ModIs ==
  ASSUME NEW w \in Nat \ {0}, NEW q \in Nat, NEW r \in Nat, r < w
  PROVE  (w * q + r) % w = r
<1>1. PICK a \in Nat : a = w * q + r
  OBVIOUS
<1>2. PICK p \in Nat, u \in Nat : a = w * p + u /\ u < w /\ a % w = u
  BY DivMod
<1>3. CASE p = q
  BY <1>1, <1>2, <1>3
<1>4. CASE p < q
  <2>1. PICK m \in Nat : q = p + 1 + m
    BY <1>4
  <2>2. w * q = w * p + w + w * m /\ w * p \in Nat /\ w * m \in Nat
    BY <2>1
  <2> QED BY <2>2, <1>1, <1>2
<1>5. CASE q < p
  <2>1. PICK m \in Nat : p = q + 1 + m
    BY <1>5
  <2>2. w * p = w * q + w + w * m /\ w * q \in Nat /\ w * m \in Nat
    BY <2>1
  <2> QED BY <2>2, <1>1, <1>2
<1> QED BY <1>3, <1>4, <1>5

(* The depth of a list that grows or shrinks by one. *)
LEMMA Depth ==
  ASSUME NEW n \in Nat
  PROVE  /\ n % DepthWrap \in 0 .. DepthWrap - 1
         /\ ((n % DepthWrap) + 1) % DepthWrap = (n + 1) % DepthWrap
         /\ n # 0 => ((n % DepthWrap) + DepthWrap - 1) % DepthWrap = (n - 1) % DepthWrap
         /\ 0 % DepthWrap = 0 /\ 1 % DepthWrap = 1
<1>1. PICK w \in Nat \ {0} : w = DepthWrap /\ 1 < w
  BY AutoAssumption
<1>2. PICK q \in Nat, r \in Nat : n = w * q + r /\ r < w /\ n % w = r
  BY DivMod
<1>3. r \in 0 .. w - 1
  BY <1>2
<1>4. 0 % w = 0 /\ 1 % w = 1
  <2>1. 0 \in Nat /\ 1 \in Nat /\ 0 < w /\ w * 0 + 0 = 0 /\ w * 0 + 1 = 1
    BY <1>1
  <2>2. (w * 0 + 0) % w = 0 /\ (w * 0 + 1) % w = 1
    BY <2>1, <1>1, ModIs
  <2> QED BY <2>1, <2>2
<1>5. (r + 1) % w = (n + 1) % w
  <2>1. CASE r + 1 < w
    <3>1. n + 1 = w * q + (r + 1) /\ r + 1 = w * 0 + (r + 1) /\ r + 1 \in Nat
      BY <1>2
    <3>2. (w * q + (r + 1)) % w = r + 1 /\ (w * 0 + (r + 1)) % w = r + 1
      BY <2>1, <3>1, ModIs
    <3> QED BY <3>1, <3>2
  <2>2. CASE ~(r + 1 < w)
    <3>1. n + 1 = w * (q + 1) + 0 /\ r + 1 = w * 1 + 0 /\ q + 1 \in Nat
      BY <2>2, <1>2
    <3>2. (w * (q + 1) + 0) % w = 0 /\ (w * 1 + 0) % w = 0
      BY <3>1, <1>1, ModIs
    <3> QED BY <3>1, <3>2
  <2> QED BY <2>1, <2>2
<1>6. ASSUME n # 0 PROVE (r + w - 1) % w = (n - 1) % w
  <2>1. CASE r # 0
    <3>1. n - 1 = w * q + (r - 1) /\ r + w - 1 = w * 1 + (r - 1) /\ r - 1 \in Nat /\ r - 1 < w
      BY <2>1, <1>2
    <3>2. (w * q + (r - 1)) % w = r - 1 /\ (w * 1 + (r - 1)) % w = r - 1
      BY <3>1, ModIs
    <3> QED BY <3>1, <3>2
  <2>2. CASE r = 0
    <3>1. q # 0 /\ q - 1 \in Nat /\ w - 1 \in Nat /\ w - 1 < w
      BY <2>2, <1>2, <1>6
    <3>2. w * q = w * (q - 1) + w
      BY <3>1
    <3>3. n - 1 = w * (q - 1) + (w - 1) /\ r + w - 1 = w * 0 + (w - 1)
      BY <2>2, <3>1, <3>2, <1>2
    <3>4. (w * (q - 1) + (w - 1)) % w = w - 1 /\ (w * 0 + (w - 1)) % w = w - 1
      BY <3>1, ModIs
    <3> QED BY <3>3, <3>4
  <2> QED BY <2>1, <2>2
<1> QED BY <1>1, <1>2, <1>3, <1>4, <1>5, <1>6

(* What u3_auto_exit() would find. *)
LEMMA LaneWalks ==
  ASSUME NEW g \in Heaps, NEW c \in CarSet, NEW s
  PROVE  /\ Links(g, c, s) => Waiting(g, c) = s
         /\ Lane(g, c, s) => Reverse(Walk(g.pre, g.ent[c])) = s
<1>1. ASSUME Links(g, c, s) PROVE Waiting(g, c) = s
  <2>1. g.nex \in [Eggs -> Eggs \cup {Nil}]
    BY HeapFacts
  <2>2. s \in Seq(Eggs) /\ (\A i, j \in 1 .. Len(s) : s[i] = s[j] => i = j)
    BY <1>1 DEF Links
  <2>3. \A i \in 1 .. Len(s) : g.nex[s[i]] = (IF i = Len(s) THEN Nil ELSE s[i + 1])
    BY <1>1 DEF Links
  <2>4. Walk(g.nex, IF Len(s) = 0 THEN Nil ELSE s[1]) = s
    BY <2>1, <2>2, <2>3, WalkList
  <2> QED BY <2>4, <1>1 DEF Waiting, Links
<1>2. ASSUME Lane(g, c, s) PROVE Reverse(Walk(g.pre, g.ent[c])) = s
  <2>1. g.pre \in [Eggs -> Eggs \cup {Nil}]
    BY HeapFacts
  <2>2. s \in Seq(Eggs) /\ (\A i, j \in 1 .. Len(s) : s[i] = s[j] => i = j)
    BY <1>2 DEF Lane, Links
  <2>3. PICK n \in Nat : n = Len(s)
    BY <2>2, LenProperties
  <2>4. PICK t : t = [i \in 1 .. n |-> s[n - i + 1]]
    OBVIOUS
  <2>5. \A i \in 1 .. n : n - i + 1 \in 1 .. n /\ s[n - i + 1] \in Eggs /\ n - (n - i + 1) + 1 = i
    <3>1. \A i \in 1 .. n : n - i + 1 \in 1 .. n /\ n - (n - i + 1) + 1 = i
      OBVIOUS
    <3>2. \A i \in 1 .. n : s[i] \in Eggs
      BY <2>2, <2>3
    <3> QED BY <3>1, <3>2
  <2>6. t \in Seq(Eggs) /\ Len(t) = n /\ \A i \in 1 .. n : t[i] = s[n - i + 1]
    BY <2>4, <2>5
  <2>7. ASSUME NEW i \in 1 .. n, NEW j \in 1 .. n, t[i] = t[j] PROVE i = j
    <3>1. s[n - i + 1] = s[n - j + 1]
      BY <2>6, <2>7
    <3>2. n - i + 1 = n - j + 1
      BY <3>1, <2>2, <2>3, <2>5
    <3> QED BY <3>2
  <2>8. ASSUME NEW i \in 1 .. n PROVE g.pre[t[i]] = IF i = n THEN Nil ELSE t[i + 1]
    <3>1. PICK k \in 1 .. n : k = n - i + 1
      BY <2>5
    <3>2. g.pre[s[k]] = IF k = 1 THEN Nil ELSE s[k - 1]
      BY <2>3, <1>2 DEF Lane
    <3>3. t[i] = s[k] /\ (k = 1 <=> i = n)
      BY <3>1, <2>6
    <3>4. i # n => i + 1 \in 1 .. n /\ n - (i + 1) + 1 = k - 1
      BY <3>1
    <3>5. i # n => t[i + 1] = s[k - 1]
      BY <3>4, <2>6
    <3> QED BY <3>2, <3>3, <3>5
  <2>9. Walk(g.pre, IF Len(t) = 0 THEN Nil ELSE t[1]) = t
    <3>1. \A i, j \in 1 .. Len(t) : t[i] = t[j] => i = j
      BY <2>6, <2>7
    <3>2. \A i \in 1 .. Len(t) : g.pre[t[i]] = (IF i = Len(t) THEN Nil ELSE t[i + 1])
      BY <2>6, <2>8
    <3> QED BY <3>1, <3>2, <2>1, <2>6, WalkList
  <2>10. g.ent[c] = IF Len(t) = 0 THEN Nil ELSE t[1]
    <3>1. g.ent[c] = IF n = 0 THEN Nil ELSE s[n]
      BY <2>3, <1>2 DEF Lane
    <3>2. n # 0 => 1 \in 1 .. n /\ n - 1 + 1 = n
      OBVIOUS
    <3>3. n # 0 => t[1] = s[n]
      BY <3>2, <2>6
    <3> QED BY <3>1, <3>3, <2>6
  <2>11. Reverse(t) = s
    <3>1. Reverse(t) = [i \in 1 .. n |-> t[(n - i) + 1]]
      BY <2>6 DEF Reverse
    <3>2. \A i \in 1 .. n : t[(n - i) + 1] = s[i]
      BY <2>5, <2>6
    <3>3. s = [i \in 1 .. n |-> s[i]]
      BY <2>2, <2>3
    <3>4. [i \in 1 .. n |-> t[(n - i) + 1]] = [i \in 1 .. n |-> s[i]]
      BY <3>2
    <3> QED BY ONLY <3>1, <3>3, <3>4, Zenon
  <2> QED BY <2>9, <2>10, <2>11
<1> QED BY <1>1, <1>2

-----------------------------------------------------------------------------
(* What each operation does to the fields of a heap *)

Names == {"ent", "ext", "dep", "pre", "nex", "car", "cad", "try", "gone"}

Whole(k) == DOMAIN k = Names /\ k = [w \in DOMAIN k |-> k[w]]

LEMMA HeapIsWhole == ASSUME NEW g \in Heaps PROVE Whole(g)
  BY DEF Whole, Names, Heaps

LEMMA WholeHeap ==
  ASSUME NEW k, Whole(k),
         k.ent \in [CarSet -> Eggs \cup {Nil}], k.ext \in [CarSet -> Eggs \cup {Nil}],
         k.dep \in [CarSet -> 0 .. DepthWrap - 1],
         k.pre \in [Eggs -> Eggs \cup {Nil}], k.nex \in [Eggs -> Eggs \cup {Nil}],
         k.car \in [Eggs -> CarSet \cup {NoCar}], k.cad \in [Eggs -> Cards \cup {NoCard}],
         k.try \in [Eggs -> 0 .. 2], k.gone \in [Eggs -> 0 .. 2]
  PROVE  k \in Heaps
<1>1. k = [ent |-> k.ent, ext |-> k.ext, dep |-> k.dep, pre |-> k.pre, nex |-> k.nex,
           car |-> k.car, cad |-> k.cad, try |-> k.try, gone |-> k.gone]
  BY ZenonT(60) DEF Whole, Names
<1> QED BY <1>1 DEF Heaps

LoneIn(k, g, c, e) ==
  /\ Whole(k)
  /\ k.ent = [g.ent EXCEPT ![c] = e] /\ k.ext = [g.ext EXCEPT ![c] = e] /\ k.dep = [g.dep EXCEPT ![c] = 1]
  /\ k.pre = [g.pre EXCEPT ![e] = Nil] /\ k.nex = [g.nex EXCEPT ![e] = Nil]
  /\ k.car = g.car /\ k.cad = g.cad /\ k.try = g.try /\ k.gone = g.gone

LEMMA PutIn ==
  ASSUME NEW S, NEW X, NEW f \in [S -> X], NEW c, NEW v \in X
  PROVE  [f EXCEPT ![c] = v] \in [S -> X]
  OBVIOUS

LEMMA AloneFields ==
  ASSUME NEW g, Whole(g), NEW c, NEW e
  PROVE  LoneIn(Alone(g, c, e), g, c, e)
<1>1. PICK k : k = Alone(g, c, e)
  OBVIOUS
<1>2. Whole(k)
  BY <1>1, ZenonT(60) DEF Whole, Alone
<1>3. k.ent = [g.ent EXCEPT ![c] = e] /\ k.ext = [g.ext EXCEPT ![c] = e] /\ k.dep = [g.dep EXCEPT ![c] = 1]
  BY <1>1 DEF Whole, Names, Alone
<1>4. k.pre = [g.pre EXCEPT ![e] = Nil] /\ k.nex = [g.nex EXCEPT ![e] = Nil]
  BY <1>1 DEF Whole, Names, Alone
<1>5. k.car = g.car /\ k.cad = g.cad /\ k.try = g.try /\ k.gone = g.gone
  BY <1>1 DEF Whole, Names, Alone
<1>6. LoneIn(k, g, c, e)
  BY ONLY <1>2, <1>3, <1>4, <1>5 DEF LoneIn
<1> QED BY <1>1, <1>6

(* Ovum e is put at the back of the list of c. *)
PlanIs(k, g, c, e) ==
  /\ \A d \in CarSet :
       /\ k.ent[d] = (IF d = c THEN e ELSE g.ent[d])
       /\ k.ext[d] = (IF d = c /\ g.ent[c] = Nil THEN e ELSE g.ext[d])
       /\ k.dep[d] = (IF d # c THEN g.dep[d]
                      ELSE IF g.ent[c] = Nil THEN 1 ELSE (g.dep[c] + 1) % DepthWrap)
  /\ \A x \in Eggs :
       /\ k.nex[x] = (IF x = g.ent[c] THEN e ELSE IF x = e THEN Nil ELSE g.nex[x])
       /\ k.pre[x] = (IF x = e THEN g.ent[c] ELSE g.pre[x])
       /\ k.car[x] = (IF x = e THEN c ELSE g.car[x])
       /\ k.gone[x] = (IF x = e THEN 0 ELSE g.gone[x])

LEMMA PlanFields ==
  ASSUME NEW g \in Heaps, NEW c \in CarSet, NEW e \in Eggs, NEW cad \in Cards,
         NEW k, k = AutoPlan(Made(g, e, cad), c, e)
  PROVE  /\ k \in Heaps
         /\ PlanIs(k, g, c, e)
<1>1. PICK m : m = [Made(g, e, cad) EXCEPT !.car[e] = c]
  OBVIOUS
<1>2. /\ Whole(m)
      /\ m.ent = g.ent /\ m.ext = g.ext /\ m.dep = g.dep /\ m.pre = g.pre /\ m.nex = g.nex
      /\ m.car = [g.car EXCEPT ![e] = c] /\ m.cad = [g.cad EXCEPT ![e] = cad]
      /\ m.try = g.try /\ m.gone = [g.gone EXCEPT ![e] = 0]
  <2>1. Whole(g)
    BY HeapIsWhole
  <2>2. Whole(m)
    BY <2>1, <1>1 DEF Whole, Made
  <2>3. m.ent = g.ent /\ m.ext = g.ext /\ m.dep = g.dep /\ m.pre = g.pre /\ m.nex = g.nex /\ m.try = g.try
    BY <2>1, <1>1 DEF Whole, Names, Made
  <2>4. /\ m.car = [g.car EXCEPT ![e] = c] /\ m.cad = [g.cad EXCEPT ![e] = cad]
        /\ m.gone = [g.gone EXCEPT ![e] = 0]
    BY <2>1, <1>1 DEF Whole, Names, Made
  <2> QED BY <2>2, <2>3, <2>4
<1>3. /\ 1 \in 0 .. DepthWrap - 1 /\ (g.dep[c] + 1) % DepthWrap \in 0 .. DepthWrap - 1
      /\ Nil \notin Eggs
  <2>1. g.dep[c] + 1 \in Nat
    BY HeapFacts, AutoAssumption
  <2> QED BY <2>1, Depth, EggFacts, AutoAssumption, ZenonT(60)
<1>4. k = IF m.ent[c] = Nil THEN Alone(m, c, e)
          ELSE [m EXCEPT !.nex = [@ EXCEPT ![e] = Nil, ![m.ent[c]] = e],
                   !.pre[e] = m.ent[c], !.ent[c] = e, !.dep[c] = (@ + 1) % DepthWrap]
  BY <1>1 DEF AutoPlan
<1>5. CASE g.ent[c] = Nil
  <2>1. /\ Whole(k)
        /\ k.ent = [g.ent EXCEPT ![c] = e] /\ k.ext = [g.ext EXCEPT ![c] = e] /\ k.dep = [g.dep EXCEPT ![c] = 1]
        /\ k.pre = [g.pre EXCEPT ![e] = Nil] /\ k.nex = [g.nex EXCEPT ![e] = Nil]
        /\ k.car = [g.car EXCEPT ![e] = c] /\ k.cad = [g.cad EXCEPT ![e] = cad]
        /\ k.try = g.try /\ k.gone = [g.gone EXCEPT ![e] = 0]
    <3>1. k = Alone(m, c, e)
      BY <1>2, <1>4, <1>5
    <3>2. LoneIn(k, m, c, e)
      BY <3>1, <1>2, AloneFields
    <3> QED BY ONLY <3>2, <1>2, Zenon DEF LoneIn
  <2>2. k \in Heaps
    <3>1. k.ent \in [CarSet -> Eggs \cup {Nil}] /\ k.ext \in [CarSet -> Eggs \cup {Nil}]
      BY <2>1, HeapFacts
    <3>2. k.dep \in [CarSet -> 0 .. DepthWrap - 1]
      BY <2>1, <1>3, HeapFacts
    <3>3. k.pre \in [Eggs -> Eggs \cup {Nil}] /\ k.nex \in [Eggs -> Eggs \cup {Nil}]
      BY <2>1, HeapFacts
    <3>4. k.car \in [Eggs -> CarSet \cup {NoCar}] /\ k.cad \in [Eggs -> Cards \cup {NoCard}]
          /\ k.try \in [Eggs -> 0 .. 2] /\ k.gone \in [Eggs -> 0 .. 2]
      BY <2>1, HeapFacts
    <3> QED BY <2>1, <3>1, <3>2, <3>3, <3>4, WholeHeap
  <2> QED BY <1>3, <1>5, <2>1, <2>2, HeapFacts DEF PlanIs
<1>6. CASE g.ent[c] # Nil
  <2>1. k = [m EXCEPT !.nex = [@ EXCEPT ![e] = Nil, ![m.ent[c]] = e],
                   !.pre[e] = m.ent[c], !.ent[c] = e, !.dep[c] = (@ + 1) % DepthWrap]
    BY <1>2, <1>4, <1>6
  <2>2. Whole(k)
    BY <2>1, <1>2, ZenonT(60) DEF Whole
  <2>3. /\ k.ent = [m.ent EXCEPT ![c] = e] /\ k.ext = m.ext
        /\ k.dep = [m.dep EXCEPT ![c] = (@ + 1) % DepthWrap]
    BY <2>1, <1>2 DEF Whole, Names
  <2>4. /\ k.pre = [m.pre EXCEPT ![e] = m.ent[c]]
        /\ k.nex = [m.nex EXCEPT ![e] = Nil, ![m.ent[c]] = e]
    BY <2>1, <1>2 DEF Whole, Names
  <2>5. k.car = m.car /\ k.cad = m.cad /\ k.try = m.try /\ k.gone = m.gone
    BY <2>1, <1>2 DEF Whole, Names
  <2>6. g.ent[c] \in Eggs
    BY <1>6, HeapFacts
  <2>7. k \in Heaps
    <3>1. k.ent \in [CarSet -> Eggs \cup {Nil}] /\ k.ext \in [CarSet -> Eggs \cup {Nil}]
      BY <2>3, <1>2, HeapFacts
    <3>2. k.dep \in [CarSet -> 0 .. DepthWrap - 1]
      BY <2>3, <1>2, <1>3, HeapFacts
    <3>3. k.pre \in [Eggs -> Eggs \cup {Nil}] /\ k.nex \in [Eggs -> Eggs \cup {Nil}]
      BY <2>4, <1>2, <2>6, HeapFacts
    <3>4. k.car \in [Eggs -> CarSet \cup {NoCar}] /\ k.cad \in [Eggs -> Cards \cup {NoCard}]
          /\ k.try \in [Eggs -> 0 .. 2] /\ k.gone \in [Eggs -> 0 .. 2]
      BY <2>5, <1>2, HeapFacts
    <3> QED BY <2>2, <3>1, <3>2, <3>3, <3>4, WholeHeap
  <2>8. \A d \in CarSet :
              /\ k.ent[d] = (IF d = c THEN e ELSE g.ent[d])
              /\ k.ext[d] = (IF d = c /\ g.ent[c] = Nil THEN e ELSE g.ext[d])
              /\ k.dep[d] = (IF d # c THEN g.dep[d]
                             ELSE IF g.ent[c] = Nil THEN 1 ELSE (g.dep[c] + 1) % DepthWrap)
    BY <1>2, <1>6, <2>3, HeapFacts
  <2>9. \A x \in Eggs :
              /\ k.nex[x] = (IF x = g.ent[c] THEN e ELSE IF x = e THEN Nil ELSE g.nex[x])
              /\ k.pre[x] = (IF x = e THEN g.ent[c] ELSE g.pre[x])
    BY <1>2, <1>6, <2>4, HeapFacts
  <2>10. \A x \in Eggs :
              /\ k.car[x] = (IF x = e THEN c ELSE g.car[x])
              /\ k.gone[x] = (IF x = e THEN 0 ELSE g.gone[x])
    BY <1>2, <2>5, HeapFacts
  <2> QED BY <2>7, <2>8, <2>9, <2>10 DEF PlanIs
<1> QED BY <1>5, <1>6 DEF PlanIs

LEMMA FreedFields ==
  ASSUME NEW g \in Heaps, NEW e \in Eggs, NEW k, k = Freed(g, e)
  PROVE  /\ k \in Heaps
         /\ k.ent = g.ent /\ k.ext = g.ext /\ k.dep = g.dep
         /\ \A x \in Eggs :
              /\ k.nex[x] = (IF x = e THEN Nil ELSE g.nex[x])
              /\ k.pre[x] = (IF x = e THEN Nil ELSE g.pre[x])
              /\ k.car[x] = (IF x = e THEN NoCar ELSE g.car[x])
              /\ k.gone[x] = (IF x # e THEN g.gone[x]
                              ELSE IF g.gone[e] = 2 THEN 2 ELSE g.gone[e] + 1)
<1>1. Whole(g)
  BY HeapIsWhole
<1>2. Whole(k)
  BY <1>1, ZenonT(60) DEF Whole, Freed
<1>3. k.ent = g.ent /\ k.ext = g.ext /\ k.dep = g.dep
  BY <1>1 DEF Whole, Names, Freed
<1>4. /\ k.pre = [g.pre EXCEPT ![e] = Nil] /\ k.nex = [g.nex EXCEPT ![e] = Nil]
      /\ k.car = [g.car EXCEPT ![e] = NoCar] /\ k.cad = [g.cad EXCEPT ![e] = NoCard]
  BY <1>1 DEF Whole, Names, Freed
<1>5. /\ k.try = [g.try EXCEPT ![e] = 0]
      /\ k.gone = [g.gone EXCEPT ![e] = IF g.gone[e] = 2 THEN 2 ELSE g.gone[e] + 1]
  BY <1>1 DEF Whole, Names, Freed
<1>6. k \in Heaps
  <2>1. k.ent \in [CarSet -> Eggs \cup {Nil}] /\ k.ext \in [CarSet -> Eggs \cup {Nil}]
    BY <1>3, HeapFacts
  <2>2. k.dep \in [CarSet -> 0 .. DepthWrap - 1]
    BY <1>3, HeapFacts
  <2>3. k.pre \in [Eggs -> Eggs \cup {Nil}] /\ k.nex \in [Eggs -> Eggs \cup {Nil}]
    BY <1>4, HeapFacts
  <2>4. k.car \in [Eggs -> CarSet \cup {NoCar}] /\ k.cad \in [Eggs -> Cards \cup {NoCard}]
    BY <1>4, HeapFacts
  <2>5. k.try \in [Eggs -> 0 .. 2] /\ k.gone \in [Eggs -> 0 .. 2]
    BY <1>5, HeapFacts
  <2> QED BY <1>2, <2>1, <2>2, <2>3, <2>4, <2>5, WholeHeap
<1> QED BY <1>3, <1>4, <1>5, <1>6, HeapFacts

(* What u3_auto_drop() does before the ovum is freed. *)
LEMMA DropFields ==
  ASSUME NEW g \in Heaps, NEW e \in Eggs, NEW k, k = AutoDrop(g, e)
  PROVE  /\ k \in Heaps
         /\ g.pre[e] = Nil /\ g.nex[e] = Nil =>
              /\ \A d \in CarSet : k.ext[d] = (IF d = g.car[e] THEN Nil ELSE g.ext[d])
              /\ \A x \in Eggs :
                   /\ k.nex[x] = g.nex[x] /\ k.pre[x] = g.pre[x]
                   /\ k.car[x] = (IF x = e THEN NoCar ELSE g.car[x])
                   /\ k.gone[x] = (IF x # e THEN g.gone[x]
                                   ELSE IF g.gone[e] = 2 THEN 2 ELSE g.gone[e] + 1)
<1>1. PICK c : c = g.car[e]
  OBVIOUS
<1>2. PICK h1 : h1 = IF g.pre[e] = Nil THEN [g EXCEPT !.ext[c] = g.nex[e]]
                     ELSE [g EXCEPT !.nex[g.pre[e]] = g.nex[e]]
  OBVIOUS
<1>3. PICK h2 : h2 = IF g.nex[e] = Nil THEN [h1 EXCEPT !.ent[c] = g.pre[e]]
                     ELSE [h1 EXCEPT !.pre[g.nex[e]] = g.pre[e]]
  OBVIOUS
<1>4. PICK h3 : h3 = [h2 EXCEPT !.dep[c] = (@ + DepthWrap - 1) % DepthWrap, !.nex[e] = Nil, !.pre[e] = Nil]
  OBVIOUS
<1>5. k = Freed(h3, e)
  BY <1>1, <1>2, <1>3, <1>4, SMTT(30) DEF AutoDrop
<1>6. g.pre[e] \in Eggs \cup {Nil} /\ g.nex[e] \in Eggs \cup {Nil} /\ Whole(g)
  BY HeapFacts, HeapIsWhole
<1>7. /\ Whole(h1) /\ h1.ent = g.ent /\ h1.dep = g.dep /\ h1.pre = g.pre /\ h1.car = g.car
      /\ h1.cad = g.cad /\ h1.try = g.try /\ h1.gone = g.gone
  <2>1. Whole(h1)
    BY <1>2, <1>6 DEF Whole
  <2> QED BY <2>1, <1>2, <1>6 DEF Whole, Names
<1>8. /\ h1.ext = (IF g.pre[e] = Nil THEN [g.ext EXCEPT ![c] = g.nex[e]] ELSE g.ext)
      /\ h1.nex = (IF g.pre[e] = Nil THEN g.nex ELSE [g.nex EXCEPT ![g.pre[e]] = g.nex[e]])
  BY <1>2, <1>6 DEF Whole, Names
<1>9. /\ Whole(h2) /\ h2.ext = h1.ext /\ h2.dep = h1.dep /\ h2.nex = h1.nex /\ h2.car = h1.car
      /\ h2.cad = h1.cad /\ h2.try = h1.try /\ h2.gone = h1.gone
  <2>1. Whole(h2)
    BY <1>3, <1>7 DEF Whole
  <2> QED BY <2>1, <1>3, <1>7 DEF Whole, Names
<1>10. /\ h2.ent = (IF g.nex[e] = Nil THEN [h1.ent EXCEPT ![c] = g.pre[e]] ELSE h1.ent)
       /\ h2.pre = (IF g.nex[e] = Nil THEN h1.pre ELSE [h1.pre EXCEPT ![g.nex[e]] = g.pre[e]])
  BY <1>3, <1>7 DEF Whole, Names
<1>11. Whole(h3)
  BY <1>4, <1>9 DEF Whole
<1>12. /\ h3.ent = h2.ent /\ h3.ext = h2.ext /\ h3.car = h2.car
       /\ h3.cad = h2.cad /\ h3.try = h2.try /\ h3.gone = h2.gone
  BY <1>4, <1>9 DEF Whole, Names
<1>13. /\ h3.dep = [h2.dep EXCEPT ![c] = (@ + DepthWrap - 1) % DepthWrap]
       /\ h3.nex = [h2.nex EXCEPT ![e] = Nil] /\ h3.pre = [h2.pre EXCEPT ![e] = Nil]
  BY <1>4, <1>9 DEF Whole, Names
<1>14. h3 \in Heaps
  <2>1. h3.ent \in [CarSet -> Eggs \cup {Nil}]
    <3>1. h3.ent = (IF g.nex[e] = Nil THEN [g.ent EXCEPT ![c] = g.pre[e]] ELSE g.ent)
      BY <1>7, <1>10, <1>12, Zenon
    <3>2. [g.ent EXCEPT ![c] = g.pre[e]] \in [CarSet -> Eggs \cup {Nil}] /\ g.ent \in [CarSet -> Eggs \cup {Nil}]
      BY <1>6, HeapFacts, PutIn
    <3> QED BY <3>1, <3>2, Zenon
  <2>6. h3.ext \in [CarSet -> Eggs \cup {Nil}]
    <3>1. h3.ext = (IF g.pre[e] = Nil THEN [g.ext EXCEPT ![c] = g.nex[e]] ELSE g.ext)
      BY <1>8, <1>9, <1>12, Zenon
    <3>2. [g.ext EXCEPT ![c] = g.nex[e]] \in [CarSet -> Eggs \cup {Nil}] /\ g.ext \in [CarSet -> Eggs \cup {Nil}]
      BY <1>6, HeapFacts, PutIn
    <3> QED BY <3>1, <3>2, Zenon
  <2>2. h3.dep \in [CarSet -> 0 .. DepthWrap - 1]
    <3>1. g.dep \in [CarSet -> 0 .. DepthWrap - 1] /\ h3.dep = [g.dep EXCEPT ![c] = (@ + DepthWrap - 1) % DepthWrap]
      BY <1>7, <1>9, <1>13, HeapFacts
    <3>2. \A v \in 0 .. DepthWrap - 1 : (v + DepthWrap - 1) % DepthWrap \in 0 .. DepthWrap - 1
      <4>1. \A v \in 0 .. DepthWrap - 1 : v + DepthWrap - 1 \in Nat
        BY AutoAssumption
      <4> QED BY <4>1, Depth
    <3> QED BY <3>1, <3>2, ZenonT(60)
  <2>3. h3.pre \in [Eggs -> Eggs \cup {Nil}]
    BY <1>6, <1>7, <1>10, <1>13, HeapFacts
  <2>4. h3.nex \in [Eggs -> Eggs \cup {Nil}]
    BY <1>6, <1>8, <1>9, <1>13, HeapFacts
  <2>5. h3.car \in [Eggs -> CarSet \cup {NoCar}] /\ h3.cad \in [Eggs -> Cards \cup {NoCard}]
        /\ h3.try \in [Eggs -> 0 .. 2] /\ h3.gone \in [Eggs -> 0 .. 2]
    BY <1>7, <1>9, <1>12, HeapFacts
  <2> QED BY <1>11, <2>1, <2>2, <2>3, <2>4, <2>5, <2>6, WholeHeap
<1>15. /\ k \in Heaps
       /\ k.ext = h3.ext
       /\ \A x \in Eggs :
              /\ k.nex[x] = (IF x = e THEN Nil ELSE h3.nex[x])
              /\ k.pre[x] = (IF x = e THEN Nil ELSE h3.pre[x])
              /\ k.car[x] = (IF x = e THEN NoCar ELSE h3.car[x])
              /\ k.gone[x] = (IF x # e THEN h3.gone[x]
                              ELSE IF h3.gone[e] = 2 THEN 2 ELSE h3.gone[e] + 1)
  BY <1>5, <1>14, FreedFields, SMTT(30)
<1>16. ASSUME g.pre[e] = Nil, g.nex[e] = Nil
       PROVE  /\ \A d \in CarSet : k.ext[d] = (IF d = g.car[e] THEN Nil ELSE g.ext[d])
              /\ \A x \in Eggs :
                   /\ k.nex[x] = g.nex[x] /\ k.pre[x] = g.pre[x]
                   /\ k.car[x] = (IF x = e THEN NoCar ELSE g.car[x])
                   /\ k.gone[x] = (IF x # e THEN g.gone[x]
                                   ELSE IF g.gone[e] = 2 THEN 2 ELSE g.gone[e] + 1)
  <2>1. /\ h3.ext = [g.ext EXCEPT ![c] = Nil] /\ h3.nex = [g.nex EXCEPT ![e] = Nil]
        /\ h3.pre = [g.pre EXCEPT ![e] = Nil] /\ h3.car = g.car /\ h3.gone = g.gone
    BY <1>16, <1>7, <1>8, <1>9, <1>10, <1>12, <1>13
  <2> QED BY <2>1, <1>1, <1>15, <1>16, HeapFacts
<1> QED BY <1>15, <1>16

(* Ovum e is taken from the front. *)
NextIs(k, g, c, e) ==
  /\ \A d \in CarSet :
       /\ k.ent[d] = (IF d = c /\ g.nex[e] = Nil THEN Nil ELSE g.ent[d])
       /\ k.ext[d] = (IF d = c THEN g.nex[e] ELSE g.ext[d])
       /\ k.dep[d] = (IF d # c THEN g.dep[d]
                      ELSE IF g.nex[e] = Nil THEN 0 ELSE (g.dep[c] + DepthWrap - 1) % DepthWrap)
  /\ \A x \in Eggs :
       /\ k.nex[x] = (IF x = e THEN Nil ELSE g.nex[x])
       /\ k.pre[x] = (IF x = g.nex[e] THEN Nil ELSE g.pre[x])
       /\ k.car[x] = g.car[x] /\ k.gone[x] = g.gone[x]

LEMMA NextFields ==
  ASSUME NEW g \in Heaps, NEW c \in CarSet, Giver(g) = c, NEW e \in Eggs, e = g.ext[c],
         NEW k, k = AutoNext(g)
  PROVE  /\ k \in Heaps
         /\ NextIs(k, g, c, e)
<1>1. PICK n \in Eggs \cup {Nil} : n = g.nex[e] /\ Nil \notin Eggs
  BY HeapFacts, EggFacts
<1>2. k = IF n # Nil
          THEN [g EXCEPT !.pre[n] = Nil, !.ext[c] = n,
                         !.dep[c] = (@ + DepthWrap - 1) % DepthWrap, !.nex[e] = Nil]
          ELSE [g EXCEPT !.ent[c] = Nil, !.ext[c] = Nil, !.dep[c] = 0, !.nex[e] = Nil]
  BY <1>1 DEF AutoNext
<1>3. Whole(g)
  BY HeapIsWhole
<1>4. 0 \in 0 .. DepthWrap - 1 /\ (g.dep[c] + DepthWrap - 1) % DepthWrap \in 0 .. DepthWrap - 1
  <2>1. g.dep[c] + DepthWrap - 1 \in Nat
    BY HeapFacts, AutoAssumption
  <2> QED BY <2>1, Depth, AutoAssumption, ZenonT(60)
<1>5. Whole(k)
  <2>1. CASE n # Nil
    BY <2>1, <1>2, <1>3 DEF Whole
  <2>2. CASE n = Nil
    BY <2>2, <1>2, <1>3 DEF Whole
  <2> QED BY <2>1, <2>2
<1>6. k.car = g.car /\ k.cad = g.cad /\ k.try = g.try /\ k.gone = g.gone
  BY <1>2, <1>3 DEF Whole, Names
<1>7. k.nex = [g.nex EXCEPT ![e] = Nil]
  BY <1>2, <1>3 DEF Whole, Names
<1>8. /\ k.ext = [g.ext EXCEPT ![c] = n]
      /\ k.ent = (IF n = Nil THEN [g.ent EXCEPT ![c] = Nil] ELSE g.ent)
  BY <1>2, <1>3 DEF Whole, Names
<1>9. /\ k.dep = [g.dep EXCEPT ![c] = IF n = Nil THEN 0 ELSE (g.dep[c] + DepthWrap - 1) % DepthWrap]
      /\ k.pre = (IF n = Nil THEN g.pre ELSE [g.pre EXCEPT ![n] = Nil])
  BY <1>2, <1>3 DEF Whole, Names
<1>10. k \in Heaps
  <2>1. k.ent \in [CarSet -> Eggs \cup {Nil}] /\ k.ext \in [CarSet -> Eggs \cup {Nil}]
    BY <1>8, HeapFacts
  <2>2. k.dep \in [CarSet -> 0 .. DepthWrap - 1]
    BY <1>4, <1>9, HeapFacts
  <2>3. k.pre \in [Eggs -> Eggs \cup {Nil}] /\ k.nex \in [Eggs -> Eggs \cup {Nil}]
    BY <1>7, <1>9, HeapFacts
  <2>4. k.car \in [Eggs -> CarSet \cup {NoCar}] /\ k.cad \in [Eggs -> Cards \cup {NoCard}]
        /\ k.try \in [Eggs -> 0 .. 2] /\ k.gone \in [Eggs -> 0 .. 2]
    BY <1>6, HeapFacts
  <2> QED BY <1>5, <2>1, <2>2, <2>3, <2>4, WholeHeap
<1>11. \A d \in CarSet :
              /\ k.ent[d] = (IF d = c /\ g.nex[e] = Nil THEN Nil ELSE g.ent[d])
              /\ k.ext[d] = (IF d = c THEN g.nex[e] ELSE g.ext[d])
              /\ k.dep[d] = (IF d # c THEN g.dep[d]
                             ELSE IF g.nex[e] = Nil THEN 0 ELSE (g.dep[c] + DepthWrap - 1) % DepthWrap)
  BY <1>1, <1>8, <1>9, HeapFacts
<1>12. \A x \in Eggs :
              /\ k.nex[x] = (IF x = e THEN Nil ELSE g.nex[x])
              /\ k.pre[x] = (IF x = g.nex[e] THEN Nil ELSE g.pre[x])
              /\ k.car[x] = g.car[x] /\ k.gone[x] = g.gone[x]
  BY <1>1, <1>6, <1>7, <1>9, HeapFacts
<1> QED BY <1>10, <1>11, <1>12 DEF NextIs

(* Ovum e is put back at the front. *)
RedoIs(k, g, c, e) ==
  /\ \A d \in CarSet :
       /\ k.ent[d] = (IF d = c /\ g.ent[c] = Nil THEN e ELSE g.ent[d])
       /\ k.ext[d] = (IF d = c THEN e ELSE g.ext[d])
       /\ k.dep[d] = (IF d # c THEN g.dep[d]
                      ELSE IF g.ent[c] = Nil THEN 1 ELSE (g.dep[c] + 1) % DepthWrap)
  /\ \A x \in Eggs :
       /\ k.nex[x] = (IF x # e THEN g.nex[x] ELSE IF g.ent[c] = Nil THEN Nil ELSE g.ext[c])
       /\ k.pre[x] = (IF g.ent[c] # Nil /\ x = g.ext[c] THEN e
                      ELSE IF x = e THEN Nil ELSE g.pre[x])
       /\ k.car[x] = g.car[x] /\ k.gone[x] = g.gone[x]

LEMMA RedoFields ==
  ASSUME NEW g \in Heaps, NEW e \in Eggs, NEW c \in CarSet, c = g.car[e], g.try[e] < 2,
         g.ent[c] # Nil => g.ext[c] # Nil,
         NEW k, k = AutoRedo(g, e)
  PROVE  /\ k \in Heaps
         /\ RedoIs(k, g, c, e)
<1>1. PICK m : m = [g EXCEPT !.try[e] = @ + 1]
  OBVIOUS
<1>2. /\ Whole(m)
      /\ m.ent = g.ent /\ m.ext = g.ext /\ m.dep = g.dep /\ m.pre = g.pre /\ m.nex = g.nex
      /\ m.car = g.car /\ m.cad = g.cad /\ m.gone = g.gone
  <2>1. Whole(g)
    BY HeapIsWhole
  <2>2. Whole(m)
    BY <2>1, <1>1 DEF Whole
  <2> QED BY <2>1, <2>2, <1>1 DEF Whole, Names
<1>3. m.try \in [Eggs -> 0 .. 2]
  <2>1. Whole(g)
    BY HeapIsWhole
  <2>2. m.try = [g.try EXCEPT ![e] = @ + 1]
    BY <2>1, <1>1 DEF Whole, Names
  <2>3. g.try \in [Eggs -> 0 .. 2] /\ g.try[e] + 1 \in 0 .. 2
    <3>1. g.try \in [Eggs -> 0 .. 2]
      BY HeapFacts
    <3> QED BY <3>1
  <2> QED BY <2>2, <2>3
<1>4. /\ 1 \in 0 .. DepthWrap - 1 /\ (g.dep[c] + 1) % DepthWrap \in 0 .. DepthWrap - 1
      /\ Nil \notin Eggs
  <2>1. g.dep[c] + 1 \in Nat
    BY HeapFacts, AutoAssumption
  <2> QED BY <2>1, Depth, EggFacts, AutoAssumption, ZenonT(60)
<1>5. k = IF m.ent[c] = Nil THEN Alone(m, c, e)
          ELSE [m EXCEPT !.nex[e] = m.ext[c],
                         !.pre = [@ EXCEPT ![e] = Nil, ![m.ext[c]] = e],
                         !.ext[c] = e, !.dep[c] = (@ + 1) % DepthWrap]
  BY <1>1 DEF AutoRedo
<1>6. CASE g.ent[c] = Nil
  <2>1. k = Alone(m, c, e)
    BY <1>2, <1>5, <1>6
  <2>2. LoneIn(k, m, c, e)
    BY <2>1, <1>2, AloneFields
  <2>3. /\ Whole(k)
        /\ k.ent = [g.ent EXCEPT ![c] = e] /\ k.ext = [g.ext EXCEPT ![c] = e] /\ k.dep = [g.dep EXCEPT ![c] = 1]
        /\ k.pre = [g.pre EXCEPT ![e] = Nil] /\ k.nex = [g.nex EXCEPT ![e] = Nil]
        /\ k.car = g.car /\ k.cad = g.cad /\ k.try = m.try /\ k.gone = g.gone
    BY ONLY <2>2, <1>2, Zenon DEF LoneIn
  <2>4. k \in Heaps
    <3>1. k.ent \in [CarSet -> Eggs \cup {Nil}] /\ k.ext \in [CarSet -> Eggs \cup {Nil}]
      BY <2>3, HeapFacts
    <3>2. k.dep \in [CarSet -> 0 .. DepthWrap - 1]
      BY <2>3, <1>4, HeapFacts
    <3>3. k.pre \in [Eggs -> Eggs \cup {Nil}] /\ k.nex \in [Eggs -> Eggs \cup {Nil}]
      BY <2>3, HeapFacts
    <3>4. k.car \in [Eggs -> CarSet \cup {NoCar}] /\ k.cad \in [Eggs -> Cards \cup {NoCard}]
          /\ k.try \in [Eggs -> 0 .. 2] /\ k.gone \in [Eggs -> 0 .. 2]
      BY <2>3, <1>3, HeapFacts
    <3> QED BY <2>3, <3>1, <3>2, <3>3, <3>4, WholeHeap
  <2> QED BY <1>6, <2>3, <2>4, HeapFacts DEF RedoIs
<1>7. CASE g.ent[c] # Nil
  <2>1. k = [m EXCEPT !.nex[e] = m.ext[c],
                      !.pre = [@ EXCEPT ![e] = Nil, ![m.ext[c]] = e],
                      !.ext[c] = e, !.dep[c] = (@ + 1) % DepthWrap]
    BY <1>2, <1>5, <1>7, SMTT(30)
  <2>2. Whole(k)
    BY <2>1, <1>2, ZenonT(60) DEF Whole
  <2>3. k.ent = m.ent /\ k.ext = [m.ext EXCEPT ![c] = e] /\ k.dep = [m.dep EXCEPT ![c] = (@ + 1) % DepthWrap]
    BY <2>1, <1>2, ZenonT(60) DEF Whole, Names
  <2>4. /\ k.pre = [m.pre EXCEPT ![e] = Nil, ![m.ext[c]] = e]
        /\ k.nex = [m.nex EXCEPT ![e] = m.ext[c]]
    BY <2>1, <1>2, SMTT(30) DEF Whole, Names
  <2>5. k.car = m.car /\ k.cad = m.cad /\ k.try = m.try /\ k.gone = m.gone
    BY <2>1, <1>2 DEF Whole, Names
  <2>6. g.ext[c] \in Eggs
    BY <1>7, HeapFacts
  <2>7. k \in Heaps
    <3>1. k.ent \in [CarSet -> Eggs \cup {Nil}] /\ k.ext \in [CarSet -> Eggs \cup {Nil}]
      BY <2>3, <1>2, HeapFacts
    <3>2. k.dep \in [CarSet -> 0 .. DepthWrap - 1]
      BY <2>3, <1>2, <1>4, HeapFacts
    <3>3. k.pre \in [Eggs -> Eggs \cup {Nil}] /\ k.nex \in [Eggs -> Eggs \cup {Nil}]
      BY <2>4, <1>2, <2>6, HeapFacts
    <3>4. k.car \in [Eggs -> CarSet \cup {NoCar}] /\ k.cad \in [Eggs -> Cards \cup {NoCard}]
          /\ k.try \in [Eggs -> 0 .. 2] /\ k.gone \in [Eggs -> 0 .. 2]
      BY <2>5, <1>2, <1>3, HeapFacts
    <3> QED BY <2>2, <3>1, <3>2, <3>3, <3>4, WholeHeap
  <2>8. \A d \in CarSet :
              /\ k.ent[d] = (IF d = c /\ g.ent[c] = Nil THEN e ELSE g.ent[d])
              /\ k.ext[d] = (IF d = c THEN e ELSE g.ext[d])
              /\ k.dep[d] = (IF d # c THEN g.dep[d]
                             ELSE IF g.ent[c] = Nil THEN 1 ELSE (g.dep[c] + 1) % DepthWrap)
    BY <1>2, <1>7, <2>3, HeapFacts
  <2>9. \A x \in Eggs :
              /\ k.nex[x] = (IF x # e THEN g.nex[x] ELSE IF g.ent[c] = Nil THEN Nil ELSE g.ext[c])
              /\ k.pre[x] = (IF g.ent[c] # Nil /\ x = g.ext[c] THEN e
                             ELSE IF x = e THEN Nil ELSE g.pre[x])
    BY <1>2, <1>7, <2>4, HeapFacts
  <2>10. \A x \in Eggs : k.car[x] = g.car[x] /\ k.gone[x] = g.gone[x]
    BY <1>2, <2>5
  <2> QED BY <2>7, <2>8, <2>9, <2>10, SMTT(30) DEF RedoIs
<1> QED BY <1>6, <1>7 DEF RedoIs

-----------------------------------------------------------------------------
(* What each operation does to a list *)

LEMMA LaneFrame ==
  ASSUME NEW g, NEW k, NEW c, NEW s,
         k.ext[c] = g.ext[c],
         \A i \in 1 .. Len(s) :
           k.nex[s[i]] = g.nex[s[i]] /\ k.car[s[i]] = g.car[s[i]] /\ k.gone[s[i]] = g.gone[s[i]]
  PROVE  /\ Links(g, c, s) => Links(k, c, s)
         /\ /\ Lane(g, c, s) /\ k.ent[c] = g.ent[c] /\ k.dep[c] = g.dep[c]
            /\ \A i \in 1 .. Len(s) : k.pre[s[i]] = g.pre[s[i]]
            => Lane(k, c, s)
<1>1. Links(g, c, s) => Links(k, c, s)
  BY DEF Links
<1> QED BY <1>1 DEF Lane

LEMMA LaneFacts ==
  ASSUME NEW g, NEW c, NEW s, Lane(g, c, s)
  PROVE  /\ s \in Seq(Eggs) /\ Len(s) \in Nat
         /\ \A i \in 1 .. Len(s) : s[i] \in Eggs /\ s[i] # Nil
         /\ (\A i, j \in 1 .. Len(s) : s[i] = s[j] => i = j)
         /\ (g.ent[c] = Nil <=> Len(s) = 0)
         /\ (g.ext[c] = Nil <=> Len(s) = 0)
<1>1. s \in Seq(Eggs) /\ (\A i, j \in 1 .. Len(s) : s[i] = s[j] => i = j)
  BY DEF Lane, Links
<1>2. Len(s) \in Nat /\ \A i \in 1 .. Len(s) : s[i] \in Eggs
  BY <1>1
<1>3. \A i \in 1 .. Len(s) : s[i] # Nil
  BY <1>2, EggFacts
<1>4. Len(s) # 0 => 1 \in 1 .. Len(s) /\ Len(s) \in 1 .. Len(s)
  BY <1>2
<1>5. /\ g.ent[c] = (IF Len(s) = 0 THEN Nil ELSE s[Len(s)])
      /\ g.ext[c] = (IF Len(s) = 0 THEN Nil ELSE s[1])
  BY DEF Lane, Links
<1> QED BY <1>1, <1>2, <1>3, <1>4, <1>5

(* At the back. *)
LEMMA LaneBack ==
  ASSUME NEW g, NEW k, NEW c \in CarSet, NEW s, Lane(g, c, s), NEW e \in Eggs,
         \A i \in 1 .. Len(s) : s[i] # e,
         PlanIs(k, g, c, e)
  PROVE  Lane(k, c, Append(s, e))
<1>0. /\ k.ent[c] = e
      /\ k.ext[c] = (IF g.ent[c] = Nil THEN e ELSE g.ext[c])
      /\ k.dep[c] = (IF g.ent[c] = Nil THEN 1 ELSE (g.dep[c] + 1) % DepthWrap)
      /\ \A x \in Eggs :
           /\ k.nex[x] = (IF x = g.ent[c] THEN e ELSE IF x = e THEN Nil ELSE g.nex[x])
           /\ k.pre[x] = (IF x = e THEN g.ent[c] ELSE g.pre[x])
           /\ k.car[x] = (IF x = e THEN c ELSE g.car[x])
           /\ k.gone[x] = (IF x = e THEN 0 ELSE g.gone[x])
  BY DEF PlanIs
<1>1. PICK n \in Nat, t \in Seq(Eggs) : n = Len(s) /\ t = Append(s, e)
  <2>1. s \in Seq(Eggs) /\ Len(s) \in Nat
    BY LaneFacts
  <2>2. Append(s, e) \in Seq(Eggs)
    BY <2>1
  <2> QED BY <2>1, <2>2, Zenon
<1>2. Len(t) = n + 1 /\ t[n + 1] = e /\ \A i \in 1 .. n : t[i] = s[i] /\ s[i] \in Eggs /\ s[i] # e
  BY <1>1, LaneFacts
<1>3. \A i, j \in 1 .. n : s[i] = s[j] => i = j
  BY <1>1, LaneFacts
<1>4. /\ g.ent[c] = (IF n = 0 THEN Nil ELSE s[n]) /\ g.ext[c] = (IF n = 0 THEN Nil ELSE s[1])
      /\ g.dep[c] = n % DepthWrap /\ Nil \notin Eggs /\ (g.ent[c] = Nil <=> n = 0)
  BY <1>1, LaneFacts, EggFacts DEF Lane, Links
<1>5. \A i \in 1 .. n : /\ g.nex[s[i]] = (IF i = n THEN Nil ELSE s[i + 1])
                        /\ g.car[s[i]] = c /\ g.gone[s[i]] = 0
                        /\ g.pre[s[i]] = (IF i = 1 THEN Nil ELSE s[i - 1])
  BY <1>1 DEF Lane, Links
<1>6. \A i \in 1 .. n + 1 : i \in 1 .. n \/ i = n + 1
  OBVIOUS
<1>7. \A i, j \in 1 .. n + 1 : t[i] = t[j] => i = j
  BY <1>2, <1>3, <1>6
<1>8. n # 0 => n \in 1 .. n /\ 1 \in 1 .. n
  OBVIOUS
<1>9. k.ext[c] = t[1] /\ k.ent[c] = t[n + 1]
  BY <1>0, <1>2, <1>4, <1>8
<1>10. ASSUME NEW i \in 1 .. n + 1
       PROVE  /\ k.nex[t[i]] = (IF i = n + 1 THEN Nil ELSE t[i + 1])
              /\ k.car[t[i]] = c /\ k.gone[t[i]] = 0
              /\ k.pre[t[i]] = (IF i = 1 THEN Nil ELSE t[i - 1])
  <2>1. CASE i = n + 1
    <3>1. t[i] = e /\ (i = 1 <=> n = 0) /\ i - 1 = n
      BY <2>1, <1>2
    <3>2. k.nex[e] = Nil /\ k.car[e] = c /\ k.gone[e] = 0 /\ k.pre[e] = g.ent[c]
      BY <1>0, <1>2, <1>4, <1>8
    <3>3. n # 0 => t[n] = s[n]
      BY <1>2, <1>8
    <3> QED BY <2>1, <3>1, <3>2, <3>3, <1>4
  <2>2. CASE i \in 1 .. n
    <3>1. t[i] = s[i] /\ s[i] \in Eggs /\ s[i] # e /\ i # n + 1
      BY <2>2, <1>2
    <3>2. k.car[s[i]] = c /\ k.gone[s[i]] = 0
      BY <1>0, <2>2, <3>1, <1>5, SMTT(30)
    <3>3. k.pre[s[i]] = (IF i = 1 THEN Nil ELSE t[i - 1])
      <4>1. i # 1 => i - 1 \in 1 .. n
        BY <2>2
      <4>2. k.pre[s[i]] = g.pre[s[i]]
        BY <1>0, <3>1
      <4>3. i # 1 => t[i - 1] = s[i - 1]
        BY <4>1, <1>2
      <4> QED BY <4>2, <4>3, <2>2, <1>5
    <3>4. k.nex[s[i]] = t[i + 1]
      <4>1. CASE i = n
        <5>1. g.ent[c] = s[i]
          BY <4>1, <2>2, <1>4
        <5> QED BY <1>0, <4>1, <5>1, <3>1, <1>2
      <4>2. CASE i # n
        <5>1. i + 1 \in 1 .. n /\ n \in 1 .. n /\ n # 0
          BY <2>2, <4>2
        <5>2. s[i] # g.ent[c]
          BY <5>1, <4>2, <2>2, <1>3, <1>4
        <5> QED BY <1>0, <5>1, <5>2, <4>2, <2>2, <3>1, <1>2, <1>5, SMTT(30)
      <4> QED BY <1>0, <4>1, <4>2
    <3> QED BY <3>1, <3>2, <3>3, <3>4
  <2> QED BY <2>1, <2>2, <1>6
<1>11. k.dep[c] = (n + 1) % DepthWrap
  <2>1. n = 0 => 1 = (n + 1) % DepthWrap
    BY Depth
  <2> QED BY <1>0, <2>1, <1>4, Depth, ZenonT(60)
<1>12. n + 1 # 0
  OBVIOUS
<1> QED BY <1>1, <1>2, <1>7, <1>9, <1>10, <1>11, <1>12, SMTT(30) DEF Lane, Links

(* At the front. *)
LEMMA LaneFront ==
  ASSUME NEW g, NEW k, NEW c \in CarSet, NEW s, Lane(g, c, s), NEW e \in Eggs,
         \A i \in 1 .. Len(s) : s[i] # e,
         g.car[e] = c, g.gone[e] = 0,
         RedoIs(k, g, c, e)
  PROVE  Lane(k, c, <<e>> \o s)
<1>0. /\ k.ent[c] = (IF g.ent[c] = Nil THEN e ELSE g.ent[c])
      /\ k.ext[c] = e
      /\ k.dep[c] = (IF g.ent[c] = Nil THEN 1 ELSE (g.dep[c] + 1) % DepthWrap)
      /\ \A x \in Eggs :
              /\ k.nex[x] = (IF x # e THEN g.nex[x] ELSE IF g.ent[c] = Nil THEN Nil ELSE g.ext[c])
              /\ k.pre[x] = (IF g.ent[c] # Nil /\ x = g.ext[c] THEN e
                             ELSE IF x = e THEN Nil ELSE g.pre[x])
              /\ k.car[x] = g.car[x] /\ k.gone[x] = g.gone[x]
  BY DEF RedoIs
<1>1. PICK n \in Nat : n = Len(s)
  BY LaneFacts
<1>1a. PICK t : t = <<e>> \o s
  OBVIOUS
<1>2. /\ t \in Seq(Eggs) /\ Len(t) = n + 1 /\ t[1] = e
      /\ \A i \in 1 .. n + 1 : i # 1 => t[i] = s[i - 1]
  <2>1. s \in Seq(Eggs) /\ <<e>> \in Seq(Eggs) /\ Len(<<e>>) = 1 /\ <<e>>[1] = e
    BY LaneFacts
  <2>2. /\ t \in Seq(Eggs) /\ Len(t) = 1 + n
        /\ \A i \in 1 .. 1 + n : t[i] = IF i <= 1 THEN <<e>>[i] ELSE s[i - 1]
    BY ONLY <2>1, <1>1, <1>1a, ConcatProperties
  <2>3. 1 + n = n + 1 /\ 1 \in 1 .. 1 + n /\ \A i \in 1 .. n + 1 : i # 1 => ~(i <= 1)
    OBVIOUS
  <2> QED BY <2>1, <2>2, <2>3
<1>3. /\ \A i, j \in 1 .. n : s[i] = s[j] => i = j
      /\ \A i \in 1 .. n : s[i] \in Eggs /\ s[i] # e
  <2>1. \A i, j \in 1 .. n : s[i] = s[j] => i = j
    BY <1>1, LaneFacts
  <2>2. \A i \in 1 .. n : s[i] \in Eggs
    BY <1>1, LaneFacts
  <2> QED BY <2>1, <2>2, <1>1
<1>4. /\ g.ent[c] = (IF n = 0 THEN Nil ELSE s[n]) /\ g.ext[c] = (IF n = 0 THEN Nil ELSE s[1])
      /\ g.dep[c] = n % DepthWrap /\ Nil \notin Eggs /\ (g.ent[c] = Nil <=> n = 0)
  BY <1>1, LaneFacts, EggFacts DEF Lane, Links
<1>5. \A i \in 1 .. n : /\ g.nex[s[i]] = (IF i = n THEN Nil ELSE s[i + 1])
                        /\ g.car[s[i]] = c /\ g.gone[s[i]] = 0
                        /\ g.pre[s[i]] = (IF i = 1 THEN Nil ELSE s[i - 1])
  BY <1>1 DEF Lane, Links
<1>6. \A i \in 1 .. n + 1 : i # 1 => i - 1 \in 1 .. n /\ (i = n + 1 <=> i - 1 = n) /\ (i - 1) + 1 = i
  OBVIOUS
<1>7. ASSUME NEW i \in 1 .. n + 1, NEW j \in 1 .. n + 1, t[i] = t[j] PROVE i = j
  <2>1. ASSUME i # 1, j # 1 PROVE i - 1 = j - 1
    <3>1. PICK x \in 1 .. n, y \in 1 .. n : x = i - 1 /\ y = j - 1
      BY <2>1, <1>6
    <3>2. t[i] = s[x] /\ t[j] = s[y]
      BY <2>1, <3>1, <1>2
    <3>3. x = y
      BY <3>2, <1>3, <1>7
    <3> QED BY <3>1, <3>3
  <2>2. i = 1 <=> j = 1
    BY <1>2, <1>3, <1>6, <1>7
  <2> QED BY <2>1, <2>2
<1>8. n # 0 => n \in 1 .. n /\ 1 \in 1 .. n /\ n + 1 \in 1 .. n + 1 /\ n + 1 # 1 /\ (n + 1) - 1 = n
               /\ 2 \in 1 .. n + 1 /\ 2 - 1 = 1
  OBVIOUS
<1>9. k.ext[c] = t[1] /\ k.ent[c] = t[n + 1]
  BY <1>0, <1>2, <1>4, <1>8
<1>10. ASSUME NEW i \in 1 .. n + 1
       PROVE  /\ k.nex[t[i]] = (IF i = n + 1 THEN Nil ELSE t[i + 1])
              /\ k.car[t[i]] = c /\ k.gone[t[i]] = 0
              /\ k.pre[t[i]] = (IF i = 1 THEN Nil ELSE t[i - 1])
  <2>1. CASE i = 1
    <3>1. k.car[e] = c /\ k.gone[e] = 0
      BY <1>0
    <3>2. k.pre[e] = Nil
      BY <1>0, <1>3, <1>4, <1>8
    <3>3. n # 0 => t[2] = s[1]
      BY <1>2, <1>8
    <3>4. k.nex[e] = IF n = 0 THEN Nil ELSE s[1]
      BY <1>0, <1>4
    <3>5. (i = n + 1 <=> n = 0) /\ i + 1 = 2
      BY <2>1
    <3> QED BY <2>1, <3>1, <3>2, <3>3, <3>4, <3>5, <1>2
  <2>2. CASE i # 1
    <3>1. PICK j \in 1 .. n : j = i - 1 /\ j + 1 = i /\ (i = n + 1 <=> j = n)
      BY <2>2, <1>6
    <3>2. t[i] = s[j] /\ s[j] \in Eggs /\ s[j] # e /\ n # 0
      BY <2>2, <3>1, <1>2, <1>3
    <3>3. k.car[s[j]] = c /\ k.gone[s[j]] = 0
      <4>1. k.car[s[j]] = g.car[s[j]] /\ k.gone[s[j]] = g.gone[s[j]]
        BY <1>0, <3>2
      <4> QED BY <4>1, <1>5
    <3>4. k.nex[s[j]] = (IF j = n THEN Nil ELSE t[i + 1])
      <4>1. j # n => i + 1 \in 1 .. n + 1 /\ i + 1 # 1 /\ (i + 1) - 1 = j + 1
        BY <3>1
      <4>2. j # n => t[i + 1] = s[j + 1]
        BY <4>1, <1>2
      <4> QED BY <1>0, <3>2, <4>2, <1>5, SMTT(30)
    <3>5. k.pre[s[j]] = t[i - 1]
      <4>1. CASE j = 1
        BY <1>0, <4>1, <3>1, <3>2, <1>2, <1>4
      <4>2. CASE j # 1
        <5>1. j \in 1 .. n + 1 /\ j - 1 \in 1 .. n /\ 1 \in 1 .. n
          BY <4>2
        <5>2. t[j] = s[j - 1] /\ g.pre[s[j]] = s[j - 1]
          BY <4>2, <5>1, <1>2, <1>5
        <5>3. s[j] # g.ext[c]
          BY <4>2, <5>1, <3>2, <1>3, <1>4
        <5> QED BY <1>0, <5>2, <5>3, <3>1, <3>2
      <4> QED BY <1>0, <4>1, <4>2
    <3> QED BY <2>2, <3>1, <3>2, <3>3, <3>4, <3>5
  <2> QED BY <2>1, <2>2
<1>11. k.dep[c] = (n + 1) % DepthWrap
  <2>1. n = 0 => 1 = (n + 1) % DepthWrap
    BY Depth
  <2> QED BY <1>0, <2>1, <1>4, Depth, ZenonT(60)
<1>12. n + 1 # 0
  OBVIOUS
<1> QED BY <1>1, <1>1a, <1>2, <1>7, <1>9, <1>10, <1>11, <1>12, SMTT(30) DEF Lane, Links

(* From the front. *)
Parted(k, c, s, e) ==
  /\ s # <<>> /\ s[1] = e /\ Lane(k, c, Tail(s))
  /\ k.nex[e] = Nil /\ k.pre[e] = Nil /\ k.car[e] = c /\ k.gone[e] = 0
  /\ \A i \in 1 .. Len(Tail(s)) : Tail(s)[i] # e

LEMMA LaneTaken ==
  ASSUME NEW g, NEW k, NEW c \in CarSet, NEW s, Lane(g, c, s), NEW e \in Eggs, e = g.ext[c],
         NextIs(k, g, c, e)
  PROVE  Parted(k, c, s, e)
<1>0. /\ k.ent[c] = (IF g.nex[e] = Nil THEN Nil ELSE g.ent[c])
      /\ k.ext[c] = g.nex[e]
      /\ k.dep[c] = (IF g.nex[e] = Nil THEN 0 ELSE (g.dep[c] + DepthWrap - 1) % DepthWrap)
      /\ \A x \in Eggs :
              /\ k.nex[x] = (IF x = e THEN Nil ELSE g.nex[x])
              /\ k.pre[x] = (IF x = g.nex[e] THEN Nil ELSE g.pre[x])
              /\ k.car[x] = g.car[x] /\ k.gone[x] = g.gone[x]
  BY DEF NextIs
<1>1. PICK n \in Nat : n = Len(s) /\ n # 0 /\ s \in Seq(Eggs)
  BY LaneFacts, EggFacts
<1>2. s # <<>>
  BY <1>1
<1>3. PICK t \in Seq(Eggs) : t = Tail(s) /\ Len(t) = n - 1 /\ \A i \in 1 .. n - 1 : t[i] = s[i + 1]
  <2>1. /\ Tail(s) \in Seq(Eggs) /\ Len(Tail(s)) = n - 1
        /\ \A i \in 1 .. n - 1 : Tail(s)[i] = s[i + 1]
    BY <1>1, <1>2
  <2> QED BY <2>1, Zenon
<1>4. /\ \A i, j \in 1 .. n : s[i] = s[j] => i = j
      /\ \A i \in 1 .. n : s[i] \in Eggs
  BY <1>1, LaneFacts
<1>5. /\ g.ent[c] = s[n] /\ g.ext[c] = s[1] /\ g.dep[c] = n % DepthWrap /\ Nil \notin Eggs
  BY <1>1, EggFacts DEF Lane, Links
<1>6. \A i \in 1 .. n : /\ g.nex[s[i]] = (IF i = n THEN Nil ELSE s[i + 1])
                        /\ g.car[s[i]] = c /\ g.gone[s[i]] = 0
                        /\ g.pre[s[i]] = (IF i = 1 THEN Nil ELSE s[i - 1])
  BY <1>1 DEF Lane, Links
<1>7. /\ 1 \in 1 .. n /\ n \in 1 .. n /\ n - 1 \in Nat /\ (n - 1) + 1 = n
      /\ (n # 1 => 1 \in 1 .. n - 1 /\ n - 1 \in 1 .. n - 1 /\ 2 \in 1 .. n /\ 1 + 1 = 2)
      /\ (n - 1 = 0 <=> n = 1)
      /\ \A i \in 1 .. n - 1 : i + 1 \in 1 .. n /\ i + 1 # 1 /\ (i + 1 = n <=> i = n - 1) /\ (i + 1) - 1 = i
  BY <1>1
<1>8. g.nex[e] = (IF n = 1 THEN Nil ELSE s[2]) /\ (g.nex[e] = Nil <=> n = 1)
  BY <1>4, <1>5, <1>6, <1>7
<1>9. \A i, j \in 1 .. n - 1 : t[i] = t[j] => i = j
  <2>1. ASSUME NEW i \in 1 .. n - 1, NEW j \in 1 .. n - 1, t[i] = t[j] PROVE i = j
    <3>1. i + 1 = j + 1
      BY <2>1, <1>3, <1>4, <1>7
    <3> QED BY <3>1
  <2> QED BY <2>1
<1>10. \A i \in 1 .. n - 1 : t[i] # e /\ t[i] \in Eggs
  BY <1>3, <1>4, <1>5, <1>7
<1>11. /\ k.ext[c] = (IF n - 1 = 0 THEN Nil ELSE t[1])
       /\ k.ent[c] = (IF n - 1 = 0 THEN Nil ELSE t[n - 1])
  BY <1>0, <1>3, <1>5, <1>7, <1>8
<1>12. ASSUME NEW i \in 1 .. n - 1
       PROVE  /\ k.nex[t[i]] = (IF i = n - 1 THEN Nil ELSE t[i + 1])
              /\ k.car[t[i]] = c /\ k.gone[t[i]] = 0
              /\ k.pre[t[i]] = (IF i = 1 THEN Nil ELSE t[i - 1])
  <2>1. PICK j \in 1 .. n : j = i + 1 /\ j # 1 /\ (j = n <=> i = n - 1) /\ j - 1 = i /\ t[i] = s[j]
    BY <1>3, <1>7
  <2>2. k.car[t[i]] = c /\ k.gone[t[i]] = 0
    BY <1>0, <2>1, <1>6, <1>10, SMTT(30)
  <2>3. k.nex[t[i]] = (IF i = n - 1 THEN Nil ELSE t[i + 1])
    <3>1. i # n - 1 => i + 1 \in 1 .. n - 1
      OBVIOUS
    <3>2. i # n - 1 => t[i + 1] = s[j + 1]
      BY <3>1, <2>1, <1>3
    <3>3. k.nex[t[i]] = g.nex[s[j]]
      BY <1>0, <2>1, <1>10
    <3> QED BY <1>0, <3>2, <3>3, <2>1, <1>6
  <2>4. k.pre[t[i]] = (IF i = 1 THEN Nil ELSE t[i - 1])
    <3>1. CASE i = 1
      <4>1. t[i] = g.nex[e]
        BY <3>1, <2>1, <1>7, <1>8
      <4> QED BY <1>0, <3>1, <4>1, <1>10
    <3>2. CASE i # 1
      <4>1. i - 1 \in 1 .. n - 1 /\ (i - 1) + 1 = i /\ n # 1 /\ j # 2
        BY <3>2, <2>1
      <4>2. t[i - 1] = s[j - 1] /\ g.pre[s[j]] = s[j - 1]
        BY <4>1, <2>1, <1>3, <1>6
      <4>3. s[j] # g.nex[e]
        BY <4>1, <2>1, <1>4, <1>7, <1>8
      <4> QED BY <1>0, <3>2, <4>2, <4>3, <2>1, <1>10
    <3> QED BY <1>0, <3>1, <3>2
  <2> QED BY <2>2, <2>3, <2>4
<1>13. k.dep[c] = (n - 1) % DepthWrap
  <2>1. n = 1 => 0 = (n - 1) % DepthWrap
    BY Depth
  <2>2. ((n % DepthWrap) + DepthWrap - 1) % DepthWrap = (n - 1) % DepthWrap
    BY <1>1, Depth
  <2> QED BY <1>0, <2>1, <2>2, <1>5, <1>8
<1>14. Lane(k, c, t)
  BY <1>3, <1>9, <1>11, <1>12, <1>13, SMTT(30) DEF Lane, Links
<1>15. k.nex[e] = Nil /\ k.pre[e] = Nil /\ k.car[e] = c /\ k.gone[e] = 0
  <2>1. e = s[1] /\ g.pre[e] = Nil /\ g.car[e] = c /\ g.gone[e] = 0
    BY <1>5, <1>6, <1>7
  <2> QED BY <1>0, <2>1
<1> QED BY <1>2, <1>3, <1>5, <1>10, <1>14, <1>15 DEF Parted

-----------------------------------------------------------------------------
(* All lists of a heap, and the ova with the worker *)

(* The lists can be walked and hold what exists; the ova of F exist, and are *)
(* on none; nothing was disposed of twice.                                   *)
Kept(g, q, F) ==
  /\ g \in Heaps /\ q \in [CarSet -> Seq(Eggs)] /\ F \subseteq Eggs
  /\ \A c \in CarSet : Links(g, c, q[c]) /\ ToSet(q[c]) \cap F = {}
  /\ \A e \in F : g.gone[e] = 0 /\ g.nex[e] = Nil /\ g.pre[e] = Nil /\ g.car[e] \in CarSet
  /\ \A e \in Eggs : g.gone[e] <= 1

(* Moreover the lists are whole, and no ovum is anywhere else. *)
Owned(g, q, F) ==
  /\ Kept(g, q, F)
  /\ \A c \in CarSet : Lane(g, c, q[c])
  /\ \A e \in Eggs : g.gone[e] = 0 => e \in F \/ \E c \in CarSet : e \in ToSet(q[c])

LEMMA InList ==
  ASSUME NEW S, NEW s \in Seq(S)
  PROVE  /\ Len(s) \in Nat /\ ToSet(s) = {s[i] : i \in 1 .. Len(s)} /\ ToSet(s) \subseteq S
<1>1. DOMAIN s = 1 .. Len(s) /\ Len(s) \in Nat /\ \A i \in 1 .. Len(s) : s[i] \in S
  OBVIOUS
<1> QED BY <1>1 DEF ToSet

LEMMA InAppend ==
  ASSUME NEW S, NEW s \in Seq(S), NEW e \in S
  PROVE  /\ Append(s, e) \in Seq(S) /\ ToSet(Append(s, e)) = ToSet(s) \cup {e}
<1>1. PICK n \in Nat, t \in Seq(S) : n = Len(s) /\ t = Append(s, e)
  <2>1. Append(s, e) \in Seq(S) /\ Len(s) \in Nat
    OBVIOUS
  <2> QED BY <2>1, Zenon
<1>2. Len(t) = n + 1 /\ t[n + 1] = e /\ \A i \in 1 .. n : t[i] = s[i]
  BY <1>1
<1>3. ToSet(t) = {t[i] : i \in 1 .. n + 1} /\ ToSet(s) = {s[i] : i \in 1 .. n}
  <2>1. ToSet(t) = {t[i] : i \in 1 .. Len(t)}
    BY <1>2, InList
  <2>2. ToSet(s) = {s[i] : i \in 1 .. Len(s)}
    BY InList
  <2> QED BY <2>1, <2>2, <1>1, <1>2
<1>4. \A i \in 1 .. n + 1 : i \in 1 .. n \/ i = n + 1
  OBVIOUS
<1>5. n + 1 \in 1 .. n + 1 /\ \A i \in 1 .. n : i \in 1 .. n + 1
  OBVIOUS
<1> QED BY <1>1, <1>2, <1>3, <1>4, <1>5

LEMMA InFront ==
  ASSUME NEW S, NEW s \in Seq(S), NEW e \in S
  PROVE  /\ <<e>> \o s \in Seq(S) /\ ToSet(<<e>> \o s) = ToSet(s) \cup {e}
<1>1. PICK n \in Nat : n = Len(s)
  BY InList
<1>1a. PICK t : t = <<e>> \o s
  OBVIOUS
<1>2. t \in Seq(S) /\ Len(t) = n + 1 /\ t[1] = e /\ \A i \in 1 .. n : t[i + 1] = s[i]
  <2>1. <<e>> \in Seq(S) /\ Len(<<e>>) = 1 /\ <<e>>[1] = e
    OBVIOUS
  <2>2. /\ t \in Seq(S) /\ Len(t) = 1 + n
        /\ \A i \in 1 .. 1 + n : t[i] = IF i <= 1 THEN <<e>>[i] ELSE s[i - 1]
    BY ONLY <2>1, <1>1, <1>1a, s \in Seq(S), ConcatProperties
  <2>3. /\ 1 + n = n + 1 /\ 1 \in 1 .. 1 + n
        /\ \A i \in 1 .. n : i + 1 \in 1 .. 1 + n /\ ~(i + 1 <= 1) /\ (i + 1) - 1 = i
    OBVIOUS
  <2> QED BY <2>1, <2>2, <2>3
<1>3. ToSet(t) = {t[i] : i \in 1 .. n + 1} /\ ToSet(s) = {s[i] : i \in 1 .. n}
  <2>1. ToSet(t) = {t[i] : i \in 1 .. Len(t)}
    BY <1>2, InList
  <2>2. ToSet(s) = {s[i] : i \in 1 .. Len(s)}
    BY InList
  <2> QED BY <2>1, <2>2, <1>1, <1>2
<1>4. \A i \in 1 .. n + 1 : i = 1 \/ (i - 1 \in 1 .. n /\ (i - 1) + 1 = i)
  OBVIOUS
<1>5. 1 \in 1 .. n + 1 /\ \A i \in 1 .. n : i + 1 \in 1 .. n + 1
  OBVIOUS
<1>6. ASSUME NEW x \in ToSet(t) PROVE x \in ToSet(s) \cup {e}
  <2>1. PICK i \in 1 .. n + 1 : x = t[i]
    BY <1>3
  <2> QED BY <2>1, <1>2, <1>3, <1>4, ZenonT(60)
<1>7. ASSUME NEW x \in ToSet(s) \cup {e} PROVE x \in ToSet(t)
  <2>1. x = e => x \in ToSet(t)
    BY <1>2, <1>3, <1>5
  <2>2. ASSUME x \in ToSet(s) PROVE x \in ToSet(t)
    <3>1. PICK i \in 1 .. n : x = s[i]
      BY <2>2, <1>3
    <3>2. x = t[i + 1] /\ i + 1 \in 1 .. n + 1
      BY <3>1, <1>2, <1>5
    <3> QED BY <3>2, <1>3
  <2> QED BY <2>1, <2>2
<1> QED BY <1>1, <1>1a, <1>2, <1>6, <1>7

LEMMA InTail ==
  ASSUME NEW S, NEW s \in Seq(S), s # <<>>
  PROVE  /\ Tail(s) \in Seq(S) /\ Head(s) = s[1] /\ s[1] \in S
         /\ ToSet(s) = ToSet(Tail(s)) \cup {s[1]}
<1>1. PICK n \in Nat : n = Len(s) /\ n # 0
  OBVIOUS
<1>2. PICK t : t = Tail(s)
  OBVIOUS
<1>3. /\ t \in Seq(S) /\ Len(t) = n - 1 /\ \A i \in 1 .. n - 1 : t[i] = s[i + 1]
  BY <1>1, <1>2
<1>4. ToSet(t) = {t[i] : i \in 1 .. n - 1} /\ ToSet(s) = {s[i] : i \in 1 .. n}
  BY <1>1, <1>3, InList
<1>5. \A i \in 1 .. n : i = 1 \/ (i - 1 \in 1 .. n - 1 /\ (i - 1) + 1 = i)
  OBVIOUS
<1>6. 1 \in 1 .. n /\ \A i \in 1 .. n - 1 : i + 1 \in 1 .. n
  BY <1>1
<1>7. Head(s) = s[1] /\ s[1] \in S
  BY <1>1
<1>8. ASSUME NEW x \in ToSet(s) PROVE x \in ToSet(t) \cup {s[1]}
  <2>1. PICK i \in 1 .. n : x = s[i]
    BY <1>4
  <2>2. CASE i # 1
    <3>1. x = t[i - 1] /\ i - 1 \in 1 .. n - 1
      BY <2>1, <2>2, <1>3, <1>5
    <3> QED BY <3>1, <1>4
  <2> QED BY <2>1, <2>2
<1>9. ASSUME NEW x \in ToSet(t) \cup {s[1]} PROVE x \in ToSet(s)
  <2>1. x = s[1] => x \in ToSet(s)
    BY <1>4, <1>6
  <2>2. ASSUME x \in ToSet(t) PROVE x \in ToSet(s)
    <3>1. PICK i \in 1 .. n - 1 : x = t[i]
      BY <2>2, <1>4
    <3> QED BY <3>1, <1>3, <1>4, <1>6
  <2> QED BY <2>1, <2>2
<1> QED BY <1>2, <1>3, <1>7, <1>8, <1>9

LEMMA KeptFacts ==
  ASSUME NEW g, NEW q, NEW F, Kept(g, q, F), NEW c \in CarSet
  PROVE  /\ q[c] \in Seq(Eggs) /\ \A i \in 1 .. Len(q[c]) : q[c][i] \in ToSet(q[c])
         /\ \A x \in ToSet(q[c]) : x \in Eggs /\ x # Nil /\ g.car[x] = c /\ g.gone[x] = 0 /\ x \notin F
<1>1. q[c] \in Seq(Eggs) /\ Links(g, c, q[c]) /\ ToSet(q[c]) \cap F = {}
  BY DEF Kept
<1>2. ToSet(q[c]) = {q[c][i] : i \in 1 .. Len(q[c])} /\ ToSet(q[c]) \subseteq Eggs
  BY <1>1, InList
<1>3. \A i \in 1 .. Len(q[c]) : g.car[q[c][i]] = c /\ g.gone[q[c][i]] = 0
  BY <1>1 DEF Links
<1> QED BY <1>1, <1>2, <1>3, EggFacts

(* Only the ova of c and e are touched. *)
Apart(k, g, c, e) ==
  \A x \in Eggs : x # e /\ g.car[x] # c =>
      k.nex[x] = g.nex[x] /\ k.car[x] = g.car[x] /\ k.gone[x] = g.gone[x] /\ k.pre[x] = g.pre[x]

LEMMA Others ==
  ASSUME NEW g, NEW q, NEW F, Kept(g, q, F), NEW k, NEW c, NEW e, Apart(k, g, c, e),
         NEW d \in CarSet, d # c, e \notin ToSet(q[d]), k.ext[d] = g.ext[d]
  PROVE  /\ Links(k, d, q[d])
         /\ Lane(g, d, q[d]) /\ k.ent[d] = g.ent[d] /\ k.dep[d] = g.dep[d] => Lane(k, d, q[d])
<1>1. \A i \in 1 .. Len(q[d]) : q[d][i] \in Eggs /\ q[d][i] # e /\ g.car[q[d][i]] # c
  <2>1. \A i \in 1 .. Len(q[d]) : q[d][i] \in ToSet(q[d])
    BY KeptFacts
  <2>2. \A x \in ToSet(q[d]) : x \in Eggs /\ g.car[x] = d
    BY KeptFacts
  <2> QED BY <2>1, <2>2
<1>2. \A i \in 1 .. Len(q[d]) : /\ k.nex[q[d][i]] = g.nex[q[d][i]] /\ k.pre[q[d][i]] = g.pre[q[d][i]]
                                /\ k.car[q[d][i]] = g.car[q[d][i]] /\ k.gone[q[d][i]] = g.gone[q[d][i]]
  BY <1>1 DEF Apart
<1>3. Links(g, d, q[d])
  BY DEF Kept
<1> QED BY <1>2, <1>3, LaneFrame, SMTT(30)

LEMMA Rebuilt ==
  ASSUME NEW g, NEW q, NEW F, Owned(g, q, F), NEW k \in Heaps, NEW c \in CarSet, NEW s, NEW G \in SUBSET Eggs,
         Lane(k, c, s), ToSet(s) \cap G = {},
         \A d \in CarSet : d # c => Lane(k, d, q[d]) /\ ToSet(q[d]) \cap G = {},
         \A e \in G : k.gone[e] = 0 /\ k.nex[e] = Nil /\ k.pre[e] = Nil /\ k.car[e] \in CarSet,
         \A e \in Eggs : k.gone[e] <= 1,
         \A e \in Eggs : k.gone[e] = 0 =>
             e \in G \/ e \in ToSet(s) \/ \E d \in CarSet : d # c /\ e \in ToSet(q[d])
  PROVE  Owned(k, [q EXCEPT ![c] = s], G)
<1>1. PICK r : r = [q EXCEPT ![c] = s]
  OBVIOUS
<1>2. q \in [CarSet -> Seq(Eggs)] /\ s \in Seq(Eggs)
  BY LaneFacts DEF Owned, Kept
<1>3. r \in [CarSet -> Seq(Eggs)] /\ \A d \in CarSet : r[d] = IF d = c THEN s ELSE q[d]
  BY <1>1, <1>2
<1>4. \A d \in CarSet : Lane(k, d, r[d]) /\ ToSet(r[d]) \cap G = {}
  BY <1>3
<1>5. \A d \in CarSet : Links(k, d, r[d])
  BY <1>4 DEF Lane
<1>6. Kept(k, r, G)
  BY <1>3, <1>4, <1>5 DEF Kept
<1>7. \A e \in Eggs : k.gone[e] = 0 => e \in G \/ \E d \in CarSet : e \in ToSet(r[d])
  BY <1>3
<1> QED BY <1>1, <1>4, <1>6, <1>7 DEF Owned

(* The ends of a list are in it. *)
LEMMA Ends ==
  ASSUME NEW g, NEW q, NEW F, Owned(g, q, F), NEW c \in CarSet
  PROVE  /\ g.ent[c] = Nil \/ g.ent[c] \in ToSet(q[c])
         /\ g.ext[c] = Nil \/ g.ext[c] \in ToSet(q[c])
         /\ (g.ent[c] = Nil <=> g.ext[c] = Nil)
         /\ g.ext[c] # Nil => g.nex[g.ext[c]] = Nil \/ g.nex[g.ext[c]] \in ToSet(q[c])
<1>1. Kept(g, q, F) /\ Lane(g, c, q[c])
  BY DEF Owned
<1>2. PICK n \in Nat, s \in Seq(Eggs) : s = q[c] /\ n = Len(s) /\ ToSet(s) = {s[i] : i \in 1 .. n}
  <2>1. q[c] \in Seq(Eggs) /\ Len(q[c]) \in Nat /\ ToSet(q[c]) = {q[c][i] : i \in 1 .. Len(q[c])}
    BY <1>1, KeptFacts, InList
  <2> QED BY <2>1, Zenon
<1>3. /\ g.ent[c] = (IF n = 0 THEN Nil ELSE s[n]) /\ g.ext[c] = (IF n = 0 THEN Nil ELSE s[1])
      /\ (g.ent[c] = Nil <=> n = 0) /\ (g.ext[c] = Nil <=> n = 0)
  <2>1. (g.ent[c] = Nil <=> n = 0) /\ (g.ext[c] = Nil <=> n = 0)
    BY <1>1, <1>2, LaneFacts
  <2> QED BY <2>1, <1>1, <1>2 DEF Lane, Links
<1>4. n # 0 => 1 \in 1 .. n /\ n \in 1 .. n /\ (1 # n => 1 + 1 \in 1 .. n)
  OBVIOUS
<1>5. n # 0 => g.nex[s[1]] = IF 1 = n THEN Nil ELSE s[1 + 1]
  BY <1>1, <1>2, <1>4 DEF Lane, Links
<1> QED BY <1>2, <1>3, <1>4, <1>5

(* u3_auto_plan() *)
LEMMA PlanOwned ==
  ASSUME NEW g, NEW q, NEW F, Owned(g, q, F), NEW c \in CarSet, NEW e \in Unused(g), NEW cad \in Cards,
         NEW k, k = AutoPlan(Made(g, e, cad), c, e)
  PROVE  Owned(k, [q EXCEPT ![c] = Append(q[c], e)], F) /\ Unused(k) = Unused(g) \ {e}
<1>1. Kept(g, q, F) /\ g \in Heaps /\ F \in SUBSET Eggs /\ Lane(g, c, q[c])
  BY DEF Owned, Kept
<1>2. e \in Eggs /\ g.gone[e] > 0 /\ g.gone[e] # 0
  <2>1. e \in Eggs /\ g.gone[e] > 0
    BY DEF Unused
  <2> QED BY <2>1
<1>3. e \notin F /\ \A d \in CarSet : e \notin ToSet(q[d])
  <2>1. e \notin F
    BY <1>1, <1>2 DEF Kept
  <2> QED BY <1>1, <1>2, <2>1, KeptFacts
<1>4. /\ k \in Heaps /\ PlanIs(k, g, c, e)
      /\ \A d \in CarSet :
              /\ k.ent[d] = (IF d = c THEN e ELSE g.ent[d])
              /\ k.ext[d] = (IF d = c /\ g.ent[c] = Nil THEN e ELSE g.ext[d])
              /\ k.dep[d] = (IF d # c THEN g.dep[d]
                             ELSE IF g.ent[c] = Nil THEN 1 ELSE (g.dep[c] + 1) % DepthWrap)
      /\ \A x \in Eggs :
              /\ k.nex[x] = (IF x = g.ent[c] THEN e ELSE IF x = e THEN Nil ELSE g.nex[x])
              /\ k.pre[x] = (IF x = e THEN g.ent[c] ELSE g.pre[x])
              /\ k.car[x] = (IF x = e THEN c ELSE g.car[x])
              /\ k.gone[x] = (IF x = e THEN 0 ELSE g.gone[x])
  <2>1. k \in Heaps /\ PlanIs(k, g, c, e)
    BY <1>1, <1>2, PlanFields
  <2> QED BY <2>1 DEF PlanIs
<1>5. PICK s : s = Append(q[c], e)
  OBVIOUS
<1>6. ToSet(s) = ToSet(q[c]) \cup {e}
  <2>1. q[c] \in Seq(Eggs)
    BY <1>1, KeptFacts
  <2> QED BY <2>1, <1>2, <1>5, InAppend
<1>7. Lane(k, c, s)
  <2>1. \A i \in 1 .. Len(q[c]) : q[c][i] # e
    <3>1. \A i \in 1 .. Len(q[c]) : q[c][i] \in ToSet(q[c])
      BY <1>1, KeptFacts
    <3> QED BY <3>1, <1>3
  <2> QED BY <2>1, <1>1, <1>2, <1>4, <1>5, LaneBack
<1>8. g.ent[c] = Nil \/ (g.ent[c] \in ToSet(q[c]) /\ g.car[g.ent[c]] = c)
  BY <1>1, Ends, KeptFacts
<1>9. ASSUME NEW d \in CarSet, d # c PROVE Lane(k, d, q[d]) /\ ToSet(q[d]) \cap F = {}
  <2>1. k.ext[d] = g.ext[d] /\ k.ent[d] = g.ent[d] /\ k.dep[d] = g.dep[d]
    BY <1>4, <1>9
  <2>2. Apart(k, g, c, e)
    BY <1>4, <1>8, EggFacts DEF Apart
  <2>3. Lane(g, d, q[d])
    BY DEF Owned
  <2>4. ToSet(q[d]) \cap F = {}
    BY <1>1 DEF Kept
  <2> QED BY <2>1, <2>2, <2>3, <2>4, <1>1, <1>3, <1>9, Others
<1>10. ASSUME NEW x \in F
       PROVE  k.gone[x] = 0 /\ k.nex[x] = Nil /\ k.pre[x] = Nil /\ k.car[x] \in CarSet
  <2>1. x \in Eggs /\ g.gone[x] = 0 /\ g.nex[x] = Nil /\ g.pre[x] = Nil /\ g.car[x] \in CarSet
    BY <1>1 DEF Kept
  <2>2. x # e /\ x # g.ent[c]
    <3>1. \A y \in ToSet(q[c]) : y \notin F
      BY <1>1, KeptFacts
    <3> QED BY <2>1, <3>1, <1>3, <1>8, EggFacts
  <2> QED BY <2>1, <2>2, <1>4
<1>11. \A x \in Eggs : k.gone[x] <= 1
  <2>1. \A x \in Eggs : g.gone[x] <= 1
    BY <1>1 DEF Kept
  <2> QED BY <2>1, <1>4
<1>12. \A x \in Eggs : k.gone[x] = 0 =>
             x \in F \/ x \in ToSet(s) \/ \E d \in CarSet : d # c /\ x \in ToSet(q[d])
  <2>1. \A x \in Eggs : g.gone[x] = 0 => x \in F \/ \E d \in CarSet : x \in ToSet(q[d])
    BY DEF Owned
  <2> QED BY <2>1, <1>4, <1>6
<1>13. ToSet(s) \cap F = {}
  <2>1. \A y \in ToSet(q[c]) : y \notin F
    BY <1>1, KeptFacts
  <2> QED BY <2>1, <1>3, <1>6
<1>14. Owned(k, [q EXCEPT ![c] = s], F)
  BY <1>1, <1>4, <1>7, <1>9, <1>10, <1>11, <1>12, <1>13, Rebuilt
<1>15. Unused(k) = Unused(g) \ {e}
  <2>1. \A x \in Eggs : k.gone[x] > 0 <=> x # e /\ g.gone[x] > 0
    BY <1>4
  <2> QED BY <2>1 DEF Unused
<1> QED BY <1>5, <1>14, <1>15

(* u3_auto_next() *)
LEMMA NextOwned ==
  ASSUME NEW g, NEW q, NEW F, Owned(g, q, F), Ready(g) # {}
  PROVE  /\ AutoTaken(g) \in Eggs \ F
         /\ \E r : Owned(AutoNext(g), r, F \cup {AutoTaken(g)})
<1>1. Kept(g, q, F) /\ g \in Heaps /\ F \in SUBSET Eggs
  BY DEF Owned, Kept
<1>2. PICK c \in CarSet : c = Giver(g) /\ g.ext[c] # Nil
  <2>1. Ready(g) \in SUBSET Nat
    <3>1. Cars \in Seq(STRING)
      BY AutoAssumption
    <3>2. DOMAIN Cars = 1 .. Len(Cars) /\ Len(Cars) \in Nat
      BY <3>1
    <3> QED BY <3>2 DEF Ready
  <2>2. \E m \in Ready(g) : \A j \in Ready(g) : m <= j
    BY <2>1, Least
  <2>3. Min(Ready(g)) \in Ready(g)
    BY <2>2 DEF Min
  <2>4. Min(Ready(g)) \in DOMAIN Cars /\ g.ext[Cars[Min(Ready(g))]] # Nil
    BY <2>3 DEF Ready
  <2> QED BY <2>4 DEF Giver, CarSet, ToSet
<1>3. PICK e \in Eggs : e = g.ext[c] /\ e = AutoTaken(g)
  BY <1>1, <1>2, HeapFacts DEF AutoTaken
<1>4. PICK k : k = AutoNext(g)
  OBVIOUS
<1>5. Lane(g, c, q[c])
  BY DEF Owned
<1>6. /\ k \in Heaps /\ NextIs(k, g, c, e)
      /\ \A d \in CarSet :
              /\ k.ent[d] = (IF d = c /\ g.nex[e] = Nil THEN Nil ELSE g.ent[d])
              /\ k.ext[d] = (IF d = c THEN g.nex[e] ELSE g.ext[d])
              /\ k.dep[d] = (IF d # c THEN g.dep[d]
                             ELSE IF g.nex[e] = Nil THEN 0 ELSE (g.dep[c] + DepthWrap - 1) % DepthWrap)
      /\ \A x \in Eggs :
              /\ k.nex[x] = (IF x = e THEN Nil ELSE g.nex[x])
              /\ k.pre[x] = (IF x = g.nex[e] THEN Nil ELSE g.pre[x])
              /\ k.car[x] = g.car[x] /\ k.gone[x] = g.gone[x]
  <2>1. k \in Heaps /\ NextIs(k, g, c, e)
    BY <1>1, <1>2, <1>3, <1>4, NextFields
  <2> QED BY <2>1 DEF NextIs
<1>7. PICK s : s = Tail(q[c])
  OBVIOUS
<1>8. /\ q[c] # <<>> /\ q[c][1] = e /\ Lane(k, c, s)
      /\ k.nex[e] = Nil /\ k.pre[e] = Nil /\ k.car[e] = c /\ k.gone[e] = 0
      /\ \A i \in 1 .. Len(s) : s[i] # e
  <2>1. NextIs(k, g, c, e)
    BY <1>6
  <2>2. Parted(k, c, q[c], e)
    BY <2>1, <1>3, <1>5, LaneTaken
  <2> QED BY <2>2, <1>7 DEF Parted
<1>9. ToSet(q[c]) = ToSet(s) \cup {e} /\ e \notin ToSet(s)
  <2>1. q[c] \in Seq(Eggs)
    BY <1>1, KeptFacts
  <2>2. s \in Seq(Eggs) /\ ToSet(q[c]) = ToSet(s) \cup {e}
    BY <2>1, <1>7, <1>8, InTail
  <2>3. ToSet(s) = {s[i] : i \in 1 .. Len(s)}
    BY <2>2, InList
  <2> QED BY <2>2, <2>3, <1>8
<1>10. e \in ToSet(q[c]) /\ e \notin F /\ g.car[e] = c /\ \A d \in CarSet : d # c => e \notin ToSet(q[d])
  <2>1. e \in ToSet(q[c])
    BY <1>9
  <2>2. \A d \in CarSet : \A x \in ToSet(q[d]) : g.car[x] = d /\ x \notin F
    BY <1>1, KeptFacts
  <2> QED BY <2>1, <2>2
<1>11. PICK n \in Eggs \cup {Nil} : n = g.nex[e] /\ (n = Nil \/ (n \in ToSet(q[c]) /\ g.car[n] = c /\ n \notin F))
  <2>1. g.nex[e] = Nil \/ g.nex[e] \in ToSet(q[c])
    BY <1>2, <1>3, Ends, ZenonT(60)
  <2>2. \A x \in ToSet(q[c]) : x \in Eggs /\ g.car[x] = c /\ x \notin F
    BY <1>1, KeptFacts
  <2> QED BY <2>1, <2>2
<1>12. ASSUME NEW d \in CarSet, d # c PROVE Lane(k, d, q[d]) /\ ToSet(q[d]) \cap (F \cup {e}) = {}
  <2>1. k.ext[d] = g.ext[d] /\ k.ent[d] = g.ent[d] /\ k.dep[d] = g.dep[d]
    BY <1>6, <1>12
  <2>2. Apart(k, g, c, e)
    BY <1>6, <1>11, EggFacts DEF Apart
  <2>3. Lane(g, d, q[d])
    BY DEF Owned
  <2>4. ToSet(q[d]) \cap F = {}
    BY <1>1 DEF Kept
  <2> QED BY <2>1, <2>2, <2>3, <2>4, <1>1, <1>10, <1>12, Others
<1>13. ASSUME NEW x \in F \cup {e}
       PROVE  k.gone[x] = 0 /\ k.nex[x] = Nil /\ k.pre[x] = Nil /\ k.car[x] \in CarSet
  <2>1. CASE x = e
    BY <2>1, <1>8
  <2>2. CASE x \in F
    <3>1. x \in Eggs /\ g.gone[x] = 0 /\ g.nex[x] = Nil /\ g.pre[x] = Nil /\ g.car[x] \in CarSet
      BY <2>2, <1>1 DEF Kept
    <3> QED BY <2>2, <3>1, <1>6
  <2> QED BY <2>1, <2>2
<1>14. \A x \in Eggs : k.gone[x] <= 1
  <2>1. \A x \in Eggs : g.gone[x] <= 1
    BY <1>1 DEF Kept
  <2> QED BY <2>1, <1>6
<1>15. \A x \in Eggs : k.gone[x] = 0 =>
             x \in F \cup {e} \/ x \in ToSet(s) \/ \E d \in CarSet : d # c /\ x \in ToSet(q[d])
  <2>1. \A x \in Eggs : g.gone[x] = 0 => x \in F \/ \E d \in CarSet : x \in ToSet(q[d])
    BY DEF Owned
  <2> QED BY <2>1, <1>6, <1>9
<1>16. ToSet(s) \cap (F \cup {e}) = {} /\ F \cup {e} \in SUBSET Eggs
  <2>1. \A y \in ToSet(q[c]) : y \notin F
    BY <1>1, KeptFacts
  <2> QED BY <2>1, <1>1, <1>9
<1>17. Owned(k, [q EXCEPT ![c] = s], F \cup {e})
  BY <1>6, <1>8, <1>12, <1>13, <1>14, <1>15, <1>16, Rebuilt
<1> QED BY <1>3, <1>4, <1>10, <1>17

(* u3_auto_redo() *)
LEMMA RedoOwned ==
  ASSUME NEW g, NEW q, NEW F, Owned(g, q, F), NEW e \in F, g.try[e] < 2
  PROVE  \E r : Owned(AutoRedo(g, e), r, F \ {e})
<1>1. Kept(g, q, F) /\ g \in Heaps /\ F \in SUBSET Eggs
  BY DEF Owned, Kept
<1>2. PICK c \in CarSet : c = g.car[e] /\ e \in Eggs /\ g.gone[e] = 0
  BY <1>1 DEF Kept
<1>3. PICK k : k = AutoRedo(g, e)
  OBVIOUS
<1>4. Lane(g, c, q[c])
  BY DEF Owned
<1>5. \A d \in CarSet : e \notin ToSet(q[d])
  BY <1>1 DEF Kept
<1>6. /\ g.ext[c] = Nil \/ g.ext[c] \in ToSet(q[c])
      /\ (g.ent[c] = Nil <=> g.ext[c] = Nil)
      /\ \A x \in ToSet(q[c]) : g.car[x] = c /\ x \notin F
  BY <1>1, Ends, KeptFacts
<1>7. /\ k \in Heaps /\ RedoIs(k, g, c, e)
      /\ \A d \in CarSet :
              /\ k.ent[d] = (IF d = c /\ g.ent[c] = Nil THEN e ELSE g.ent[d])
              /\ k.ext[d] = (IF d = c THEN e ELSE g.ext[d])
              /\ k.dep[d] = (IF d # c THEN g.dep[d]
                             ELSE IF g.ent[c] = Nil THEN 1 ELSE (g.dep[c] + 1) % DepthWrap)
      /\ \A x \in Eggs :
              /\ k.nex[x] = (IF x # e THEN g.nex[x] ELSE IF g.ent[c] = Nil THEN Nil ELSE g.ext[c])
              /\ k.pre[x] = (IF g.ent[c] # Nil /\ x = g.ext[c] THEN e
                             ELSE IF x = e THEN Nil ELSE g.pre[x])
              /\ k.car[x] = g.car[x] /\ k.gone[x] = g.gone[x]
  <2>1. k \in Heaps /\ RedoIs(k, g, c, e)
    BY <1>1, <1>2, <1>3, <1>6, RedoFields
  <2> QED BY <2>1 DEF RedoIs
<1>8. PICK s : s = <<e>> \o q[c]
  OBVIOUS
<1>9. ToSet(s) = ToSet(q[c]) \cup {e}
  <2>1. q[c] \in Seq(Eggs)
    BY <1>1, KeptFacts
  <2> QED BY <2>1, <1>2, <1>8, InFront
<1>10. Lane(k, c, s)
  <2>1. \A i \in 1 .. Len(q[c]) : q[c][i] # e
    <3>1. \A i \in 1 .. Len(q[c]) : q[c][i] \in ToSet(q[c])
      BY <1>1, KeptFacts
    <3> QED BY <3>1, <1>5
  <2> QED BY <2>1, <1>2, <1>4, <1>7, <1>8, LaneFront
<1>11. ASSUME NEW d \in CarSet, d # c PROVE Lane(k, d, q[d]) /\ ToSet(q[d]) \cap (F \ {e}) = {}
  <2>1. k.ext[d] = g.ext[d] /\ k.ent[d] = g.ent[d] /\ k.dep[d] = g.dep[d]
    BY <1>7, <1>11
  <2>2. Apart(k, g, c, e)
    BY <1>6, <1>7, EggFacts DEF Apart
  <2>3. Lane(g, d, q[d])
    BY DEF Owned
  <2>4. ToSet(q[d]) \cap F = {}
    BY <1>1 DEF Kept
  <2> QED BY <2>1, <2>2, <2>3, <2>4, <1>1, <1>5, <1>11, Others
<1>12. ASSUME NEW x \in F \ {e}
       PROVE  k.gone[x] = 0 /\ k.nex[x] = Nil /\ k.pre[x] = Nil /\ k.car[x] \in CarSet
  <2>1. x \in Eggs /\ g.gone[x] = 0 /\ g.nex[x] = Nil /\ g.pre[x] = Nil /\ g.car[x] \in CarSet
    BY <1>1 DEF Kept
  <2>2. x # e /\ (g.ent[c] # Nil => x # g.ext[c])
    BY <1>6
  <2> QED BY <2>1, <2>2, <1>7
<1>13. \A x \in Eggs : k.gone[x] <= 1
  <2>1. \A x \in Eggs : g.gone[x] <= 1
    BY <1>1 DEF Kept
  <2> QED BY <2>1, <1>7
<1>14. \A x \in Eggs : k.gone[x] = 0 =>
             x \in F \ {e} \/ x \in ToSet(s) \/ \E d \in CarSet : d # c /\ x \in ToSet(q[d])
  <2>1. \A x \in Eggs : g.gone[x] = 0 => x \in F \/ \E d \in CarSet : x \in ToSet(q[d])
    BY DEF Owned
  <2> QED BY <2>1, <1>7, <1>9
<1>15. ToSet(s) \cap (F \ {e}) = {} /\ F \ {e} \in SUBSET Eggs
  BY <1>1, <1>6, <1>9
<1>16. Owned(k, [q EXCEPT ![c] = s], F \ {e})
  BY <1>7, <1>10, <1>11, <1>12, <1>13, <1>14, <1>15, Rebuilt
<1> QED BY <1>3, <1>16

(* u3_ovum_free() of an ovum that comes back *)
LEMMA FreeOwned ==
  ASSUME NEW g, NEW q, NEW F, Owned(g, q, F), NEW e \in F
  PROVE  Owned(Freed(g, e), q, F \ {e})
<1>1. Kept(g, q, F) /\ g \in Heaps /\ F \in SUBSET Eggs /\ e \in Eggs /\ q \in [CarSet -> Seq(Eggs)]
  BY DEF Owned, Kept
<1>2. PICK k : k = Freed(g, e)
  OBVIOUS
<1>3. g.gone[e] = 0 /\ \A d \in CarSet : e \notin ToSet(q[d])
  BY <1>1 DEF Kept
<1>4. /\ k \in Heaps
      /\ k.ent = g.ent /\ k.ext = g.ext /\ k.dep = g.dep
      /\ \A x \in Eggs :
              /\ k.nex[x] = (IF x = e THEN Nil ELSE g.nex[x])
              /\ k.pre[x] = (IF x = e THEN Nil ELSE g.pre[x])
              /\ k.car[x] = (IF x = e THEN NoCar ELSE g.car[x])
              /\ k.gone[x] = (IF x # e THEN g.gone[x] ELSE 1)
  BY <1>1, <1>2, <1>3, FreedFields
<1>5. ASSUME NEW d \in CarSet PROVE Lane(k, d, q[d]) /\ Links(k, d, q[d]) /\ ToSet(q[d]) \cap (F \ {e}) = {}
  <2>1. \A i \in 1 .. Len(q[d]) : q[d][i] \in Eggs /\ q[d][i] # e
    <3>1. \A i \in 1 .. Len(q[d]) : q[d][i] \in ToSet(q[d])
      BY <1>1, KeptFacts
    <3>2. \A x \in ToSet(q[d]) : x \in Eggs
      BY <1>1, KeptFacts
    <3> QED BY <3>1, <3>2, <1>3
  <2>2. Lane(g, d, q[d]) /\ Links(g, d, q[d]) /\ ToSet(q[d]) \cap F = {}
    BY DEF Owned, Kept
  <2>3. \A i \in 1 .. Len(q[d]) : /\ k.nex[q[d][i]] = g.nex[q[d][i]] /\ k.pre[q[d][i]] = g.pre[q[d][i]]
                                  /\ k.car[q[d][i]] = g.car[q[d][i]] /\ k.gone[q[d][i]] = g.gone[q[d][i]]
    BY <2>1, <1>4
  <2>4. k.ent[d] = g.ent[d] /\ k.ext[d] = g.ext[d] /\ k.dep[d] = g.dep[d]
    BY <1>4
  <2> QED BY <2>2, <2>3, <2>4, LaneFrame, SMTT(30)
<1>6. ASSUME NEW x \in F \ {e}
      PROVE  k.gone[x] = 0 /\ k.nex[x] = Nil /\ k.pre[x] = Nil /\ k.car[x] \in CarSet
  <2>1. x \in Eggs /\ g.gone[x] = 0 /\ g.nex[x] = Nil /\ g.pre[x] = Nil /\ g.car[x] \in CarSet
    BY <1>1 DEF Kept
  <2> QED BY <2>1, <1>4
<1>7. \A x \in Eggs : k.gone[x] <= 1
  <2>1. \A x \in Eggs : g.gone[x] <= 1
    BY <1>1 DEF Kept
  <2> QED BY <2>1, <1>4
<1>8. \A x \in Eggs : k.gone[x] = 0 => x \in F \ {e} \/ \E d \in CarSet : x \in ToSet(q[d])
  <2>1. \A x \in Eggs : g.gone[x] = 0 => x \in F \/ \E d \in CarSet : x \in ToSet(q[d])
    BY DEF Owned
  <2> QED BY <2>1, <1>4
<1>9. Kept(k, q, F \ {e})
  BY <1>1, <1>4, <1>5, <1>6, <1>7 DEF Kept
<1> QED BY <1>2, <1>5, <1>8, <1>9 DEF Owned

(* u3_auto_drop() of an ovum that its driver has given away: the driver's   *)
(* list is lost, and nothing else.                                          *)
LEMMA DropKept ==
  ASSUME NEW g, NEW q, NEW F, Kept(g, q, F), NEW e \in F
  PROVE  \E r : Kept(AutoDrop(g, e), r, F \ {e})
<1>1. g \in Heaps /\ F \in SUBSET Eggs /\ e \in Eggs /\ q \in [CarSet -> Seq(Eggs)]
  BY DEF Kept
<1>2. PICK k : k = AutoDrop(g, e)
  OBVIOUS
<1>3. PICK c \in CarSet : c = g.car[e] /\ g.gone[e] = 0 /\ g.nex[e] = Nil /\ g.pre[e] = Nil
  BY DEF Kept
<1>4. /\ k \in Heaps
      /\ \A d \in CarSet : k.ext[d] = (IF d = c THEN Nil ELSE g.ext[d])
      /\ \A x \in Eggs :
              /\ k.nex[x] = g.nex[x] /\ k.pre[x] = g.pre[x]
              /\ k.car[x] = (IF x = e THEN NoCar ELSE g.car[x])
              /\ k.gone[x] = (IF x # e THEN g.gone[x] ELSE 1)
  BY <1>1, <1>2, <1>3, DropFields
<1>5. PICK r : r = [q EXCEPT ![c] = <<>>]
  OBVIOUS
<1>6. /\ r \in [CarSet -> Seq(Eggs)] /\ r[c] = <<>> /\ \A d \in CarSet : d # c => r[d] = q[d]
      /\ <<>> \in Seq(Eggs) /\ Len(<<>>) = 0 /\ ToSet(<<>>) = {}
  <2>1. <<>> \in Seq(Eggs) /\ Len(<<>>) = 0 /\ DOMAIN <<>> = {}
    OBVIOUS
  <2> QED BY <2>1, <1>1, <1>5 DEF ToSet
<1>7. Links(k, c, <<>>)
  <2>1. 1 .. 0 = {}
    OBVIOUS
  <2> QED BY <2>1, <1>4, <1>6 DEF Links
<1>8. ASSUME NEW d \in CarSet, d # c PROVE Links(k, d, q[d]) /\ ToSet(q[d]) \cap (F \ {e}) = {}
  <2>1. k.ext[d] = g.ext[d] /\ ToSet(q[d]) \cap F = {} /\ e \notin ToSet(q[d])
    BY <1>4, <1>8 DEF Kept
  <2>2. Apart(k, g, c, e)
    BY <1>4 DEF Apart
  <2> QED BY <2>1, <2>2, <1>8, Others
<1>9. \A d \in CarSet : Links(k, d, r[d]) /\ ToSet(r[d]) \cap (F \ {e}) = {}
  BY <1>6, <1>7, <1>8
<1>10. ASSUME NEW x \in F \ {e}
       PROVE  k.gone[x] = 0 /\ k.nex[x] = Nil /\ k.pre[x] = Nil /\ k.car[x] \in CarSet
  <2>1. x \in Eggs /\ g.gone[x] = 0 /\ g.nex[x] = Nil /\ g.pre[x] = Nil /\ g.car[x] \in CarSet
    BY DEF Kept
  <2> QED BY <2>1, <1>4
<1>11. \A x \in Eggs : k.gone[x] <= 1
  <2>1. \A x \in Eggs : g.gone[x] <= 1
    BY DEF Kept
  <2> QED BY <2>1, <1>4
<1>12. Kept(k, r, F \ {e})
  BY <1>1, <1>4, <1>6, <1>9, <1>10, <1>11 DEF Kept
<1> QED BY <1>2, <1>12

-----------------------------------------------------------------------------
(* Planning several ova, and disposing of all *)

(* Two runs that start alike and take the same steps are the same. *)
Alike(a, b, N) == \A k \in 0 .. N : a[k] = b[k]

LEMMA SameRun ==
  ASSUME NEW N \in Nat, NEW a, NEW b, a[0] = b[0],
         \A k \in 1 .. N : a[k - 1] = b[k - 1] => a[k] = b[k]
  PROVE  Alike(a, b, N)
<1> DEFINE T == {k \in Nat : k <= N => a[k] = b[k]}
<1>1. 0 \in T
  OBVIOUS
<1>2. ASSUME NEW k \in T PROVE k + 1 \in T
  <2>1. SUFFICES ASSUME k + 1 <= N PROVE a[k + 1] = b[k + 1]
    OBVIOUS
  <2>2. k \in Nat /\ k <= N /\ k + 1 \in 1 .. N /\ (k + 1) - 1 = k
    BY <2>1
  <2>3. a[k] = b[k]
    BY <2>2
  <2>4. a[(k + 1) - 1] = b[(k + 1) - 1] => a[k + 1] = b[k + 1]
    BY <2>2
  <2> QED BY <2>2, <2>3, <2>4
<1>3. T \in SUBSET Nat
  OBVIOUS
<1>4. T = Nat
  <2> HIDE DEF T
  <2> QED BY <1>1, <1>2, <1>3, Induct
<1>5. \A k \in 0 .. N : k \in T /\ k <= N
  <2> HIDE DEF T
  <2> QED BY <1>4
<1> QED BY <1>5 DEF Alike

LEMMA FreedRun ==
  ASSUME NEW g \in Heaps, NEW s \in Seq(Eggs), NEW N \in Nat, N = Len(s)
  PROVE  \E f \in [0 .. N -> Heaps] :
           /\ f[0] = g /\ \A k \in 1 .. N : f[k] = Freed(f[k - 1], s[k])
           /\ FreedAll(g, s) = f[N]
<1> DEFINE F(f) == [n \in 0 .. N |-> IF n = 0 THEN g ELSE Freed(f[n - 1], s[n])]
           G == [p \in Heaps \X (1 .. N) |-> Freed(p[1], s[p[2]])]
<1>1. \A k \in 1 .. N : s[k] \in Eggs
  OBVIOUS
<1>2. G \in [Heaps \X (1 .. N) -> Heaps]
  <2>1. \A p \in Heaps \X (1 .. N) : Freed(p[1], s[p[2]]) \in Heaps
    <3>1. ASSUME NEW p \in Heaps \X (1 .. N) PROVE Freed(p[1], s[p[2]]) \in Heaps
      <4>1. p[1] \in Heaps /\ s[p[2]] \in Eggs
        BY <1>1
      <4> QED BY <4>1, FreedFields
    <3> QED BY <3>1
  <2> QED BY <2>1
<1>3. PICK f \in [0 .. N -> Heaps] : f[0] = g /\ \A k \in 1 .. N : f[k] = Freed(f[k - 1], s[k])
  <2>1. PICK f \in [0 .. N -> Heaps] : Iterates(f, g, N, G)
    <3> HIDE DEF G
    <3> QED BY <1>2, Iterated
  <2>2. \A k \in 1 .. N : <<f[k - 1], k>> \in Heaps \X (1 .. N)
    <3>1. \A k \in 1 .. N : k - 1 \in 0 .. N
      OBVIOUS
    <3> QED BY <3>1
  <2>3. \A k \in 1 .. N : G[<<f[k - 1], k>>] = Freed(f[k - 1], s[k])
    BY <2>2
  <2>4. f[0] = g /\ \A k \in 1 .. N : f[k] = G[<<f[k - 1], k>>]
    <3> HIDE DEF G
    <3> QED BY <2>1 DEF Iterates
  <2> HIDE DEF G
  <2> QED BY <2>3, <2>4, ZenonT(60)
<1>4. f = F(f)
  <2>1. \A k \in 0 .. N : f[k] = IF k = 0 THEN g ELSE Freed(f[k - 1], s[k])
    <3>1. \A k \in 0 .. N : k = 0 \/ k \in 1 .. N
      OBVIOUS
    <3> QED BY <3>1, <1>3
  <2>2. f = [k \in 0 .. N |-> f[k]]
    OBVIOUS
  <2>3. [k \in 0 .. N |-> f[k]] = F(f)
    BY <2>1
  <2> HIDE DEF F
  <2> QED BY ONLY <2>2, <2>3, Zenon
<1>5. PICK at : at = (CHOOSE ff : ff = F(ff))
  OBVIOUS
<1>6. at = F(at)
  <2> HIDE DEF F
  <2> QED BY <1>4, <1>5, Zenon
<1>7. at[0] = g /\ \A k \in 1 .. N : at[k] = Freed(at[k - 1], s[k])
  <2>1. \A k \in 0 .. N : at[k] = IF k = 0 THEN g ELSE Freed(at[k - 1], s[k])
    BY <1>6
  <2> QED BY <2>1
<1>8. at[N] = f[N]
  <2>1. \A k \in 1 .. N : f[k - 1] = at[k - 1] => f[k] = at[k]
    BY <1>3, <1>7
  <2>2. Alike(f, at, N)
    <3>1. f[0] = at[0]
      BY <1>3, <1>7
    <3> QED BY <2>1, <3>1, SameRun
  <2> QED BY <2>2 DEF Alike
<1>9. FreedAll(g, s) = at[N]
  BY <1>5 DEF FreedAll
<1> QED BY <1>3, <1>8, <1>9

LEMMA FreedGone ==
  ASSUME NEW g \in Heaps, NEW e \in Eggs, g.gone[e] = 0
  PROVE  \A x \in Eggs : Freed(g, e).gone[x] = (IF x # e THEN g.gone[x] ELSE 1)
  BY FreedFields

LEMMA FreedAllFacts ==
  ASSUME NEW g \in Heaps, NEW s \in Seq(Eggs)
  PROVE  /\ FreedAll(g, s) \in Heaps
         /\ /\ \A i, j \in 1 .. Len(s) : s[i] = s[j] => i = j
            /\ \A i \in 1 .. Len(s) : g.gone[s[i]] = 0
            => \A x \in Eggs : FreedAll(g, s).gone[x] = (IF x \in ToSet(s) THEN 1 ELSE g.gone[x])
<1>1. PICK N \in Nat : N = Len(s)
  BY InList
<1>2. PICK f \in [0 .. N -> Heaps] :
           /\ f[0] = g /\ \A k \in 1 .. N : f[k] = Freed(f[k - 1], s[k])
           /\ FreedAll(g, s) = f[N]
  BY <1>1, FreedRun
<1>3. FreedAll(g, s) \in Heaps
  BY <1>2
<1>4. ASSUME \A i, j \in 1 .. N : s[i] = s[j] => i = j,
             \A i \in 1 .. N : g.gone[s[i]] = 0
      PROVE  \A x \in Eggs : f[N].gone[x] = IF x \in ToSet(s) THEN 1 ELSE g.gone[x]
  <2> DEFINE P(k) == \A x \in Eggs : f[k].gone[x] = IF \E i \in 1 .. k : s[i] = x THEN 1 ELSE g.gone[x]
             T == {k \in Nat : k <= N => P(k)}
  <2>1. 0 \in T
    <3>1. \A i \in 1 .. 0 : FALSE
      OBVIOUS
    <3> QED BY <3>1, <1>2
  <2>2. ASSUME NEW k \in T PROVE k + 1 \in T
    <3>1. SUFFICES ASSUME k + 1 <= N PROVE P(k + 1)
      BY SMTT(30)
    <3>2. k \in Nat /\ k <= N /\ k + 1 \in 1 .. N /\ (k + 1) - 1 = k /\ k \in 0 .. N
      BY <3>1
    <3>3. P(k)
      BY <3>2
    <3>4. PICK e \in Eggs : e = s[k + 1]
      BY <3>2, <1>1
    <3>5. f[k + 1] = Freed(f[k], e) /\ f[k] \in Heaps
      BY <3>2, <3>4, <1>2
    <3>6. g.gone[e] = 0 /\ \A i \in 1 .. k : s[i] # e
      <4>1. \A i \in 1 .. k : i \in 1 .. N /\ i # k + 1
        BY <3>2
      <4> QED BY <4>1, <3>2, <3>4, <1>4
    <3>7. f[k].gone[e] = 0
      BY <3>3, <3>6
    <3>8. \A x \in Eggs : f[k + 1].gone[x] = IF x # e THEN f[k].gone[x] ELSE 1
      BY <3>5, <3>7, FreedGone
    <3>9. \A i \in 1 .. k + 1 : i \in 1 .. k \/ i = k + 1
      BY <3>2
    <3>10. k + 1 \in 1 .. k + 1 /\ \A i \in 1 .. k : i \in 1 .. k + 1
      BY <3>2
    <3>11. \A x \in Eggs : (\E i \in 1 .. k + 1 : s[i] = x) <=> (x = e \/ \E i \in 1 .. k : s[i] = x)
      BY <3>4, <3>9, <3>10
    <3> QED BY <3>3, <3>8, <3>11
  <2>3. T \in SUBSET Nat
    OBVIOUS
  <2>4. T = Nat
    <3> HIDE DEF T
    <3> QED BY <2>1, <2>2, <2>3, Induct
  <2>5. N \in T
    <3> HIDE DEF T
    <3> QED BY <2>4
  <2>6. P(N)
    BY <2>5
  <2>7. ToSet(s) = {s[i] : i \in 1 .. N}
    BY <1>1, InList
  <2> QED BY <2>6, <2>7
<1> QED BY <1>1, <1>2, <1>3, <1>4

LEMMA ExitRun ==
  ASSUME NEW g \in Heaps, NEW N \in Nat, N = Len(Cars),
         \A k \in 1 .. N : Waiting(g, Cars[k]) \in Seq(Eggs)
  PROVE  \E f \in [0 .. N -> Heaps] :
           /\ f[0] = g /\ \A k \in 1 .. N : f[k] = FreedAll(f[k - 1], Waiting(g, Cars[k]))
           /\ AutoExit(g) = f[N]
<1> DEFINE F(f) == [n \in 0 .. N |-> IF n = 0 THEN g ELSE FreedAll(f[n - 1], Waiting(g, Cars[n]))]
           G == [p \in Heaps \X (1 .. N) |-> FreedAll(p[1], Waiting(g, Cars[p[2]]))]
<1>1. G \in [Heaps \X (1 .. N) -> Heaps]
  <2>1. \A p \in Heaps \X (1 .. N) : FreedAll(p[1], Waiting(g, Cars[p[2]])) \in Heaps
    <3>1. ASSUME NEW p \in Heaps \X (1 .. N) PROVE FreedAll(p[1], Waiting(g, Cars[p[2]])) \in Heaps
      <4>1. p[1] \in Heaps /\ Waiting(g, Cars[p[2]]) \in Seq(Eggs)
        OBVIOUS
      <4> QED BY <4>1, FreedAllFacts
    <3> QED BY <3>1
  <2> QED BY <2>1
<1>2. PICK f \in [0 .. N -> Heaps] : f[0] = g /\ \A k \in 1 .. N : f[k] = FreedAll(f[k - 1], Waiting(g, Cars[k]))
  <2>1. PICK f \in [0 .. N -> Heaps] : Iterates(f, g, N, G)
    <3> HIDE DEF G
    <3> QED BY <1>1, Iterated
  <2>2. \A k \in 1 .. N : <<f[k - 1], k>> \in Heaps \X (1 .. N)
    <3>1. \A k \in 1 .. N : k - 1 \in 0 .. N
      OBVIOUS
    <3> QED BY <3>1
  <2>3. \A k \in 1 .. N : G[<<f[k - 1], k>>] = FreedAll(f[k - 1], Waiting(g, Cars[k]))
    BY <2>2
  <2>4. f[0] = g /\ \A k \in 1 .. N : f[k] = G[<<f[k - 1], k>>]
    <3> HIDE DEF G
    <3> QED BY <2>1 DEF Iterates
  <2> HIDE DEF G
  <2> QED BY <2>3, <2>4, ZenonT(60)
<1>3. f = F(f)
  <2>1. \A k \in 0 .. N : f[k] = IF k = 0 THEN g ELSE FreedAll(f[k - 1], Waiting(g, Cars[k]))
    <3>1. \A k \in 0 .. N : k = 0 \/ k \in 1 .. N
      OBVIOUS
    <3> QED BY <3>1, <1>2
  <2>2. f = [k \in 0 .. N |-> f[k]]
    OBVIOUS
  <2>3. [k \in 0 .. N |-> f[k]] = F(f)
    BY <2>1
  <2> HIDE DEF F
  <2> QED BY ONLY <2>2, <2>3, Zenon
<1>4. PICK at : at = (CHOOSE ff : ff = F(ff))
  OBVIOUS
<1>5. at = F(at)
  <2> HIDE DEF F
  <2> QED BY <1>3, <1>4, Zenon
<1>6. at[0] = g /\ \A k \in 1 .. N : at[k] = FreedAll(at[k - 1], Waiting(g, Cars[k]))
  <2>1. \A k \in 0 .. N : at[k] = IF k = 0 THEN g ELSE FreedAll(at[k - 1], Waiting(g, Cars[k]))
    BY <1>5
  <2> QED BY <2>1
<1>7. at[N] = f[N]
  <2>1. \A k \in 1 .. N : f[k - 1] = at[k - 1] => f[k] = at[k]
    BY <1>2, <1>6
  <2>2. Alike(f, at, N)
    <3>1. f[0] = at[0]
      BY <1>2, <1>6
    <3> QED BY <2>1, <3>1, SameRun
  <2> QED BY <2>2 DEF Alike
<1>8. AutoExit(g) = at[N]
  BY <1>4 DEF AutoExit
<1> QED BY <1>2, <1>7, <1>8, SMTT(30)

(* u3_auto_exit() disposes of each ovum on a list once. *)
LEMMA ExitOnce ==
  ASSUME NEW g, NEW q, NEW F, Kept(g, q, F)
  PROVE  AutoExit(g) \in Heaps /\ \A x \in Eggs : AutoExit(g).gone[x] <= 1
<1>1. g \in Heaps /\ \A x \in Eggs : g.gone[x] <= 1
  BY SMTT(30) DEF Kept
<1>2. PICK N \in Nat : /\ N = Len(Cars)
                       /\ \A k \in 1 .. N : Cars[k] \in CarSet
                       /\ \A i, j \in 1 .. N : Cars[i] = Cars[j] => i = j
  <2>1. Cars \in Seq(STRING) /\ IsInjective(Cars)
    BY AutoAssumption
  <2>2. Len(Cars) \in Nat /\ DOMAIN Cars = 1 .. Len(Cars)
    BY <2>1
  <2> QED BY <2>1, <2>2 DEF CarSet, ToSet, IsInjective
<1>3. \A k \in 1 .. N : Waiting(g, Cars[k]) = q[Cars[k]] /\ q[Cars[k]] \in Seq(Eggs)
  <2>1. \A c \in CarSet : Links(g, c, q[c]) /\ q[c] \in Seq(Eggs)
    BY DEF Kept
  <2> QED BY <2>1, <1>1, <1>2, LaneWalks
<1>4. PICK f \in [0 .. N -> Heaps] :
           /\ f[0] = g /\ \A k \in 1 .. N : f[k] = FreedAll(f[k - 1], Waiting(g, Cars[k]))
           /\ AutoExit(g) = f[N]
  BY <1>1, <1>2, <1>3, ExitRun, SMTT(30)
<1> DEFINE P(k) == \A x \in Eggs : /\ f[k].gone[x] <= 1
                                   /\ f[k].gone[x] = g.gone[x] \/ \E m \in 1 .. k : g.car[x] = Cars[m]
           T == {k \in Nat : k <= N => P(k)}
<1>5. 0 \in T
  BY <1>1, <1>4
<1>6. ASSUME NEW k \in T PROVE k + 1 \in T
  <2>1. SUFFICES ASSUME k + 1 <= N PROVE P(k + 1)
    OBVIOUS
  <2>2. k \in Nat /\ k <= N /\ k + 1 \in 1 .. N /\ (k + 1) - 1 = k /\ k \in 0 .. N
    BY <2>1
  <2>3. P(k)
    BY <2>2
  <2>4. PICK c \in CarSet, s \in Seq(Eggs) : c = Cars[k + 1] /\ s = q[c] /\ s = Waiting(g, c)
    BY <2>2, <1>2, <1>3
  <2>5. PICK v \in Heaps, w \in Heaps : v = f[k] /\ w = f[k + 1] /\ w = FreedAll(v, s)
    <3>1. f[k] \in Heaps /\ f[k + 1] = FreedAll(f[k], s)
      BY <2>2, <2>4, <1>4
    <3> QED BY <3>1, FreedAllFacts
  <2>6. /\ \A i, j \in 1 .. Len(s) : s[i] = s[j] => i = j
        /\ \A i \in 1 .. Len(s) : g.car[s[i]] = c /\ g.gone[s[i]] = 0
        /\ \A i \in 1 .. Len(s) : s[i] \in Eggs
    <3>1. Links(g, c, s)
      BY <2>4 DEF Kept
    <3> QED BY <3>1 DEF Links
  <2>7. \A m \in 1 .. k : Cars[m] # c
    <3>1. \A m \in 1 .. k : m \in 1 .. N /\ m # k + 1
      BY <2>2
    <3> QED BY <3>1, <2>2, <2>4, <1>2
  <2>8. \A i \in 1 .. Len(s) : v.gone[s[i]] = 0
    BY <2>3, <2>5, <2>6, <2>7, SMTT(30)
  <2>9. \A x \in Eggs : w.gone[x] = IF x \in ToSet(s) THEN 1 ELSE v.gone[x]
    BY ONLY <2>5, <2>6, <2>8, FreedAllFacts, s \in Seq(Eggs), SMTT(30)
  <2>10. \A x \in ToSet(s) : g.car[x] = c
    <3>1. \A x \in ToSet(q[c]) : g.car[x] = c
      BY KeptFacts
    <3> QED BY <3>1, <2>4
  <2>11. k + 1 \in 1 .. k + 1 /\ \A m \in 1 .. k : m \in 1 .. k + 1
    BY <2>2
  <2>12. ASSUME NEW x \in Eggs
         PROVE  /\ w.gone[x] <= 1
                /\ w.gone[x] = g.gone[x] \/ \E m \in 1 .. k + 1 : g.car[x] = Cars[m]
    <3>1. CASE x \in ToSet(s)
      BY <3>1, <2>4, <2>9, <2>10, <2>11
    <3>2. CASE x \notin ToSet(s)
      <4>1. w.gone[x] = v.gone[x]
        BY <3>2, <2>9
      <4> QED BY <4>1, <2>3, <2>5, <2>11
    <3> QED BY <3>1, <3>2
  <2> QED BY <2>5, <2>12
<1>7. T \in SUBSET Nat
  OBVIOUS
<1>8. T = Nat
  <2> HIDE DEF T
  <2> QED BY <1>5, <1>6, <1>7, Induct
<1>9. N \in T
  <2> HIDE DEF T
  <2> QED BY <1>8
<1>10. P(N)
  BY <1>9
<1> QED BY <1>4, <1>10

LEMMA DropRun ==
  ASSUME NEW g \in Heaps, NEW s \in Seq(Eggs), NEW N \in Nat, N = Len(s)
  PROVE  \E f \in [0 .. N -> Heaps] :
           /\ f[0] = g /\ \A k \in 1 .. N : f[k] = AutoDrop(f[k - 1], s[k])
           /\ Halted(g, s) = AutoExit(f[N])
<1> DEFINE F(f) == [n \in 0 .. N |-> IF n = 0 THEN g ELSE AutoDrop(f[n - 1], s[n])]
           G == [p \in Heaps \X (1 .. N) |-> AutoDrop(p[1], s[p[2]])]
<1>1. \A k \in 1 .. N : s[k] \in Eggs
  OBVIOUS
<1>2. G \in [Heaps \X (1 .. N) -> Heaps]
  <2>1. \A p \in Heaps \X (1 .. N) : AutoDrop(p[1], s[p[2]]) \in Heaps
    <3>1. ASSUME NEW p \in Heaps \X (1 .. N) PROVE AutoDrop(p[1], s[p[2]]) \in Heaps
      <4>1. p[1] \in Heaps /\ s[p[2]] \in Eggs
        BY <1>1
      <4> QED BY <4>1, DropFields
    <3> QED BY <3>1
  <2> QED BY <2>1
<1>3. PICK f \in [0 .. N -> Heaps] : f[0] = g /\ \A k \in 1 .. N : f[k] = AutoDrop(f[k - 1], s[k])
  <2>1. PICK f \in [0 .. N -> Heaps] : Iterates(f, g, N, G)
    <3> HIDE DEF G
    <3> QED BY <1>2, Iterated
  <2>2. \A k \in 1 .. N : <<f[k - 1], k>> \in Heaps \X (1 .. N)
    <3>1. \A k \in 1 .. N : k - 1 \in 0 .. N
      OBVIOUS
    <3> QED BY <3>1
  <2>3. \A k \in 1 .. N : G[<<f[k - 1], k>>] = AutoDrop(f[k - 1], s[k])
    BY <2>2
  <2>4. f[0] = g /\ \A k \in 1 .. N : f[k] = G[<<f[k - 1], k>>]
    <3> HIDE DEF G
    <3> QED BY <2>1 DEF Iterates
  <2> HIDE DEF G
  <2> QED BY <2>3, <2>4, SMTT(30)
<1>4. f = F(f)
  <2>1. \A k \in 0 .. N : f[k] = IF k = 0 THEN g ELSE AutoDrop(f[k - 1], s[k])
    <3>1. \A k \in 0 .. N : k = 0 \/ k \in 1 .. N
      OBVIOUS
    <3> QED BY <3>1, <1>3
  <2>2. f = [k \in 0 .. N |-> f[k]]
    OBVIOUS
  <2>3. [k \in 0 .. N |-> f[k]] = F(f)
    BY <2>1
  <2> HIDE DEF F
  <2> QED BY ONLY <2>2, <2>3, Zenon
<1>5. PICK at : at = (CHOOSE ff : ff = F(ff))
  OBVIOUS
<1>6. at = F(at)
  <2> HIDE DEF F
  <2> QED BY <1>4, <1>5, Zenon
<1>7. at[0] = g /\ \A k \in 1 .. N : at[k] = AutoDrop(at[k - 1], s[k])
  <2>1. \A k \in 0 .. N : at[k] = IF k = 0 THEN g ELSE AutoDrop(at[k - 1], s[k])
    BY <1>6
  <2> QED BY <2>1
<1>8. at[N] = f[N]
  <2>1. \A k \in 1 .. N : f[k - 1] = at[k - 1] => f[k] = at[k]
    BY <1>3, <1>7
  <2>2. Alike(f, at, N)
    <3>1. f[0] = at[0]
      BY <1>3, <1>7
    <3> QED BY <2>1, <3>1, SameRun, SMTT(30)
  <2> QED BY <2>2 DEF Alike
<1>9. Halted(g, s) = AutoExit(at[N])
  BY <1>5 DEF Halted
<1> QED BY <1>3, <1>8, <1>9

(* The end of the pier with ova still at the worker. *)
LEMMA HaltOnce ==
  ASSUME NEW g, NEW q, NEW s \in Seq(Eggs), Kept(g, q, ToSet(s)),
         \A i, j \in 1 .. Len(s) : s[i] = s[j] => i = j
  PROVE  Halted(g, s) \in Heaps /\ \A x \in Eggs : Halted(g, s).gone[x] <= 1
<1>1. PICK N \in Nat : N = Len(s)
  BY InList
<1>2. g \in Heaps
  BY DEF Kept
<1>3. PICK f \in [0 .. N -> Heaps] :
           /\ f[0] = g /\ \A k \in 1 .. N : f[k] = AutoDrop(f[k - 1], s[k])
           /\ Halted(g, s) = AutoExit(f[N])
  BY <1>1, <1>2, DropRun, SMTT(30)
<1> DEFINE Rest(k) == {s[i] : i \in k + 1 .. N}
           P(k) == \E r : Kept(f[k], r, Rest(k))
           T == {k \in Nat : k <= N => P(k)}
<1>4. 0 \in T
  <2>1. Rest(0) = ToSet(s)
    BY <1>1, InList
  <2> HIDE DEF Rest
  <2> QED BY <2>1, <1>3
<1>5. ASSUME NEW k \in T PROVE k + 1 \in T
  <2>1. SUFFICES ASSUME k + 1 <= N PROVE P(k + 1)
    OBVIOUS
  <2>2. k \in Nat /\ k <= N /\ k + 1 \in 1 .. N /\ (k + 1) - 1 = k /\ k + 1 \in k + 1 .. N
    BY <2>1
  <2>3. PICK r : Kept(f[k], r, Rest(k))
    BY <2>2
  <2>4. PICK e : e = s[k + 1]
    OBVIOUS
  <2>5. e \in Rest(k)
    BY <2>2, <2>4
  <2>6. Rest(k + 1) = Rest(k) \ {e}
    <3>1. \A i \in (k + 1) + 1 .. N : i \in k + 1 .. N /\ i \in 1 .. N /\ i # k + 1
      BY <2>2
    <3>2. \A i \in k + 1 .. N : i = k + 1 \/ i \in (k + 1) + 1 .. N
      BY <2>2
    <3>3. ASSUME NEW x \in Rest(k + 1) PROVE x \in Rest(k) \ {e}
      <4>1. PICK i \in (k + 1) + 1 .. N : x = s[i]
        OBVIOUS
      <4>2. s[i] # e
        BY <3>1, <2>2, <2>4, <1>1
      <4> QED BY <4>1, <4>2, <3>1
    <3>4. ASSUME NEW x \in Rest(k) \ {e} PROVE x \in Rest(k + 1)
      <4>1. PICK i \in k + 1 .. N : x = s[i]
        OBVIOUS
      <4> QED BY <4>1, <3>2, <2>4
    <3> HIDE DEF Rest
    <3> QED BY <3>3, <3>4
  <2>7. f[k + 1] = AutoDrop(f[k], e)
    BY <2>2, <2>4, <1>3
  <2> HIDE DEF Rest
  <2>8. \E r2 : Kept(AutoDrop(f[k], e), r2, Rest(k) \ {e})
    BY <2>3, <2>5, DropKept
  <2> QED BY <2>6, <2>7, <2>8
<1>6. T \in SUBSET Nat
  OBVIOUS
<1>7. T = Nat
  <2> HIDE DEF T
  <2> QED BY <1>4, <1>5, <1>6, Induct
<1>8. N \in T
  <2> HIDE DEF T
  <2> QED BY <1>7
<1>9. PICK r : Kept(f[N], r, Rest(N))
  BY <1>8
<1> QED BY <1>3, <1>9, ExitOnce

LEMMA PlannedOwned ==
  ASSUME NEW g, NEW q, NEW F, Owned(g, q, F), Unused(g) # {}, NEW card \in CarSet \X Cards
  PROVE  /\ Planned(g, card) \in Heaps /\ \E r : Owned(Planned(g, card), r, F)
         /\ Cardinality(Unused(g)) \in Nat
         /\ Cardinality(Unused(Planned(g, card))) = Cardinality(Unused(g)) - 1
<1>1. PICK e : e = Min(Unused(g))
  OBVIOUS
<1>2. Unused(g) \in SUBSET Nat /\ Unused(g) \subseteq Eggs
  BY EggFacts DEF Unused
<1>3. e \in Unused(g)
  <2>1. \E m \in Unused(g) : \A j \in Unused(g) : m <= j
    BY <1>2, Least
  <2> QED BY <1>1, <2>1 DEF Min
<1>4. PICK k : k = AutoPlan(Made(g, e, card[2]), card[1], e)
  OBVIOUS
<1>5. k = Planned(g, card)
  BY <1>1, <1>4 DEF Planned
<1>6. card[1] \in CarSet /\ card[2] \in Cards
  OBVIOUS
<1>7. (\E r : Owned(k, r, F)) /\ Unused(k) = Unused(g) \ {e}
  <2>1. PICK c \in CarSet, cad \in Cards : c = card[1] /\ cad = card[2]
    BY <1>6
  <2>2. Owned(k, [q EXCEPT ![c] = Append(q[c], e)], F) /\ Unused(k) = Unused(g) \ {e}
    BY <2>1, <1>3, <1>4, PlanOwned
  <2> QED BY <2>2, Zenon
<1>8. k \in Heaps
  BY <1>7 DEF Owned, Kept
<1>9. IsFiniteSet(Unused(g))
  BY <1>2, EggFacts, FS_Subset
<1>10. Cardinality(Unused(g)) \in Nat /\ Cardinality(Unused(g) \ {e}) = Cardinality(Unused(g)) - 1
  BY <1>3, <1>9, FS_CardinalityType, FS_RemoveElement
<1> QED BY <1>5, <1>7, <1>8, <1>10

LEMMA PlansOwned ==
  ASSUME NEW q, NEW X, Owned(h, q, X), NEW cards \in Seq(CarSet \X Cards), CanPlan(Len(cards))
  PROVE  \E r : Owned(Plans(cards), r, X)
<1>1. PICK N \in Nat : N = Len(cards) /\ \A k \in 1 .. N : cards[k] \in CarSet \X Cards
  OBVIOUS
<1> DEFINE Able(v) == (\E r : Owned(v, r, X)) /\ Unused(v) # {}
           F(f) == [n \in 0 .. N |-> IF n = 0 THEN h ELSE Planned(f[n - 1], cards[n])]
           G == [p \in Heaps \X (1 .. N) |-> IF Able(p[1]) THEN Planned(p[1], cards[p[2]]) ELSE p[1]]
<1>2. G \in [Heaps \X (1 .. N) -> Heaps]
  <2>1. ASSUME NEW p \in Heaps \X (1 .. N), Able(p[1]) PROVE Planned(p[1], cards[p[2]]) \in Heaps
    <3>1. cards[p[2]] \in CarSet \X Cards
      BY <1>1
    <3>2. PICK r : Owned(p[1], r, X) /\ Unused(p[1]) # {}
      BY <2>1
    <3> QED BY <3>1, <3>2, PlannedOwned
  <2>2. \A p \in Heaps \X (1 .. N) : p[1] \in Heaps
    OBVIOUS
  <2> HIDE DEF Able
  <2> QED BY <2>1, <2>2
<1>3. PICK f \in [0 .. N -> Heaps] :
         f[0] = h /\ \A k \in 1 .. N : f[k] = IF Able(f[k - 1]) THEN Planned(f[k - 1], cards[k]) ELSE f[k - 1]
  <2> HIDE DEF Able
  <2>0. h \in Heaps
    BY DEF Owned, Kept
  <2>1. PICK f \in [0 .. N -> Heaps] : Iterates(f, h, N, G)
    <3> HIDE DEF G
    <3> QED BY <2>0, <1>2, Iterated
  <2>2. \A k \in 1 .. N : <<f[k - 1], k>> \in Heaps \X (1 .. N)
    <3>1. \A k \in 1 .. N : k - 1 \in 0 .. N
      OBVIOUS
    <3> QED BY <3>1
  <2>3. \A k \in 1 .. N : G[<<f[k - 1], k>>] = IF Able(f[k - 1]) THEN Planned(f[k - 1], cards[k]) ELSE f[k - 1]
    BY <2>2
  <2>4. f[0] = h /\ \A k \in 1 .. N : f[k] = G[<<f[k - 1], k>>]
    <3> HIDE DEF G
    <3> QED BY <2>1 DEF Iterates
  <2> HIDE DEF G
  <2> QED BY <2>3, <2>4
<1> DEFINE P(k) == /\ \E r : Owned(f[k], r, X)
                   /\ Cardinality(Unused(f[k])) \in Nat /\ Cardinality(Unused(f[k])) + k >= N
                   /\ k # N => Able(f[k])
           T == {k \in Nat : k <= N => P(k)}
<1>4. ASSUME NEW g, NEW r, Owned(g, r, X), NEW k \in Nat, k <= N, Cardinality(Unused(g)) + k >= N
      PROVE  Cardinality(Unused(g)) \in Nat /\ (k # N => Able(g))
  <2>1. Unused(g) \subseteq Eggs
    BY DEF Unused
  <2>2. IsFiniteSet(Unused(g))
    BY <2>1, EggFacts, FS_Subset
  <2>3. Cardinality(Unused(g)) \in Nat
    BY <2>2, FS_CardinalityType
  <2>4. Unused(g) = {} => Cardinality(Unused(g)) = 0
    BY FS_EmptySet
  <2>5. k # N => Unused(g) # {}
    BY <2>3, <2>4, <1>4
  <2> QED BY <2>3, <2>5, <1>4
<1>5. 0 \in T
  <2>1. CanPlan(N)
    BY <1>1
  <2>2. Cardinality(Unused(h)) >= N
    BY <2>1 DEF CanPlan
  <2>3. Unused(h) \subseteq Eggs
    BY DEF Unused
  <2>4. Cardinality(Unused(h)) \in Nat
    BY <2>3, EggFacts, FS_Subset, FS_CardinalityType
  <2>5. Cardinality(Unused(h)) + 0 >= N /\ 0 \in Nat /\ 0 <= N
    BY <2>2, <2>4
  <2>6. 0 # N => Able(h)
    <3> HIDE DEF Able
    <3> QED BY <2>5, <1>4
  <2> HIDE DEF Able
  <2> QED BY <2>4, <2>5, <2>6, <1>3
<1>6. ASSUME NEW k \in T PROVE k + 1 \in T
  <2>1. SUFFICES ASSUME k + 1 <= N PROVE P(k + 1)
    OBVIOUS
  <2>2. k \in Nat /\ k <= N /\ k + 1 \in 1 .. N /\ (k + 1) - 1 = k /\ k # N /\ k + 1 \in Nat
    BY <2>1
  <2>3. Cardinality(Unused(f[k])) + k >= N /\ Able(f[k])
    <3> HIDE DEF Able
    <3> QED BY <2>2
  <2>4. PICK r : Owned(f[k], r, X) /\ Unused(f[k]) # {}
    BY <2>3
  <2>5. PICK card \in CarSet \X Cards : card = cards[k + 1]
    BY <2>2, <1>1
  <2>6. f[k + 1] = Planned(f[k], card)
    <3> HIDE DEF Able
    <3> QED BY <2>2, <2>3, <2>5, <1>3
  <2>7. PICK r2 : Owned(f[k + 1], r2, X)
    BY <2>4, <2>6, PlannedOwned
  <2>8. /\ Cardinality(Unused(f[k])) \in Nat
        /\ Cardinality(Unused(f[k + 1])) = Cardinality(Unused(f[k])) - 1
    BY <2>4, <2>6, PlannedOwned
  <2>9. Cardinality(Unused(f[k + 1])) + (k + 1) >= N
    BY <2>2, <2>3, <2>8
  <2>10. Cardinality(Unused(f[k + 1])) \in Nat /\ (k + 1 # N => Able(f[k + 1]))
    <3> HIDE DEF Able
    <3> QED BY <2>1, <2>2, <2>7, <2>9, <1>4
  <2> HIDE DEF Able
  <2> QED BY <2>7, <2>9, <2>10
<1>7. T \in SUBSET Nat
  OBVIOUS
<1>8. T = Nat
  <2> HIDE DEF T
  <2> QED BY <1>5, <1>6, <1>7, Induct
<1>9. \A k \in 0 .. N : P(k)
  <2>1. \A k \in 0 .. N : k \in T /\ k <= N
    <3> HIDE DEF T
    <3> QED BY <1>8
  <2> HIDE DEF P
  <2> QED BY <2>1
<1>10. \A k \in 1 .. N : f[k] = Planned(f[k - 1], cards[k])
  <2>1. \A k \in 1 .. N : k - 1 \in 0 .. N /\ k - 1 # N
    OBVIOUS
  <2>2. \A k \in 1 .. N : Able(f[k - 1])
    <3> HIDE DEF Able
    <3> QED BY <2>1, <1>9
  <2> HIDE DEF Able
  <2> QED BY <2>2, <1>3
<1>11. f = F(f)
  <2>1. \A k \in 0 .. N : f[k] = IF k = 0 THEN h ELSE Planned(f[k - 1], cards[k])
    <3>1. \A k \in 0 .. N : k = 0 \/ k \in 1 .. N
      OBVIOUS
    <3>2. f[0] = h
      BY <1>3
    <3> QED BY <3>1, <3>2, <1>10
  <2>2. f = [k \in 0 .. N |-> f[k]]
    BY <1>3
  <2>3. [k \in 0 .. N |-> f[k]] = F(f)
    BY <2>1
  <2> HIDE DEF F
  <2> QED BY ONLY <2>2, <2>3, Zenon
<1>12. PICK at : at = (CHOOSE ff : ff = F(ff))
  OBVIOUS
<1>13. at = F(at)
  <2> HIDE DEF F
  <2> QED BY <1>11, <1>12, Zenon
<1>14. at[0] = h /\ \A k \in 1 .. N : at[k] = Planned(at[k - 1], cards[k])
  <2>1. \A k \in 0 .. N : at[k] = IF k = 0 THEN h ELSE Planned(at[k - 1], cards[k])
    BY <1>13
  <2> QED BY <2>1
<1>15. at[N] = f[N]
  <2>1. \A k \in 1 .. N : f[k - 1] = at[k - 1] => f[k] = at[k]
    BY <1>10, <1>14
  <2>2. Alike(f, at, N)
    <3>1. f[0] = at[0]
      BY <1>3, <1>14
    <3> QED BY <2>1, <3>1, SameRun
  <2> QED BY <2>2 DEF Alike
<1>16. Plans(cards) = at[N]
  BY <1>1, <1>12 DEF Plans
<1>17. \E r : Owned(f[N], r, X)
  <2>1. N \in 0 .. N
    OBVIOUS
  <2> QED BY <2>1, <1>9
<1> QED BY <1>15, <1>16, <1>17

-----------------------------------------------------------------------------
(* The ova of the drivers *)

(* While the pier runs there are lists, one for each driver, that with the   *)
(* ova at the worker own what exists.                                        *)
OvaInv ==
  /\ h \in Heaps /\ (\A e \in Eggs : h.gone[e] <= 1)
  /\ fly \in Seq(Eggs) /\ (\A i, j \in 1 .. Len(fly) : fly[i] = fly[j] => i = j)
  /\ liv \in BOOLEAN /\ sat \in {"init", "work", "done", "gone"}
  /\ sat = "init" => Unused(h) = Eggs
  /\ sat # "gone" => \E q : Owned(h, q, ToSet(fly))

LEMMA OvaInitial == DriversInit => OvaInv
<1> SUFFICES ASSUME DriversInit PROVE OvaInv
  OBVIOUS
<1>1. h = EmptyHeap /\ fly = <<>> /\ liv = FALSE /\ sat = "init"
  BY DEF DriversInit
<1>2. /\ \A c \in CarSet : h.ent[c] = Nil /\ h.ext[c] = Nil /\ h.dep[c] = 0
      /\ \A e \in Eggs : h.gone[e] = 1
  BY <1>1 DEF EmptyHeap
<1>3. h \in Heaps
  <2>1. 0 \in 0 .. DepthWrap - 1
    BY AutoAssumption
  <2> QED BY <2>1, <1>1 DEF EmptyHeap, Heaps
<1>4. <<>> \in Seq(Eggs) /\ Len(<<>>) = 0 /\ ToSet(<<>>) = {} /\ 1 .. 0 = {}
  <2>1. <<>> \in Seq(Eggs) /\ Len(<<>>) = 0 /\ DOMAIN <<>> = {} /\ 1 .. 0 = {}
    OBVIOUS
  <2> QED BY <2>1 DEF ToSet
<1>5. PICK q : q = [c \in CarSet |-> <<>>]
  OBVIOUS
<1>6. q \in [CarSet -> Seq(Eggs)] /\ \A c \in CarSet : q[c] = <<>>
  BY <1>4, <1>5
<1>7. ASSUME NEW c \in CarSet PROVE Lane(h, c, <<>>)
  <2>1. 0 % DepthWrap = 0
    BY Depth
  <2> QED BY <2>1, <1>2, <1>4 DEF Lane, Links
<1>8. Kept(h, q, {})
  <2>1. \A c \in CarSet : Links(h, c, q[c]) /\ ToSet(q[c]) \cap {} = {}
    BY <1>6, <1>7 DEF Lane
  <2>2. \A e \in Eggs : h.gone[e] <= 1
    BY <1>2
  <2> QED BY <2>1, <2>2, <1>3, <1>6 DEF Kept
<1>9. Owned(h, q, ToSet(fly))
  <2>1. \A e \in Eggs : h.gone[e] # 0
    BY <1>2
  <2> QED BY <2>1, <1>1, <1>4, <1>6, <1>7, <1>8 DEF Owned
<1>10. Unused(h) = Eggs
  <2>1. \A e \in Eggs : h.gone[e] > 0
    BY <1>2
  <2> QED BY <2>1 DEF Unused
<1>11. \A e \in Eggs : h.gone[e] <= 1
  BY <1>2
<1> QED BY <1>1, <1>3, <1>4, <1>9, <1>10, <1>11 DEF OvaInv

(* What is left of an invariant of lists and ova. *)
LEMMA OvaKept ==
  ASSUME OvaInv, NEW r, Owned(h, r, ToSet(fly))', fly' \in Seq(Eggs),
         \A i, j \in 1 .. Len(fly') : fly'[i] = fly'[j] => i = j,
         liv' \in BOOLEAN, sat' \in {"work", "done"}
  PROVE  OvaInv'
<1>1. h' \in Heaps /\ \A e \in Eggs : h'.gone[e] <= 1
  BY DEF Owned, Kept
<1> QED BY <1>1 DEF OvaInv

LEMMA OvaEnd ==
  ASSUME OvaInv, h' \in Heaps, \A e \in Eggs : h'.gone[e] <= 1, fly' = <<>>, liv' = liv, sat' = "gone"
  PROVE  OvaInv'
<1>1. fly' \in Seq(Eggs) /\ Len(fly') = 0 /\ 1 .. 0 = {}
  OBVIOUS
<1> QED BY <1>1 DEF OvaInv

LEMMA OneCard ==
  ASSUME NEW c \in CarSet, NEW cad \in Cards
  PROVE  <<<<c, cad>>>> \in Seq(CarSet \X Cards) /\ Len(<<<<c, cad>>>>) = 1
  OBVIOUS

LEMMA TalkCards ==
  ASSUME NEW S, NEW a \in S, NEW b \in S, NEW c \in S, NEW d \in S, NEW user, user = <<>> \/ user = <<c>>
  PROVE  <<a, b>> \o user \o <<d>> \in Seq(S) /\ Len(<<a, b>> \o user \o <<d>>) \in 0 .. 4
<1>1. <<a, b>> \in Seq(S) /\ Len(<<a, b>>) = 2
  OBVIOUS
<1>2. <<d>> \in Seq(S) /\ Len(<<d>>) = 1 /\ <<c>> \in Seq(S) /\ Len(<<c>>) = 1
  OBVIOUS
<1>3. <<>> \in Seq(S) /\ Len(<<>>) = 0
  OBVIOUS
<1>4. user \in Seq(S) /\ (Len(user) = 0 \/ Len(user) = 1)
  BY ONLY <1>2, <1>3, user = <<>> \/ user = <<c>>, Zenon
<1>5. /\ <<a, b>> \o user \in Seq(S)
      /\ Len(<<a, b>> \o user) = Len(<<a, b>>) + Len(user)
  BY ONLY <1>1, <1>4, ConcatProperties, Zenon
<1>6. /\ <<a, b>> \o user \o <<d>> \in Seq(S)
      /\ Len(<<a, b>> \o user \o <<d>>) = Len(<<a, b>> \o user) + Len(<<d>>)
  BY ONLY <1>2, <1>5, ConcatProperties, Zenon
<1>7. \A l, m, n : l = 2 /\ (m = 0 \/ m = 1) /\ n = 1 => (l + m) + n \in 0 .. 4
  OBVIOUS
<1> QED BY ONLY <1>1, <1>2, <1>4, <1>5, <1>6, <1>7, Zenon

LEMMA OvaTalk == ASSUME OvaInv, Talk PROVE OvaInv'
<1>1. PICK q : Owned(h, q, ToSet(fly)) /\ Unused(h) = Eggs
  BY DEF OvaInv, Talk
<1>2. PICK user \in {<<>>, <<<<"fore", "inject">>>>} :
           h' = Plans(<<<<"fore", "wack">>, <<"fore", "verb">>>> \o user \o <<<<"behn", "born">>>>)
  BY DEF Talk
<1>3. PICK cards : cards = <<<<"fore", "wack">>, <<"fore", "verb">>>> \o user \o <<<<"behn", "born">>>>
  OBVIOUS
<1>4. cards \in Seq(CarSet \X Cards) /\ Len(cards) \in 0 .. 4
  <2>1. PICK a \in CarSet \X Cards, b \in CarSet \X Cards, c \in CarSet \X Cards, d \in CarSet \X Cards :
           a = <<"fore", "wack">> /\ b = <<"fore", "verb">> /\ c = <<"fore", "inject">> /\ d = <<"behn", "born">>
    BY DriversAssumption
  <2>2. (user = <<>> \/ user = <<c>>) /\ cards = <<a, b>> \o user \o <<d>>
    BY <2>1, <1>3
  <2> QED BY ONLY <2>1, <2>2, TalkCards
<1>5. CanPlan(Len(cards))
  <2>1. Cardinality(Eggs) >= 4 /\ Cardinality(Eggs) \in Nat
    BY DriversAssumption, EggFacts, FS_CardinalityType
  <2>2. PICK m \in 0 .. 4 : m = Len(cards)
    BY <1>4
  <2>3. Cardinality(Eggs) >= m
    BY <2>1
  <2> QED BY <2>2, <2>3, <1>1 DEF CanPlan
<1>6. PICK r : Owned(h', r, ToSet(fly))
  BY <1>1, <1>2, <1>3, <1>4, <1>5, PlansOwned
<1> QED BY <1>6, OvaKept DEF Talk, OvaInv

LEMMA OvaTimeCb == ASSUME OvaInv, TimeCb PROVE OvaInv'
<1>1. PICK q : Owned(h, q, ToSet(fly))
  BY DEF OvaInv, TimeCb
<1>2. PICK cards \in Seq(CarSet \X Cards) : cards = <<<<"behn", "wake">>>> /\ Len(cards) = 1
  BY DriversAssumption, OneCard
<1>3. h' = Plans(cards) /\ CanPlan(Len(cards))
  BY <1>2 DEF TimeCb
<1>4. PICK r : Owned(h', r, ToSet(fly))
  BY <1>1, <1>3, PlansOwned
<1> QED BY <1>4, OvaKept DEF TimeCb, OvaInv

LEMMA OvaSend == ASSUME OvaInv, Send PROVE OvaInv'
<1>1. PICK q : Owned(h, q, ToSet(fly))
  BY DEF OvaInv, Send
<1>2. PICK e \in Eggs : e = AutoTaken(h) /\ e \notin ToSet(fly)
  BY <1>1, NextOwned DEF Send
<1>3. PICK r : Owned(h', r, ToSet(fly) \cup {e})
  BY <1>1, <1>2, NextOwned DEF Send
<1>4. PICK s \in Seq(Eggs) : s = fly
  BY DEF OvaInv
<1>5. fly' = Append(s, e) /\ fly' \in Seq(Eggs) /\ ToSet(fly') = ToSet(fly) \cup {e}
  BY <1>2, <1>4, InAppend DEF Send
<1>6. PICK n \in Nat : n = Len(s)
  BY <1>4
<1>7. Len(fly') = n + 1 /\ fly'[n + 1] = e /\ \A i \in 1 .. n : fly'[i] = s[i]
  BY <1>5, <1>6
<1>8. \A i \in 1 .. n : s[i] # e
  <2>1. ToSet(s) = {s[i] : i \in 1 .. n}
    BY <1>6, InList
  <2> QED BY <2>1, <1>2, <1>4
<1>9. \A i, j \in 1 .. n + 1 : fly'[i] = fly'[j] => i = j
  <2>1. \A i \in 1 .. n + 1 : i \in 1 .. n \/ i = n + 1
    OBVIOUS
  <2>2. \A i, j \in 1 .. n : s[i] = s[j] => i = j
    BY <1>4, <1>6 DEF OvaInv
  <2>3. ASSUME NEW i \in 1 .. n + 1, NEW j \in 1 .. n + 1, fly'[i] = fly'[j] PROVE i = j
    <3>1. CASE i \in 1 .. n /\ j \in 1 .. n
      <4>1. s[i] = s[j]
        BY <3>1, <2>3, <1>7
      <4> QED BY <4>1, <3>1, <2>2
    <3>2. CASE i = n + 1 /\ j = n + 1
      BY <3>2
    <3>3. CASE i \in 1 .. n /\ j = n + 1
      BY <3>3, <2>3, <1>7, <1>8
    <3>4. CASE i = n + 1 /\ j \in 1 .. n
      BY <3>4, <2>3, <1>7, <1>8
    <3> QED BY <2>1, <3>1, <3>2, <3>3, <3>4
  <2> QED BY <2>3
<1>10. \A i, j \in 1 .. Len(fly') : fly'[i] = fly'[j] => i = j
  BY ONLY <1>7, <1>9
<1>11. liv' \in BOOLEAN /\ sat' \in {"work", "done"}
  BY DEF Send, OvaInv
<1>12. Owned(h', r, ToSet(fly'))
  BY ONLY <1>3, <1>5
<1> QED BY <1>5, <1>10, <1>11, <1>12, OvaKept

(* The oldest ovum at the worker leaves it. *)
LEMMA FlyTail ==
  ASSUME OvaInv, fly # <<>>
  PROVE  /\ Tail(fly) \in Seq(Eggs) /\ Head(fly) \in ToSet(fly)
         /\ ToSet(Tail(fly)) = ToSet(fly) \ {Head(fly)}
         /\ \A i, j \in 1 .. Len(Tail(fly)) : Tail(fly)[i] = Tail(fly)[j] => i = j
<1>1. PICK s \in Seq(Eggs) : s = fly /\ s # <<>>
  BY DEF OvaInv
<1>2. PICK n \in Nat : n = Len(s) /\ n # 0
  BY <1>1
<1>3. PICK t : t = Tail(s)
  OBVIOUS
<1>4. t \in Seq(Eggs) /\ Head(s) = s[1] /\ ToSet(s) = ToSet(t) \cup {s[1]}
  BY <1>1, <1>3, InTail
<1>5. Len(t) = n - 1 /\ \A i \in 1 .. n - 1 : t[i] = s[i + 1]
  BY <1>1, <1>2, <1>3
<1>6. \A i, j \in 1 .. n : s[i] = s[j] => i = j
  BY <1>1, <1>2 DEF OvaInv
<1>7. 1 \in 1 .. n /\ \A i \in 1 .. n - 1 : i + 1 \in 1 .. n /\ i + 1 # 1
  BY <1>2
<1>8. ASSUME NEW i \in 1 .. n - 1, NEW j \in 1 .. n - 1, t[i] = t[j] PROVE i = j
  <2>1. i + 1 = j + 1
    BY <1>5, <1>6, <1>7, <1>8
  <2> QED BY <2>1
<1>9. s[1] \notin ToSet(t)
  <2>1. ToSet(t) = {t[i] : i \in 1 .. n - 1}
    BY <1>4, <1>5, InList
  <2>2. \A i \in 1 .. n - 1 : t[i] # s[1]
    BY <1>5, <1>6, <1>7
  <2> QED BY <2>1, <2>2
<1> QED BY <1>1, <1>3, <1>4, <1>5, <1>8, <1>9

LEMMA OvaFreed ==
  ASSUME OvaInv, sat \in {"work", "done"}, fly # <<>>, h' = Freed(h, Head(fly)), fly' = Tail(fly),
         liv' \in BOOLEAN, sat' = sat
  PROVE  OvaInv'
<1>1. PICK q : Owned(h, q, ToSet(fly))
  BY DEF OvaInv
<1>2. Owned(h', q, ToSet(fly) \ {Head(fly)})
  BY <1>1, FlyTail, FreeOwned
<1>3. Owned(h', q, ToSet(fly'))
  BY <1>2, FlyTail
<1> QED BY <1>3, FlyTail, OvaKept

LEMMA OvaBail == ASSUME OvaInv, WorkBail PROVE OvaInv'
<1>1. PICK q : Owned(h, q, ToSet(fly))
  BY DEF OvaInv, WorkBail
<1>2. PICK e \in ToSet(fly) : e = Head(fly) /\ fly # <<>> /\ sat \in {"work", "done"} /\ liv' = liv
  BY FlyTail DEF WorkBail
<1>3. liv' \in BOOLEAN
  BY <1>2 DEF OvaInv
<1>4. PICK dire \in BOOLEAN :
        LET essential == h.cad[e] \in {"wake", "born"}
        IN  /\ fly' = IF essential /\ (dire \/ h.try[e] >= 2) THEN <<>> ELSE Tail(fly)
            /\ h' = IF ~essential THEN Freed(h, e)
                    ELSE IF h.try[e] < 2 /\ ~dire THEN AutoRedo(h, e)
                    ELSE Halted(Freed(h, e), Tail(fly))
            /\ sat' = IF essential /\ (dire \/ h.try[e] >= 2) THEN "gone" ELSE sat
  BY <1>2 DEF WorkBail
<1>5. h.try[e] \in 0 .. 2 /\ h \in Heaps
  <2>1. e \in Eggs /\ h \in Heaps
    BY <1>1, <1>2 DEF Owned, Kept
  <2> QED BY <2>1, HeapFacts
<1>6. h.try[e] < 2 <=> ~(h.try[e] >= 2)
  BY <1>5
<1>7. CASE h.cad[e] \notin {"wake", "born"}
  <2>1. h' = Freed(h, Head(fly)) /\ fly' = Tail(fly) /\ sat' = sat
    BY <1>2, <1>4, <1>7
  <2> QED BY <2>1, <1>2, <1>3, OvaFreed
<1>8. CASE h.cad[e] \in {"wake", "born"} /\ h.try[e] < 2 /\ ~dire
  <2>1. h' = AutoRedo(h, e) /\ fly' = Tail(fly) /\ sat' = sat
    BY <1>4, <1>6, <1>8
  <2>2. PICK r : Owned(h', r, ToSet(fly) \ {e})
    BY <2>1, <1>1, <1>8, RedoOwned
  <2>3. Owned(h', r, ToSet(fly'))
    BY <2>1, <2>2, <1>2, FlyTail
  <2> QED BY <2>1, <2>3, <1>2, <1>3, FlyTail, OvaKept
<1>9. CASE h.cad[e] \in {"wake", "born"} /\ ~(h.try[e] < 2 /\ ~dire)
  <2>1. h' = Halted(Freed(h, e), Tail(fly)) /\ fly' = <<>> /\ sat' = "gone"
    BY <1>4, <1>6, <1>9
  <2>2. Owned(Freed(h, e), q, ToSet(fly) \ {e})
    BY <1>1, FreeOwned
  <2>3. Kept(Freed(h, e), q, ToSet(Tail(fly)))
    BY <2>2, <1>2, FlyTail DEF Owned
  <2>4. h' \in Heaps /\ \A x \in Eggs : h'.gone[x] <= 1
    BY <2>1, <2>3, <1>2, FlyTail, HaltOnce
  <2> QED BY <2>1, <2>4, <1>2, OvaEnd
<1> QED BY <1>7, <1>8, <1>9

LEMMA OvaLost == ASSUME OvaInv, WorkLost PROVE OvaInv'
<1>1. PICK q : Kept(h, q, ToSet(fly))
  BY DEF OvaInv, WorkLost, Owned
<1>2. h' \in Heaps /\ \A x \in Eggs : h'.gone[x] <= 1
  BY <1>1, HaltOnce DEF WorkLost, OvaInv
<1> QED BY <1>2, OvaEnd DEF WorkLost

LEMMA OvaKick == ASSUME OvaInv, Kick PROVE OvaInv'
<1>1. PICK q : Owned(h, q, ToSet(fly)) /\ sat \in {"work", "done"} /\ fly' = fly
  BY DEF OvaInv, Kick
<1>2. CASE UNCHANGED <<h, sat>> /\ liv' \in BOOLEAN
  BY <1>1, <1>2, OvaKept DEF OvaInv
<1>3. CASE CanPlan(1) /\ HindKick(Head(gifts).tag)
  <2>1. PICK cards \in Seq(CarSet \X Cards) :
          cards = (IF Head(gifts).tag = "trim" THEN <<<<"hind", "trim">>>> ELSE <<>>) /\ Len(cards) \in 0 .. 1
    <3>1. PICK none \in Seq(CarSet \X Cards) : none = <<>> /\ Len(none) \in 0 .. 1
      <4>1. <<>> \in Seq(CarSet \X Cards) /\ Len(<<>>) \in 0 .. 1
        OBVIOUS
      <4> QED BY <4>1, Zenon
    <3>2. PICK one \in Seq(CarSet \X Cards) : one = <<<<"hind", "trim">>>> /\ Len(one) \in 0 .. 1
      <4>1. PICK c \in CarSet, cad \in Cards : c = "hind" /\ cad = "trim"
        BY DriversAssumption
      <4>2. <<<<c, cad>>>> \in Seq(CarSet \X Cards) /\ Len(<<<<c, cad>>>>) = 1 /\ 1 \in 0 .. 1
        BY OneCard
      <4> QED BY <4>1, <4>2, Zenon
    <3> QED BY <3>1, <3>2, Zenon
  <2>2. CanPlan(Len(cards))
    <3>1. Cardinality(Unused(h)) \in Nat
      <4>1. Unused(h) \subseteq Eggs
        BY DEF Unused
      <4> QED BY <4>1, EggFacts, FS_Subset, FS_CardinalityType
    <3>2. Cardinality(Unused(h)) >= 1
      BY <1>3 DEF CanPlan
    <3> QED BY <2>1, <3>1, <3>2 DEF CanPlan
  <2>3. h' = Plans(cards) /\ liv' = liv /\ sat' \in {"work", "done"}
    BY <2>1, <1>1, <1>3 DEF HindKick
  <2>4. PICK r : Owned(h', r, ToSet(fly))
    BY <2>2, <2>3, <1>1, PlansOwned
  <2> QED BY <2>3, <2>4, <1>1, OvaKept DEF OvaInv
<1>4. \/ EfDoze(Head(gifts).wen)
      \/ CanPlan(1) /\ HindKick(Head(gifts).tag)
      \/ UNCHANGED <<h, alm, liv, sat>>
  BY DEF Kick
<1> QED BY <1>2, <1>3, <1>4 DEF EfDoze, OvaInv

LEMMA OvaClose == ASSUME OvaInv, Close PROVE OvaInv'
<1>1. PICK q : Kept(h, q, ToSet(fly))
  BY DEF OvaInv, Close, Owned
<1>2. h' \in Heaps /\ \A x \in Eggs : h'.gone[x] <= 1
  BY <1>1, ExitOnce DEF Close
<1> QED BY <1>2, OvaEnd DEF Close

LEMMA OvaStep == OvaInv /\ [DriversNext]_dvars => OvaInv'
<1> SUFFICES ASSUME OvaInv, [DriversNext]_dvars PROVE OvaInv'
  OBVIOUS
<1>1. CASE WorkDone \/ WorkSwap
  <2>1. /\ sat \in {"work", "done"} /\ fly # <<>> /\ News(Head(fly))
        /\ h' = Freed(h, Head(fly)) /\ fly' = Tail(fly) /\ sat' = sat
    BY <1>1 DEF WorkDone, WorkSwap
  <2>2. liv' \in BOOLEAN
    BY <2>1 DEF News
  <2> QED BY <2>1, <2>2, OvaFreed
<1>2. CASE UNCHANGED dvars
  BY <1>2 DEF dvars, OvaInv
<1> QED BY <1>1, <1>2, OvaTalk, OvaTimeCb, OvaSend, OvaBail, OvaLost, OvaKick, OvaClose DEF DriversNext

LEMMA OvaImplied == OvaInv /\ AlarmInv => OvaOwned
<1> SUFFICES ASSUME OvaInv, AlarmInv PROVE OvaOwned
  OBVIOUS
<1>1. h \in Heaps /\ fly \in Seq(Eggs) /\ ToSet(fly) \subseteq Eggs
  BY InList DEF OvaInv
<1>2. DriversTypeOK
  <2>1. gifts \in Seq(Effects)
    BY DEF AlarmInv
  <2>2. ToSet(gifts) \subseteq Effects
    BY <2>1, InList
  <2> QED BY <2>2, <1>1 DEF DriversTypeOK, OvaInv, AlarmInv
<1>3. ASSUME sat # "gone"
      PROVE  /\ ListsWhole(h) /\ IsInjective(fly)
             /\ ToSet(fly) \cap Queued = {} /\ ToSet(fly) \cup Queued = Eggs \ Unused(h)
  <2>1. PICK q : Owned(h, q, ToSet(fly))
    BY <1>3 DEF OvaInv
  <2>2. Kept(h, q, ToSet(fly)) /\ \A c \in CarSet : Lane(h, c, q[c])
    BY <2>1 DEF Owned
  <2>3. \A c \in CarSet : Waiting(h, c) = q[c] /\ Reverse(Walk(h.pre, h.ent[c])) = q[c]
    <3>1. \A c \in CarSet : Links(h, c, q[c])
      BY <2>2 DEF Lane
    <3> QED BY <3>1, <2>2, <1>1, LaneWalks
  <2>4. \A c \in CarSet : \A e \in ToSet(q[c]) : e \in Eggs /\ h.car[e] = c /\ h.gone[e] = 0 /\ e \notin ToSet(fly)
    BY <2>2, KeptFacts
  <2>5. ListsWhole(h)
    <3>1. \A c \in CarSet : h.dep[c] = Len(q[c]) % DepthWrap
      BY <2>2 DEF Lane
    <3> QED BY <3>1, <2>3, <2>4 DEF ListsWhole
  <2>6. IsInjective(fly)
    <3>1. DOMAIN fly = 1 .. Len(fly)
      BY <1>1
    <3>2. \A i, j \in 1 .. Len(fly) : fly[i] = fly[j] => i = j
      BY DEF OvaInv
    <3> QED BY <3>1, <3>2 DEF IsInjective
  <2>7. \A e : e \in Queued <=> \E c \in CarSet : e \in ToSet(q[c])
    BY <2>3 DEF Queued
  <2>8. ToSet(fly) \cap Queued = {}
    BY <2>4, <2>7
  <2>9. ASSUME NEW e \in Eggs PROVE h.gone[e] > 0 <=> h.gone[e] # 0
    <3>1. h.gone[e] \in 0 .. 2
      BY <1>1, HeapFacts
    <3> QED BY <3>1
  <2>10. \A e \in ToSet(fly) : e \in Eggs /\ h.gone[e] = 0
    BY <2>2, <1>1 DEF Kept
  <2>11. \A e \in Eggs : h.gone[e] = 0 => e \in ToSet(fly) \/ \E c \in CarSet : e \in ToSet(q[c])
    BY <2>1 DEF Owned
  <2>12. ToSet(fly) \cup Queued = Eggs \ Unused(h)
    BY <2>4, <2>7, <2>9, <2>10, <2>11 DEF Unused
  <2> QED BY <2>5, <2>6, <2>8, <2>12
<1> QED BY <1>2, <1>3 DEF OvaOwned, OvaInv

(* Through every order of planning, taking, retrying, finishing and ending   *)
(* the lists of the drivers are whole, an ovum is in one place, and none is  *)
(* disposed of twice (u3_auto_plan, u3_auto_next, u3_auto_redo,              *)
(* u3_auto_drop, u3_auto_exit).                                              *)
THEOREM OvaAreOwned == DriversSpec => []OvaOwned
<1>1. OvaInv /\ AlarmInv /\ [DriversNext]_dvars => (OvaInv /\ AlarmInv)'
  BY OvaStep, AlarmStep
<1>2. DriversInit => OvaInv /\ AlarmInv
  BY OvaInitial, AlarmInitial
<1> QED BY <1>1, <1>2, OvaImplied, PTL DEF DriversSpec
=============================================================================
