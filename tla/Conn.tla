-------------------------------- MODULE Conn --------------------------------
(***************************************************************************)
(* The control socket (src/pkg/vere/io/conn.c): connections come and go    *)
(* while their requests are with the pier, and every answer must find its  *)
(* connection or nobody.  A connection delivers whole messages in order    *)
(* (module Channel).  A request is known by its connection and the number  *)
(* its client gave it.                                                     *)
(***************************************************************************)
EXTENDS Naturals, Sequences, SequencesExt, FiniteSets

CONSTANTS MaxConn,  \* bound on the connections accepted
          Rids,     \* request numbers of a client, used in order and none twice: 0 is
                    \* for errors of the driver
          MaxAsked  \* bound on the requests of all clients

ASSUME ConnAssumption == MaxConn \in Nat /\ Rids \subseteq Nat \ {0}

Coqs == 1 .. MaxConn

\* The requests: "peel" stands for what is answered at once (%peel, %urth), "bad"
\* for what the driver cannot read, in any of five ways.
Tags == {"fyrd", "peek", "peel", "ovum", "bad"}

VARIABLES nex,    \* nex_l, the number of the next connection
          can,    \* the open connections
          inn,    \* messages of each that are not yet delivered
          used,   \* numbers each client has used
          cran,   \* requests that wait for a callback, with their can_u: a number or 0
          work,   \* what is with the pier
          out,    \* what was sent on each connection
          kan,    \* kan_o: %khan is there
          end     \* the driver is closed

cvars == <<nex, can, inn, used, cran, work, out, kan, end>>

Task(typ, coq, rid) == [typ |-> typ, coq |-> coq, rid |-> rid]
Answer(rid, tag) == [rid |-> rid, tag |-> tag]

ConnTypeOK ==
    /\ nex \in 1 .. MaxConn + 1 /\ can \subseteq 1 .. nex - 1
    /\ used \in [Coqs -> SUBSET Rids]
    /\ \A c \in Coqs : \A i \in DOMAIN inn[c] : inn[c][i].tag \in Tags
    /\ DOMAIN cran \subseteq Coqs \X Rids
    /\ {kan, end} \subseteq BOOLEAN

\* _conn_io_talk(): the socket is open and %born is planned.
ConnInit ==
    /\ nex = 1 /\ can = {} /\ inn = [c \in Coqs |-> <<>>] /\ used = [c \in Coqs |-> {}]
    /\ cran = <<>> /\ work = {Task("born", 0, 0)} /\ out = [c \in Coqs |-> <<>>]
    /\ kan = FALSE /\ end = FALSE

\* _conn_sock_cb()
Accept ==
    /\ ~end /\ nex <= MaxConn
    /\ can' = can \cup {nex} /\ nex' = nex + 1
    /\ UNCHANGED <<inn, used, cran, work, out, kan, end>>

\* A client sends a request.
Request(c) ==
    /\ c \in can /\ Cardinality({k \in Coqs \X Rids : k[2] \in used[k[1]]}) < MaxAsked
    /\ \E r \in Rids \ used[c], t \in Tags :
           /\ \A q \in Rids \ used[c] : r <= q
           /\ used' = [used EXCEPT ![c] = @ \cup {r}]
           /\ inn' = [inn EXCEPT ![c] = Append(@, [rid |-> r, tag |-> t])]
    /\ UNCHANGED <<nex, can, cran, work, out, kan, end>>

\* _conn_send_noun()
Sent(c, rid, tag) == [out EXCEPT ![c] = Append(@, Answer(rid, tag))]

\* _conn_close_chan(): its requests forget it, it leaves the list, Arvo is told,
\* and what it has not delivered is disposed of.
CloseChan(c) ==
    /\ can' = can \ {c} /\ inn' = [inn EXCEPT ![c] = <<>>]
    /\ cran' = [k \in DOMAIN cran |-> IF cran[k] = c THEN 0 ELSE cran[k]]
    /\ work' = work \cup IF kan THEN {Task("done", c, 0)} ELSE {}

\* A slip: the connection is left open.
MoorBailOpen(c) == out' = Sent(c, 0, "bail") /\ UNCHANGED <<can, inn, cran, work>>

\* _conn_moor_bail() for an error: a %bail, then the connection is closed.
MoorBail(c) == out' = Sent(c, 0, "bail") /\ CloseChan(c)

\* _conn_make_cran()
MakeCran(c, r) == [k \in DOMAIN cran \cup {<<c, r>>} |-> IF k = <<c, r>> THEN c ELSE cran[k]]

\* A slip: a request that cannot be served is dropped.
PokeQuiet(c) ==
    /\ c \in can /\ inn[c] # <<>>
    /\ LET r == Head(inn[c]).rid
           t == Head(inn[c]).tag
       IN  /\ inn' = [inn EXCEPT ![c] = Tail(@)]
           /\ work' = work \cup IF t = "fyrd" /\ kan THEN {Task(t, c, r)} ELSE {}
           /\ out' = IF t # "fyrd" THEN Sent(c, r, t) ELSE out
    /\ UNCHANGED <<nex, can, used, cran, kan, end>>

\* _conn_moor_poke()
Poke(c) ==
    /\ c \in can /\ inn[c] # <<>>
    /\ LET r == Head(inn[c]).rid
           t == Head(inn[c]).tag
       IN  IF t = "bad" \/ (t = "fyrd" /\ ~kan) THEN MoorBail(c)
           ELSE /\ inn' = [inn EXCEPT ![c] = Tail(@)]
                /\ cran' = IF t \in {"peek", "ovum"} THEN MakeCran(c, r) ELSE cran
                /\ work' = work \cup IF t \in {"fyrd", "peek", "ovum"} THEN {Task(t, c, r)} ELSE {}
                /\ out' = IF t = "peel" THEN Sent(c, r, t) ELSE out
                /\ UNCHANGED can
    /\ UNCHANGED <<nex, used, kan, end>>

\* The client hangs up, or the stream fails.
Hangup(c) ==
    /\ c \in can
    /\ \/ UNCHANGED out /\ CloseChan(c)
       \/ MoorBail(c)
    /\ UNCHANGED <<nex, used, kan, end>>

\* _conn_born_news(), _conn_born_bail()
Born ==
    /\ ~end /\ Task("born", 0, 0) \in work
    /\ work' = work \ {Task("born", 0, 0)} /\ kan' \in BOOLEAN
    /\ UNCHANGED <<nex, can, inn, used, cran, out, end>>

\* _conn_drop_cran()
DropCran(k) == [j \in DOMAIN cran \ {k} |-> cran[j]]

\* _conn_peek_cb()
PeekCb(t) ==
    /\ ~end /\ t \in work /\ t.typ = "peek" /\ work' = work \ {t}
    /\ LET k == <<t.coq, t.rid>> IN
           /\ out' = IF cran[k] = 0 THEN out ELSE Sent(cran[k], t.rid, "peek")
           /\ cran' = DropCran(k)
    /\ UNCHANGED <<nex, can, inn, used, kan, end>>

\* _conn_ovum_news() when the ovum is done, _conn_ovum_bail() when it crashed.
OvumCb(t) ==
    /\ ~end /\ t \in work /\ t.typ = "ovum" /\ work' = work \ {t}
    /\ LET k == <<t.coq, t.rid>> IN
           /\ \E tag \in {"news", "bail"} :
                  out' = IF cran[k] = 0 THEN out ELSE Sent(cran[k], t.rid, tag)
           /\ cran' = DropCran(k)
    /\ UNCHANGED <<nex, can, inn, used, kan, end>>

\* _conn_find_chan()
FindChan(c) == c \in can

\* _conn_ef_handle() for the result of a thread, _conn_poke_bail() for its failure:
\* the connection is found by its number.
Thread(t) ==
    /\ ~end /\ t \in work /\ t.typ = "fyrd" /\ work' = work \ {t}
    /\ \E tag \in {"avow", "bail"} :
           out' = IF FindChan(t.coq) THEN Sent(t.coq, t.rid, tag) ELSE out
    /\ UNCHANGED <<nex, can, inn, used, cran, kan, end>>

\* The %done of a connection is done, or fails and finds no connection to tell.
Done(t) ==
    /\ ~end /\ t \in work /\ t.typ = "done" /\ work' = work \ {t}
    /\ out' = out
    /\ UNCHANGED <<nex, can, inn, used, cran, kan, end>>

\* _conn_io_exit(): every connection is closed; the ova this plans are never taken.
ConnExit ==
    /\ ~end /\ end' = TRUE
    /\ can' = {} /\ inn' = [c \in Coqs |-> <<>>] /\ work' = {}
    /\ cran' = [k \in DOMAIN cran |-> 0]
    /\ UNCHANGED <<nex, used, out, kan>>

ConnNext ==
    \/ Accept \/ Born \/ ConnExit
    \/ \E c \in Coqs : Request(c) \/ Poke(c) \/ Hangup(c)
    \/ \E t \in work : PeekCb(t) \/ OvumCb(t) \/ Thread(t) \/ Done(t)

\* Messages are delivered, and the pier answers what it was asked.
ConnFair ==
    /\ WF_cvars(Born)
    /\ \A c \in Coqs : WF_cvars(Poke(c))
    /\ \A c \in Coqs, r \in Rids :
           /\ WF_cvars(PeekCb(Task("peek", c, r))) /\ WF_cvars(OvumCb(Task("ovum", c, r)))
           /\ WF_cvars(Thread(Task("fyrd", c, r)))

ConnSpec == ConnInit /\ [][ConnNext]_cvars /\ ConnFair

-----------------------------------------------------------------------------
(* Properties *)

\* An answer goes to the connection that asked and has not closed since, and a
\* number is answered once, whatever order scries, injected events, threads and
\* hangups come in.
AnswersFit ==
    \A c \in Coqs :
        /\ \A i \in DOMAIN out[c] : out[c][i].rid \in used[c] \cup {0}
        /\ \A i, j \in DOMAIN out[c] :
               i < j => out[c][i].rid # 0 /\ out[c][i].rid # out[c][j].rid

\* Nothing is sent on a connection after it is closed: its memory is gone.
ClosedSilent == [][\A c \in Coqs : out'[c] # out[c] => c \in can]_cvars

\* A request that is read is answered, unless its connection closes, and on an
\* open connection only.
Answered ==
    /\ ClosedSilent
    /\ \A c \in Coqs, r \in Rids :
           (\E i \in DOMAIN inn[c] : inn[c][i].rid = r) ~>
               (c \notin can \/ \E i \in DOMAIN out[c] : out[c][i].rid = r)

=============================================================================
