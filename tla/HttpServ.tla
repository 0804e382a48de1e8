------------------------------ MODULE HttpServ ------------------------------
(***************************************************************************)
(* The servers of src/pkg/vere/io/http.c: they are started from %eyre's    *)
(* configuration, closed and started again when it changes, and freed when *)
(* their last connection is.  libuv runs the callbacks of what was closed  *)
(* in a turn of its loop at the end of that turn, the last closed first.   *)
(***************************************************************************)
EXTENDS Naturals, Sequences, SequencesExt, FiniteSets

CONSTANTS MaxServ,   \* bound on the servers made
          MaxHon,    \* bound on the connections of all servers
          MaxForm    \* bound on the configurations

ASSUME ServBounds == {MaxServ, MaxHon, MaxForm} \subseteq Nat

Sevs == 1 .. MaxServ

NoServ == [h2o |-> "none", liv |-> FALSE, shut |-> FALSE, hon |-> {}, coq |-> 1, ver |-> 0]

VARIABLES htp,    \* the list of servers, the first one first
          srv,    \* the servers; h2o: "none", "up", "disposed" or "freed"
          cls,    \* handles closed in this turn, the last one first
          turn,   \* the loop runs the callbacks of what was closed
          tims,   \* timers that will free a server
          ports,  \* the servers .http.ports lists
          form,   \* for_u: the configuration to apply, or 0
          vers,   \* the configurations %eyre has set
          nsev,   \* servers made
          fault,  \* what the program has died of
          hend    \* the driver has exited

hvars == <<htp, srv, cls, turn, tims, ports, form, vers, nsev, fault, hend>>

Faults == {"none", "closed twice", "freed twice", "dangling", "disposed", "exit"}

ServTypeOK ==
    /\ htp \in Seq(Sevs) /\ nsev \in 0 .. MaxServ /\ form \in 0 .. vers /\ vers \in 0 .. MaxForm
    /\ \A s \in Sevs : /\ srv[s].h2o \in {"none", "up", "disposed", "freed"}
                       /\ srv[s].hon \subseteq 1 .. MaxHon
    /\ fault \in Faults /\ {turn, hend} \subseteq BOOLEAN

ServInit ==
    /\ htp = <<>> /\ srv = [s \in Sevs |-> NoServ] /\ cls = <<>> /\ turn = FALSE /\ tims = <<>>
    /\ ports = <<>> /\ form = 0 /\ vers = 0 /\ nsev = 0 /\ fault = "none" /\ hend = FALSE

\* A walk along the list (to find, to link, to count) reads every server in it.
Dangling(list, ss) == \E i \in DOMAIN list : ss[list[i]].h2o = "freed"

\* _http_serv_new()
ServNew(v) == [NoServ EXCEPT !.liv = TRUE, !.ver = v]

\* _http_serv_init_h2o()
InitH2o(x) == [x EXCEPT !.h2o = "up"]

\* _http_serv_start(): it listens, on the port it was given or a later one; or the
\* socket fails and the server is freed at once.  (To be refused a port it was told to
\* use ends the program.)
ServStart(v, ok) == IF ok THEN InitH2o(ServNew(v)) ELSE [InitH2o(ServNew(v)) EXCEPT !.h2o = "disposed"]

\* _http_write_ports_file(): every server in the list, those that close as well.
WritePorts(list) == list

\* _http_serv_start_all(): the public server (the secure one is like it) and the one
\* for this host; then %eyre is told, the ports are written, the configuration is freed.
StartAll(list, ss, ts, v) ==
    /\ nsev + 2 <= MaxServ /\ form' = 0
    /\ \/ \E ok \in {<<TRUE, TRUE>>, <<FALSE, TRUE>>, <<TRUE, FALSE>>} :
             /\ srv' = [ss EXCEPT ![nsev + 1] = ServStart(v, ok[1]), ![nsev + 2] = ServStart(v, ok[2])]
             /\ tims' = (IF ok[1] THEN ts ELSE Append(ts, nsev + 1))
                        \o (IF ok[2] THEN <<>> ELSE <<nsev + 2>>)
             /\ htp' = <<nsev + 2, nsev + 1>> \o list /\ nsev' = nsev + 2 /\ fault' = fault
             /\ ports' = WritePorts(htp')
       \/ /\ fault' = "exit" /\ srv' = ss /\ tims' = ts /\ htp' = list /\ UNCHANGED <<nsev, ports>>

\* The servers _http_serv_restart() closes, in its order: those it believes alive.
ToClose ==
    LET live == {i \in DOMAIN htp : srv[htp[i]].liv}
        walk == CHOOSE w \in [1 .. Cardinality(live) -> live] :
                   Range(w) = live /\ \A i, j \in DOMAIN w : i < j => w[i] < w[j]
    IN  [k \in 1 .. Cardinality(live) |-> htp[walk[k]]]

Closed(s) == <<s, 0>>

\* _http_serv_close() of all of them, its context first, which a server that never
\* listened has not; uv_close() of what is closing already is an error.
Restart ==
    /\ fault' = IF Dangling(htp, srv) THEN "dangling"
                ELSE IF \E i \in DOMAIN ToClose : Contains(cls, Closed(ToClose[i])) THEN "closed twice"
                ELSE IF \E i \in DOMAIN ToClose : srv[ToClose[i]].h2o = "disposed" THEN "disposed"
                ELSE fault
    /\ srv' = [s \in Sevs |-> IF Contains(ToClose, s) THEN [srv[s] EXCEPT !.shut = TRUE] ELSE srv[s]]
    /\ cls' = Reverse([i \in DOMAIN ToClose |-> Closed(ToClose[i])]) \o cls
    /\ ports' = <<>> /\ UNCHANGED <<htp, tims, nsev>>

\* u3_http_ef_form(): the configuration replaces one that was not applied, and the
\* servers are started, or restarted.
EfForm ==
    /\ ~turn /\ ~hend /\ vers < MaxForm /\ vers' = vers + 1
    /\ IF htp = <<>> THEN StartAll(htp, srv, tims, vers') /\ UNCHANGED cls
       ELSE Restart /\ form' = vers'
    /\ UNCHANGED <<turn, hend>>

Accepted == Cardinality({x \in Sevs \X (1 .. MaxHon) : x[2] < srv[x[1]].coq})

\* _http_conn_new()
ConnNew(x) == [x EXCEPT !.hon = @ \cup {x.coq}, !.coq = @ + 1]

\* _http_serv_accept(): a connection, or one closed at once.
ServAccept(s) ==
    /\ ~turn /\ srv[s].h2o = "up" /\ ~srv[s].shut /\ Accepted < MaxHon
    /\ srv' = [srv EXCEPT ![s] = ConnNew(@)]
    /\ \/ UNCHANGED cls
       \/ cls' = <<<<s, srv[s].coq>>>> \o cls
    /\ UNCHANGED <<htp, turn, tims, ports, form, vers, nsev, fault, hend>>

\* h2o closes a connection, whose requests it has disposed of.
ConnClose(s) ==
    /\ ~turn
    /\ \E c \in srv[s].hon : ~Contains(cls, <<s, c>>) /\ cls' = <<<<s, c>>>> \o cls
    /\ UNCHANGED <<htp, srv, turn, tims, ports, form, vers, nsev, fault, hend>>

\* The turn of the loop comes to its end.
LoopTurn ==
    /\ ~turn /\ cls # <<>> /\ turn' = TRUE
    /\ UNCHANGED <<htp, srv, cls, tims, ports, form, vers, nsev, fault, hend>>

\* _http_serv_free(): its context is disposed of, its memory is freed later.
ServFree(ss, s) == [ss EXCEPT ![s].h2o = "disposed"]

FreedTwice(s) == srv[s].h2o \in {"disposed", "freed"}

\* _http_serv_close_cb(): a server without connections is freed; when none is alive
\* the saved configuration starts new ones.
CloseCb(s) ==
    LET free == srv[s].hon = {}
        aft == [srv EXCEPT ![s].liv = FALSE]
        ss == IF free THEN ServFree(aft, s) ELSE aft
        ts == IF free THEN Append(tims, s) ELSE tims
    IN  IF free /\ FreedTwice(s) THEN fault' = "freed twice" /\ UNCHANGED <<htp, srv, tims, ports, form, nsev>>
        ELSE IF Dangling(htp, ss) THEN fault' = "dangling" /\ UNCHANGED <<htp, srv, tims, ports, form, nsev>>
        ELSE IF form # 0 /\ \A i \in DOMAIN htp : ~ss[htp[i]].liv THEN StartAll(htp, ss, ts, form)
        ELSE srv' = ss /\ tims' = ts /\ UNCHANGED <<htp, ports, form, nsev, fault>>

\* _http_conn_free(): the last connection of a server that is shut down frees it.
ConnFree(s, c) ==
    LET ss == [srv EXCEPT ![s].hon = @ \ {c}]
        free == ss[s].hon = {} /\ srv[s].shut
    IN  /\ srv' = IF free THEN ServFree(ss, s) ELSE ss
        /\ tims' = IF free THEN Append(tims, s) ELSE tims
        /\ fault' = IF free /\ FreedTwice(s) THEN "freed twice" ELSE fault
        /\ UNCHANGED <<htp, ports, form, nsev>>

\* The next callback of the turn.
Closing ==
    /\ turn /\ cls' = Tail(cls) /\ turn' = (Len(cls) > 1)
    /\ LET s == Head(cls)[1]
           c == Head(cls)[2]
       IN  IF c = 0 THEN CloseCb(s) ELSE ConnFree(s, c)
    /\ UNCHANGED <<vers, hend>>

\* _http_serv_unlink(): the first of the list is never taken out of it.
ServUnlink(list, s) ==
    IF Head(list) = s \/ ~Contains(list, s) THEN list
    ELSE RemoveAt(list, CHOOSE i \in DOMAIN list : list[i] = s)

\* http_serv_free_cb(), _http_serv_really_free()
FreeCb ==
    /\ ~turn /\ tims # <<>> /\ tims' = Tail(tims)
    /\ LET s == Head(tims)
       IN  /\ srv' = [srv EXCEPT ![s].h2o = "freed"]
           /\ htp' = ServUnlink(htp, s)
    /\ UNCHANGED <<cls, turn, ports, form, vers, nsev, fault, hend>>

\* _http_io_exit(): the configuration is dropped, the servers are left to the process.
ServExit ==
    /\ ~turn /\ ~hend /\ hend' = TRUE /\ form' = 0 /\ ports' = <<>>
    /\ UNCHANGED <<htp, srv, cls, turn, tims, vers, nsev, fault>>

ServNext ==
    /\ fault = "none"
    /\ \/ EfForm \/ LoopTurn \/ Closing \/ FreeCb \/ ServExit
       \/ \E s \in Sevs : ServAccept(s) \/ ConnClose(s)

\* The loop turns and runs its callbacks.
ServFair == WF_hvars(fault = "none" /\ LoopTurn) /\ WF_hvars(fault = "none" /\ Closing)

ServSpec == ServInit /\ [][ServNext]_hvars /\ ServFair
-----------------------------------------------------------------------------
\* A server outlives its connections, however its closing, theirs and a restart
\* interleave; and a server that takes connections has %eyre's newest configuration.
HonServed ==
    \A s \in Sevs : /\ srv[s].hon # {} => srv[s].h2o = "up"
                    /\ srv[s].h2o = "up" /\ ~srv[s].shut => srv[s].ver = vers

\* A configuration is applied at some time, whatever servers are open when it comes.
ConfigApplied == [](form # 0 => <>(form = 0 \/ fault # "none"))

=============================================================================
