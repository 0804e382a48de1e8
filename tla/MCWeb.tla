------------------------------- MODULE MCWeb -------------------------------
(* The network drivers, each by itself: a component that is parked takes   *)
(* no step.                                                                 *)
EXTENDS HttpReq, HttpServ, Cttp, Ames

ReqParked ==
    /\ rec = [r \in Recs |-> "new"] /\ req = [r \in Recs |-> NoReq] /\ peek = {} /\ ova = <<>>
    /\ eyre = [r \in Recs |-> "idle"] /\ said = [r \in Recs |-> <<>>] /\ eff = <<>>
    /\ cut = TRUE /\ rend = FALSE

ServParked ==
    /\ htp = <<>> /\ srv = [s \in Sevs |-> NoServ] /\ cls = <<>> /\ turn = FALSE /\ tims = <<>>
    /\ ports = <<>> /\ form = 0 /\ vers = 0 /\ nsev = 0 /\ fault = "exit" /\ hend = FALSE

CttpParked ==
    /\ ceq = [n \in Nums |-> NoCreq] /\ dns = {} /\ part = [n \in Nums |-> 0]
    /\ told = [n \in Nums |-> <<>>] /\ stop = {} /\ ctp = "up" /\ crash = TRUE

AmesParked ==
    /\ clock = 0 /\ ext = <<"born">> /\ imp = NoImp /\ look = <<>> /\ lax = [p \in Peers |-> NoLane]
    /\ pac = <<>> /\ foq = 0 /\ saw = 0 /\ see = TRUE /\ puts = <<>> /\ born = TRUE /\ turf = FALSE
    /\ fate = [p \in Packets |-> "none"] /\ alive = "dead"

MCInit ==
    \/ ReqInit /\ ServParked /\ CttpParked /\ AmesParked
    \/ ReqParked /\ ServInit /\ CttpParked /\ AmesParked
    \/ ReqParked /\ ServParked /\ CttpInit /\ AmesParked
    \/ ReqParked /\ ServParked /\ CttpParked /\ AmesInit

MCNext ==
    \/ ReqNext /\ UNCHANGED <<hvars, tvars, avars>>
    \/ ServNext /\ UNCHANGED <<rvars, tvars, avars>>
    \/ CttpNext /\ UNCHANGED <<rvars, hvars, avars>>
    \/ AmesNext /\ UNCHANGED <<rvars, hvars, tvars>>

MCSpec ==
    /\ MCInit /\ [][MCNext]_<<rvars, hvars, tvars, avars>>
    /\ ReqFair /\ ServFair /\ CttpFair

\* The variables of all four keep their types.
WebTypeOK == ReqTypeOK /\ ServTypeOK /\ CttpTypeOK /\ AmesTypeOK

\* Whatever order of connections, timeouts, lookups and configurations: no connection
\* outlives its server, %iris hears of each request once, and %ames under pressure
\* keeps its own events and loses count of nothing.
WebSafe == WebTypeOK /\ HonServed /\ ReceivedOnce /\ PressureKept

\* Nothing the drivers are asked waits for ever: a request to the server, a new
\* configuration, a request of the client.
WebEnds == RequestEnds /\ ConfigApplied /\ RequestFreed

=============================================================================
