-------------------------------- MODULE Cttp --------------------------------
(***************************************************************************)
(* The web client (src/pkg/vere/io/cttp.c): a request of %iris is resolved,*)
(* connected, sent and answered by callbacks, any of which may fail, and   *)
(* %iris or the exit of the driver may cancel it in between.               *)
(***************************************************************************)
EXTENDS Naturals, Sequences, SequencesExt

CONSTANTS Nums,      \* numbers of requests
          MaxBody    \* bound on the parts of a response

ASSUME CttpBounds == MaxBody \in Nat

NoCreq == [sat |-> "none", cli |-> FALSE, res |-> FALSE, bod |-> <<>>]

VARIABLES ceq,    \* u3_creq; sat "none" before it is made, "free" after it is freed
          dns,    \* requests whose address is being resolved
          part,   \* parts of its response the network has delivered
          told,   \* the responses planned for %iris: their bodies, or a failure
          stop,   \* requests %iris has cancelled
          ctp,    \* the driver: "up", "exit" or "free"
          crash   \* memory was used after it was freed

tvars == <<ceq, dns, part, told, stop, ctp, crash>>

Failure == <<504>>

\* A request that is not in the driver's list.
Gone == {"none", "refused", "free"}

CttpTypeOK ==
    /\ \A n \in Nums : ceq[n].sat \in {"none", "init", "addr", "conn", "ripe", "quit", "free", "refused"}
    /\ dns \subseteq Nums /\ stop \subseteq Nums /\ part \in [Nums -> 0 .. MaxBody]
    /\ ctp \in {"up", "exit", "free"} /\ crash \in BOOLEAN

CttpInit ==
    /\ ceq = [n \in Nums |-> NoCreq] /\ dns = {} /\ part = [n \in Nums |-> 0]
    /\ told = [n \in Nums |-> <<>>] /\ stop = {} /\ ctp = "up" /\ crash = FALSE

\* _cttp_creq_free(): the request leaves the driver's list, and with it the driver
\* that was freed before.
CreqFree(n) == /\ ceq' = [ceq EXCEPT ![n] = [NoCreq EXCEPT !.sat = "free"]]
               /\ crash' = (ctp = "free")

\* _cttp_http_client_receive() and _cttp_creq_free()
Receive(n, body) == told' = [told EXCEPT ![n] = Append(@, body)] /\ CreqFree(n)

\* _cttp_creq_fail()
CreqFail(n) == Receive(n, Failure)

\* _cttp_creq_connect(): connect() fails at once, or its callback will tell.
Connect(n) ==
    \/ CreqFail(n)
    \/ ceq' = [ceq EXCEPT ![n].sat = "ripe", ![n].cli = TRUE] /\ UNCHANGED <<told, crash>>

\* _cttp_ef_http_client() "request", _cttp_creq_new(), _cttp_creq_start(): a host is
\* resolved, an address connected to.  (What has no address is refused and not told.)
Request(n) ==
    /\ ctp = "up" /\ ceq[n].sat = "none"
    /\ \/ ceq' = [ceq EXCEPT ![n].sat = "refused"] /\ UNCHANGED <<dns, told, crash>>
       \/ Connect(n) /\ UNCHANGED dns
       \/ CreqFail(n) /\ UNCHANGED dns
       \/ /\ ceq' = [ceq EXCEPT ![n].sat = "addr"] /\ dns' = dns \cup {n}
          /\ UNCHANGED <<told, crash>>
    /\ UNCHANGED <<part, ctp, stop>>

\* _cttp_creq_quit(): while the address is resolved it only takes note.
Quit(n) ==
    IF ceq[n].sat = "addr" THEN ceq' = [ceq EXCEPT ![n].sat = "quit"] /\ UNCHANGED crash
    ELSE CreqFree(n)

\* _cttp_creq_resolve_cb(), which holds the request.
ResolveCb(n) ==
    /\ n \in dns /\ dns' = dns \ {n}
    /\ IF ceq[n].sat = "free" THEN crash' = TRUE /\ UNCHANGED <<ceq, told>>
       ELSE IF ceq[n].sat = "quit" THEN Quit(n) /\ UNCHANGED told
       ELSE CreqFail(n) \/ Connect(n)
    /\ UNCHANGED <<part, stop, ctp>>

\* _cttp_creq_on_connect(): the request is written, or it fails (as when it times out).
OnConnect(n) ==
    /\ ceq[n].sat = "ripe" /\ ~ceq[n].res /\ CreqFail(n)
    /\ UNCHANGED <<dns, part, stop, ctp>>

\* _cttp_creq_on_head(): headers; nothing may follow them.
OnHead(n) ==
    /\ ceq[n].sat = "ripe" /\ ~ceq[n].res
    /\ \/ Receive(n, <<>>)
       \/ ceq' = [ceq EXCEPT ![n].res = TRUE] /\ UNCHANGED <<told, crash>>
    /\ UNCHANGED <<dns, part, stop, ctp>>

\* A slip: the end of the stream comes with a last part, which is left out.
OnBodyEos(n) ==
    /\ ceq[n].sat = "ripe" /\ ceq[n].res
    /\ \/ CreqFail(n) /\ UNCHANGED part
       \/ /\ part[n] < MaxBody /\ part' = [part EXCEPT ![n] = @ + 1]
          /\ \/ Receive(n, ceq[n].bod)
             \/ ceq' = [ceq EXCEPT ![n].bod = Append(@, part'[n])] /\ UNCHANGED <<told, crash>>
       \/ Receive(n, ceq[n].bod) /\ UNCHANGED part
    /\ UNCHANGED <<dns, stop, ctp>>

\* _cttp_creq_on_body(): a failure, another part, or the end with or without a part.
OnBody(n) ==
    /\ ceq[n].sat = "ripe" /\ ceq[n].res
    /\ \/ CreqFail(n) /\ UNCHANGED part
       \/ /\ part[n] < MaxBody /\ part' = [part EXCEPT ![n] = @ + 1]
          /\ \/ Receive(n, Append(ceq[n].bod, part'[n]))
             \/ ceq' = [ceq EXCEPT ![n].bod = Append(@, part'[n])] /\ UNCHANGED <<told, crash>>
       \/ Receive(n, ceq[n].bod) /\ UNCHANGED part
    /\ UNCHANGED <<dns, stop, ctp>>

\* _cttp_ef_http_client() "cancel-request": %iris cancels a request once, and one that
\* has gone is not found.
Cancel(n) ==
    /\ ctp = "up" /\ ceq[n].sat # "none" /\ n \notin stop /\ stop' = stop \cup {n}
    /\ IF ceq[n].sat \in Gone THEN UNCHANGED <<ceq, crash>> ELSE Quit(n)
    /\ UNCHANGED <<dns, part, told, ctp>>

\* _cttp_io_exit(): every request in the list is cancelled.
CttpExit ==
    /\ ctp = "up" /\ ctp' = "exit" /\ stop' = Nums
    /\ ceq' = [n \in Nums |->
                  IF ceq[n].sat \in Gone THEN ceq[n]
                  ELSE IF ceq[n].sat = "addr" THEN [ceq[n] EXCEPT !.sat = "quit"]
                  ELSE [NoCreq EXCEPT !.sat = "free"]]
    /\ UNCHANGED <<dns, part, told, crash>>

\* _cttp_io_exit_cb(), at the end of that turn of the loop.
CttpExitCb == ctp = "exit" /\ ctp' = "free" /\ UNCHANGED <<ceq, dns, part, told, stop, crash>>

CttpNext ==
    /\ ~crash
    /\ \/ \E n \in Nums : \/ Request(n) \/ ResolveCb(n) \/ OnConnect(n) \/ OnHead(n) \/ OnBody(n)
                          \/ Cancel(n)
       \/ CttpExit \/ CttpExitCb

\* h2o answers every wait with a callback, for want of anything else when its timer of
\* 300 seconds runs out; getaddrinfo() returns.
CttpFair ==
    \A n \in Nums : /\ WF_tvars(~crash /\ ResolveCb(n)) /\ WF_tvars(~crash /\ OnHead(n))
                    /\ WF_tvars(~crash /\ OnBody(n))

CttpSpec == CttpInit /\ [][CttpNext]_tvars /\ CttpFair
-----------------------------------------------------------------------------
\* %iris hears of a request once: all that was received, in order, or a failure; of
\* one that it cancelled in time, nothing; and no request is freed unheard.
ReceivedOnce ==
    \A n \in Nums :
        /\ Len(told[n]) <= 1
        /\ told[n] # <<>> => /\ ceq[n].sat = "free"
                             /\ told[n][1] \in {Failure, [i \in 1 .. part[n] |-> i]}
        /\ ceq[n].sat = "free" /\ n \notin stop => told[n] # <<>>

\* A request is freed at some time: no order of resolution, cancel and failure leaves
\* one behind.
RequestFreed == \A n \in Nums : ceq[n].sat \notin Gone ~> (ceq[n].sat = "free" \/ crash)
=============================================================================
