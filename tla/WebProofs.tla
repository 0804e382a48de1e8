----------------------------- MODULE WebProofs -----------------------------
(***************************************************************************)
(* The safety of the network drivers, for every number of requests,        *)
(* servers, connections and packets: the inductive invariant of each       *)
(* driver, and the run's properties from them.                             *)
(***************************************************************************)
EXTENDS MCWeb, ListingProofs, SequenceTheorems

-----------------------------------------------------------------------------
(* The web client                                                          *)

CreqSats == {"none", "init", "addr", "conn", "ripe", "quit", "free", "refused"}
Creqs == [sat : CreqSats, cli : BOOLEAN, res : BOOLEAN, bod : Seq(Nat)]

\* The parts of a response, up to the k-th.
Parts(k) == [i \in 1 .. k |-> i]

\* What is known of one request: %iris has been told only if it is free, its body is
\* what the network has delivered, which is nothing before the headers, and it is
\* being given up only when %iris no longer waits.
CreqInv(q, k, told_n, stopped) ==
    /\ q.sat # "free" => told_n = <<>> /\ q.bod = Parts(k)
    /\ q.sat # "free" /\ ~q.res => k = 0
    /\ q.sat = "quit" => stopped
    /\ q.sat = "free" => \/ told_n = <<Failure>> \/ told_n = <<Parts(k)>>
                         \/ told_n = <<>> /\ stopped

CttpInv ==
    /\ ceq \in [Nums -> Creqs] /\ told \in [Nums -> Seq(Seq(Nat))]
    /\ dns \subseteq Nums /\ stop \subseteq Nums /\ part \in [Nums -> 0 .. MaxBody]
    /\ ctp \in {"up", "exit", "free"} /\ crash \in BOOLEAN
    /\ \A n \in Nums : CreqInv(ceq[n], part[n], told[n], n \in stop)

\* The invariant of the client gives its part of what the run checks.
LEMMA CttpInvSafe == CttpInv => CttpTypeOK /\ ReceivedOnce
  <1> SUFFICES ASSUME CttpInv PROVE CttpTypeOK /\ ReceivedOnce
    OBVIOUS
  <1>1. CttpTypeOK
    BY DEF CttpInv, CttpTypeOK, Creqs, CreqSats
  <1>2. ASSUME NEW n \in Nums
        PROVE  /\ Len(told[n]) <= 1
               /\ told[n] # <<>> => /\ ceq[n].sat = "free"
                                    /\ told[n][1] \in {Failure, [i \in 1 .. part[n] |-> i]}
               /\ ceq[n].sat = "free" /\ n \notin stop => told[n] # <<>>
    <2>1. CreqInv(ceq[n], part[n], told[n], n \in stop)
      BY <1>2 DEF CttpInv
    <2>2. \/ told[n] = <<>>
          \/ told[n] = <<Failure>> /\ ceq[n].sat = "free"
          \/ told[n] = <<Parts(part[n])>> /\ ceq[n].sat = "free"
      BY <2>1 DEF CreqInv
    <2>3. Len(told[n]) <= 1 /\ (told[n] # <<>> => told[n][1] \in {Failure, Parts(part[n])})
      <3>1. ASSUME NEW x PROVE Len(<<x>>) = 1 /\ <<x>>[1] = x
        OBVIOUS
      <3>2. Len(<<>>) = 0
        OBVIOUS
      <3>3. CASE told[n] = <<>>
        BY <3>2, <3>3
      <3>4. CASE told[n] = <<Failure>>
        BY <3>1, <3>4
      <3>5. CASE told[n] = <<Parts(part[n])>>
        BY <3>1, <3>5
      <3>6. QED
        BY <2>2, <3>3, <3>4, <3>5
    <2>4. QED
      BY <2>1, <2>2, <2>3 DEF CreqInv, Parts
  <1>3. QED
    BY <1>1, <1>2 DEF ReceivedOnce

\* The client starts, or is parked, without a request.
LEMMA CttpInitInv == CttpInit \/ CttpParked => CttpInv
  <1> SUFFICES ASSUME CttpInit \/ CttpParked PROVE CttpInv
    OBVIOUS
  <1>1. /\ ceq = [n \in Nums |-> NoCreq] /\ dns = {} /\ part = [n \in Nums |-> 0]
        /\ told = [n \in Nums |-> <<>>] /\ stop = {} /\ ctp = "up" /\ crash \in BOOLEAN
    BY DEF CttpInit, CttpParked
  <1>2. Parts(0) = <<>>
    BY DEF Parts
  <1>3. NoCreq \in Creqs /\ NoCreq.sat = "none" /\ NoCreq.bod = <<>>
    BY DEF NoCreq, Creqs, CreqSats
  <1>4. \A n \in Nums : CreqInv(NoCreq, 0, <<>>, n \in stop)
    BY <1>2, <1>3 DEF CreqInv
  <1>5. QED
    BY <1>1, <1>3, <1>4, CttpBounds DEF CttpInv

\* A step of the client that changes one request only keeps the invariant if it keeps
\* it for that one.
LEMMA CttpOne ==
    ASSUME CttpInv, NEW n \in Nums,
           NEW q \in Creqs, NEW k \in 0 .. MaxBody, NEW t \in Seq(Seq(Nat)),
           ceq' = [ceq EXCEPT ![n] = q], part' = [part EXCEPT ![n] = k],
           told' = [told EXCEPT ![n] = t], dns' \subseteq Nums,
           stop' = stop \/ stop' = stop \cup {n},
           ctp' = ctp, crash' \in BOOLEAN,
           CreqInv(q, k, t, n \in stop')
    PROVE  CttpInv'
  <1>1. /\ ceq' \in [Nums -> Creqs] /\ told' \in [Nums -> Seq(Seq(Nat))]
        /\ part' \in [Nums -> 0 .. MaxBody] /\ stop' \subseteq Nums
    BY DEF CttpInv
  <1>2. ASSUME NEW m \in Nums PROVE CreqInv(ceq'[m], part'[m], told'[m], m \in stop')
    <2>1. CASE m = n
      BY <2>1 DEF CttpInv
    <2>2. CASE m # n
      <3>1. ceq'[m] = ceq[m] /\ part'[m] = part[m] /\ told'[m] = told[m] /\ (m \in stop') = (m \in stop)
        BY <2>2 DEF CttpInv
      <3>2. CreqInv(ceq[m], part[m], told[m], m \in stop)
        BY DEF CttpInv
      <3>3. QED
        BY <3>1, <3>2
    <2>3. QED
      BY <2>1, <2>2
  <1>3. QED
    BY <1>1, <1>2 DEF CttpInv

\* _cttp_creq_free() after %iris was told what it was told.
LEMMA CttpTold ==
    ASSUME CttpInv, NEW n \in Nums, NEW body \in Seq(Nat), NEW k \in 0 .. MaxBody,
           Receive(n, body), part' = [part EXCEPT ![n] = k],
           ceq[n].sat # "free", body = Failure \/ body = Parts(k),
           dns' \subseteq Nums, stop' = stop \/ stop' = stop \cup {n}, ctp' = ctp
    PROVE  CttpInv'
  <1> DEFINE q == [NoCreq EXCEPT !.sat = "free"]
             t == <<body>>
  <1>1. q \in Creqs /\ q.sat = "free"
    <2>1. NoCreq \in Creqs
      BY DEF NoCreq, Creqs, CreqSats
    <2>2. QED
      BY <2>1 DEF Creqs, CreqSats
  <1>2. told[n] = <<>>
    BY DEF CttpInv, CreqInv
  <1>3. t \in Seq(Seq(Nat)) /\ Append(<<>>, body) = t
    OBVIOUS
  <1>4. ceq' = [ceq EXCEPT ![n] = q] /\ told' = [told EXCEPT ![n] = t] /\ crash' \in BOOLEAN
    BY <1>2, <1>3 DEF Receive, CreqFree, CttpInv
  <1>5. CreqInv(q, k, t, n \in stop')
    BY <1>1 DEF CreqInv
  <1> HIDE DEF q, t
  <1>6. QED
    BY <1>1, <1>3, <1>4, <1>5, CttpOne

\* Of a request that %iris has cancelled nothing is told.
LEMMA CttpFreed ==
    ASSUME CttpInv, NEW n \in Nums, CreqFree(n),
           ceq[n].sat \notin {"free"}, n \in stop',
           dns' \subseteq Nums, stop' = stop \/ stop' = stop \cup {n},
           UNCHANGED <<part, told, ctp>>
    PROVE  CttpInv'
  <1> DEFINE q == [NoCreq EXCEPT !.sat = "free"]
             t == <<>>
  <1>1. q \in Creqs /\ q.sat = "free"
    <2>1. NoCreq \in Creqs
      BY DEF NoCreq, Creqs, CreqSats
    <2>2. QED
      BY <2>1 DEF Creqs, CreqSats
  <1>2. told[n] = t
    BY DEF CttpInv, CreqInv
  <1>3. t \in Seq(Seq(Nat)) /\ part[n] \in 0 .. MaxBody
    BY DEF CttpInv
  <1>4. /\ ceq' = [ceq EXCEPT ![n] = q] /\ told' = [told EXCEPT ![n] = t] /\ crash' \in BOOLEAN
        /\ part' = [part EXCEPT ![n] = part[n]]
    BY <1>2 DEF CreqFree, CttpInv
  <1>5. CreqInv(q, part[n], t, n \in stop')
    BY <1>1 DEF CreqInv
  <1> HIDE DEF q, t
  <1>6. QED
    BY <1>1, <1>3, <1>4, <1>5, CttpOne

\* A request that goes on: its state changes, and nothing is told.
LEMMA CttpGoesOn ==
    ASSUME CttpInv, NEW n \in Nums, NEW q \in Creqs, NEW k \in 0 .. MaxBody,
           ceq' = [ceq EXCEPT ![n] = q], part' = [part EXCEPT ![n] = k],
           ceq[n].sat # "free", q.sat # "free", q.bod = Parts(k), ~q.res => k = 0,
           q.sat = "quit" => n \in stop',
           dns' \subseteq Nums, stop' = stop \/ stop' = stop \cup {n},
           UNCHANGED <<told, ctp>>, crash' \in BOOLEAN
    PROVE  CttpInv'
  <1>1. told[n] = <<>> /\ told[n] \in Seq(Seq(Nat)) /\ told' = [told EXCEPT ![n] = told[n]]
    BY DEF CttpInv, CreqInv
  <1>2. CreqInv(q, k, told[n], n \in stop')
    BY <1>1 DEF CreqInv
  <1>3. QED
    BY <1>1, <1>2, CttpOne

\* A failure is a body of its own, and nothing received is the first of the parts.
LEMMA BodyFacts ==
    /\ Failure \in Seq(Nat) /\ Parts(0) = <<>> /\ <<>> \in Seq(Nat)
    /\ \A k \in Nat : /\ Parts(k) \in Seq(Nat) /\ Append(Parts(k), k + 1) = Parts(k + 1)
  <1>1. Failure \in Seq(Nat) /\ Parts(0) = <<>> /\ <<>> \in Seq(Nat)
    BY DEF Failure, Parts
  <1>2. ASSUME NEW k \in Nat
        PROVE  Parts(k) \in Seq(Nat) /\ Append(Parts(k), k + 1) = Parts(k + 1)
    <2>1. Parts(k) \in Seq(Nat) /\ Len(Parts(k)) = k /\ Parts(k + 1) \in Seq(Nat) /\ Len(Parts(k + 1)) = k + 1
      BY DEF Parts
    <2>2. /\ Append(Parts(k), k + 1) \in Seq(Nat) /\ Len(Append(Parts(k), k + 1)) = k + 1
          /\ \A i \in 1 .. k : Append(Parts(k), k + 1)[i] = i
          /\ Append(Parts(k), k + 1)[k + 1] = k + 1
      BY <2>1, AppendProperties DEF Parts
    <2>3. \A i \in 1 .. k + 1 : Parts(k + 1)[i] = i
      BY DEF Parts
    <2>4. QED
      BY <2>1, <2>2, <2>3, SeqEqual
  <1>3. QED
    BY <1>1, <1>2

\* What one request is, read from the invariant.
LEMMA CttpAt ==
    ASSUME CttpInv, NEW n \in Nums
    PROVE  /\ ceq[n] \in Creqs /\ part[n] \in 0 .. MaxBody /\ MaxBody \in Nat /\ part[n] \in Nat
           /\ part = [part EXCEPT ![n] = part[n]]
           /\ CreqInv(ceq[n], part[n], told[n], n \in stop)
           /\ dns \subseteq Nums /\ stop \subseteq Nums /\ crash \in BOOLEAN
  BY CttpBounds DEF CttpInv

\* A request that fails before %iris was told of it.
LEMMA CttpFails ==
    ASSUME CttpInv, NEW n \in Nums, CreqFail(n), ceq[n].sat # "free",
           dns' \subseteq Nums, UNCHANGED <<part, stop, ctp>>
    PROVE  CttpInv'
  BY CttpTold, CttpAt, BodyFacts DEF CreqFail

\* _cttp_creq_connect() keeps the invariant.
LEMMA CttpConnects ==
    ASSUME CttpInv, NEW n \in Nums, Connect(n), ceq[n].sat # "free",
           dns' \subseteq Nums, UNCHANGED <<part, stop, ctp>>
    PROVE  CttpInv'
  <1>1. CASE CreqFail(n)
    BY <1>1, CttpFails
  <1>2. CASE ceq' = [ceq EXCEPT ![n].sat = "ripe", ![n].cli = TRUE] /\ UNCHANGED <<told, crash>>
    <2> DEFINE q == [ceq[n] EXCEPT !.sat = "ripe", !.cli = TRUE]
    <2>1. q \in Creqs /\ q.sat = "ripe" /\ q.bod = ceq[n].bod /\ q.res = ceq[n].res
      BY CttpAt DEF Creqs, CreqSats
    <2>2. ceq' = [ceq EXCEPT ![n] = q]
      BY <1>2 DEF CttpInv
    <2>3. q.bod = Parts(part[n]) /\ (~q.res => part[n] = 0)
      BY <2>1, CttpAt DEF CreqInv
    <2> HIDE DEF q
    <2>4. QED
      BY <1>2, <2>1, <2>2, <2>3, CttpAt, CttpGoesOn
  <1>3. QED
    BY <1>1, <1>2 DEF Connect

\* A request whose state alone changes.
LEMMA CttpMoves ==
    ASSUME CttpInv, NEW n \in Nums, NEW sat \in CreqSats, ceq' = [ceq EXCEPT ![n].sat = sat],
           ceq[n].sat # "free", sat # "free", sat = "quit" => n \in stop',
           dns' \subseteq Nums, stop' = stop \/ stop' = stop \cup {n},
           UNCHANGED <<part, told, ctp, crash>>
    PROVE  CttpInv'
  <1> DEFINE q == [ceq[n] EXCEPT !.sat = sat]
  <1>1. q \in Creqs /\ q.sat = sat /\ q.bod = ceq[n].bod /\ q.res = ceq[n].res
    BY CttpAt DEF Creqs
  <1>2. ceq' = [ceq EXCEPT ![n] = q]
    BY DEF CttpInv
  <1>3. q.bod = Parts(part[n]) /\ (~q.res => part[n] = 0)
    BY <1>1, CttpAt DEF CreqInv
  <1> HIDE DEF q
  <1>4. QED
    BY <1>1, <1>2, <1>3, CttpAt, CttpGoesOn, ZenonT(60)

\* _cttp_creq_quit() keeps the invariant.
LEMMA CttpQuits ==
    ASSUME CttpInv, NEW n \in Nums, Quit(n), ceq[n].sat # "free", n \in stop',
           dns' \subseteq Nums, stop' = stop \/ stop' = stop \cup {n},
           UNCHANGED <<part, told, ctp>>
    PROVE  CttpInv'
  <1>1. CASE ceq[n].sat = "addr"
    BY <1>1, CttpMoves DEF Quit, CreqSats
  <1>2. CASE ceq[n].sat # "addr"
    BY <1>2, CttpFreed DEF Quit
  <1>3. QED
    BY <1>1, <1>2

\* %iris asks: the request is new, and nothing was told of it.
LEMMA RequestKeeps == ASSUME CttpInv, NEW n \in Nums, Request(n) PROVE CttpInv'
  <1>1. ceq[n].sat # "free" /\ UNCHANGED <<part, stop, ctp>> /\ dns' \subseteq Nums
    BY CttpAt DEF Request
  <1>2. CASE ceq' = [ceq EXCEPT ![n].sat = "refused"] /\ UNCHANGED <<dns, told, crash>>
    BY <1>1, <1>2, CttpMoves DEF CreqSats
  <1>3. CASE Connect(n)
    BY <1>1, <1>3, CttpConnects
  <1>4. CASE CreqFail(n)
    BY <1>1, <1>4, CttpFails
  <1>5. CASE ceq' = [ceq EXCEPT ![n].sat = "addr"] /\ UNCHANGED <<told, crash>>
    BY <1>1, <1>5, CttpMoves DEF CreqSats
  <1>6. QED
    BY <1>2, <1>3, <1>4, <1>5 DEF Request

\* _cttp_creq_resolve_cb(): the name is known, or the request fails.
LEMMA ResolveCbKeeps == ASSUME CttpInv, NEW n \in Nums, ResolveCb(n) PROVE CttpInv'
  <1>1. UNCHANGED <<part, stop, ctp>> /\ dns' \subseteq Nums
    BY CttpAt DEF ResolveCb
  <1>2. CASE ceq[n].sat = "free"
    BY <1>1, <1>2 DEF ResolveCb, CttpInv
  <1>3. CASE ceq[n].sat = "quit"
    <2>1. n \in stop /\ Quit(n) /\ UNCHANGED told
      BY <1>3, CttpAt DEF ResolveCb, CreqInv
    <2>2. QED
      BY <1>1, <1>3, <2>1, CttpQuits
  <1>4. CASE ceq[n].sat \notin {"free", "quit"}
    BY <1>1, <1>4, CttpFails, CttpConnects DEF ResolveCb
  <1>5. QED
    BY <1>2, <1>3, <1>4

\* _cttp_creq_on_connect(): a connection, or a failure that is told once.
LEMMA OnConnectKeeps == ASSUME CttpInv, NEW n \in Nums, OnConnect(n) PROVE CttpInv'
  BY CttpFails, CttpAt DEF OnConnect

\* _cttp_creq_on_head(): the head, which may be the end of it.
LEMMA OnHeadKeeps == ASSUME CttpInv, NEW n \in Nums, OnHead(n) PROVE CttpInv'
  <1>1. /\ ceq[n].sat = "ripe" /\ ~ceq[n].res /\ UNCHANGED <<dns, part, stop, ctp>>
        /\ part[n] = 0 /\ ceq[n].bod = Parts(part[n]) /\ dns' \subseteq Nums
    BY CttpAt DEF OnHead, CreqInv
  <1>2. CASE Receive(n, <<>>)
    BY <1>1, <1>2, CttpTold, CttpAt, BodyFacts
  <1>3. CASE ceq' = [ceq EXCEPT ![n].res = TRUE] /\ UNCHANGED <<told, crash>>
    <2> DEFINE q == [ceq[n] EXCEPT !.res = TRUE]
    <2>1. q \in Creqs /\ q.sat = "ripe" /\ q.bod = ceq[n].bod /\ q.res
      BY <1>1, CttpAt DEF Creqs
    <2>2. ceq' = [ceq EXCEPT ![n] = q]
      BY <1>3 DEF CttpInv
    <2> HIDE DEF q
    <2>3. QED
      BY <1>1, <1>3, <2>1, <2>2, CttpAt, CttpGoesOn
  <1>4. QED
    BY <1>2, <1>3 DEF OnHead

\* _cttp_creq_on_body(): the next part, kept until the last one is told.
LEMMA OnBodyKeeps == ASSUME CttpInv, NEW n \in Nums, OnBody(n) PROVE CttpInv'
  <1>1. /\ ceq[n].sat = "ripe" /\ ceq[n].res /\ UNCHANGED <<dns, stop, ctp>>
        /\ ceq[n].bod = Parts(part[n]) /\ dns' \subseteq Nums
    BY CttpAt DEF OnBody, CreqInv
  <1>2. CASE CreqFail(n) /\ UNCHANGED part
    BY <1>1, <1>2, CttpFails
  <1>3. CASE Receive(n, ceq[n].bod) /\ UNCHANGED part
    BY <1>1, <1>3, CttpTold, CttpAt, BodyFacts
  <1>4. CASE /\ part[n] < MaxBody /\ part' = [part EXCEPT ![n] = @ + 1]
             /\ \/ Receive(n, Append(ceq[n].bod, part'[n]))
                \/ ceq' = [ceq EXCEPT ![n].bod = Append(@, part'[n])] /\ UNCHANGED <<told, crash>>
    <2>1. PICK k \in 0 .. MaxBody : k = part[n] + 1
      BY <1>4, CttpAt
    <2>2. part' = [part EXCEPT ![n] = k] /\ part'[n] = k
      BY <1>4, <2>1 DEF CttpInv
    <2>3. Append(ceq[n].bod, k) = Parts(k) /\ Parts(k) \in Seq(Nat)
      <3>1. part[n] \in Nat /\ k \in Nat
        BY CttpAt
      <3>2. Append(Parts(part[n]), part[n] + 1) = Parts(part[n] + 1) /\ Parts(k) \in Seq(Nat)
        BY <3>1, BodyFacts
      <3>3. QED
        BY <1>1, <2>1, <3>2
    <2>4. CASE Receive(n, Append(ceq[n].bod, part'[n]))
      BY <1>1, <2>2, <2>3, <2>4, CttpTold
    <2>5. CASE ceq' = [ceq EXCEPT ![n].bod = Append(@, part'[n])] /\ UNCHANGED <<told, crash>>
      <3> DEFINE q == [ceq[n] EXCEPT !.bod = Parts(k)]
      <3>1. q \in Creqs /\ q.sat = "ripe" /\ q.bod = Parts(k) /\ q.res
        BY <1>1, <2>3, CttpAt DEF Creqs
      <3>2. ceq' = [ceq EXCEPT ![n] = q]
        BY <2>2, <2>3, <2>5 DEF CttpInv
      <3> HIDE DEF q
      <3>3. QED
        BY <1>1, <2>2, <2>5, <3>1, <3>2, CttpAt, CttpGoesOn
    <2>6. QED
      BY <1>4, <2>4, <2>5
  <1>5. QED
    BY <1>2, <1>3, <1>4 DEF OnBody

\* _cttp_creq_quit(): a request that is under way is left to its next callback.
LEMMA CancelKeeps == ASSUME CttpInv, NEW n \in Nums, Cancel(n) PROVE CttpInv'
  <1>1. /\ stop' = stop \cup {n} /\ UNCHANGED <<dns, part, told, ctp>> /\ dns' \subseteq Nums
    BY CttpAt DEF Cancel
  <1>2. CASE ceq[n].sat \in Gone
    <2>1. UNCHANGED <<ceq, crash>>
      BY <1>2 DEF Cancel
    <2>2. ASSUME NEW m \in Nums PROVE CreqInv(ceq[m], part[m], told[m], m \in stop')
      BY <1>1, CttpAt DEF CreqInv
    <2>3. QED
      BY <1>1, <2>1, <2>2 DEF CttpInv
  <1>3. CASE ceq[n].sat \notin Gone
    BY <1>1, <1>3, CttpQuits DEF Cancel, Gone
  <1>4. QED
    BY <1>2, <1>3

\* _cttp_io_exit(): the requests go, and nothing more is told.
LEMMA CttpExitKeeps == ASSUME CttpInv, CttpExit PROVE CttpInv'
  <1> DEFINE q(n) == IF ceq[n].sat \in Gone THEN ceq[n]
                     ELSE IF ceq[n].sat = "addr" THEN [ceq[n] EXCEPT !.sat = "quit"]
                     ELSE [NoCreq EXCEPT !.sat = "free"]
  <1>1. /\ stop' = Nums /\ ctp' = "exit" /\ ceq' = [n \in Nums |-> q(n)]
        /\ UNCHANGED <<dns, part, told, crash>>
    BY DEF CttpExit
  <1>2. ASSUME NEW n \in Nums PROVE q(n) \in Creqs /\ CreqInv(q(n), part[n], told[n], TRUE)
    <2>1. ceq[n] \in Creqs /\ CreqInv(ceq[n], part[n], told[n], n \in stop)
      BY CttpAt
    <2>2. CASE ceq[n].sat \in Gone
      BY <2>1, <2>2 DEF CreqInv
    <2>3. CASE ceq[n].sat = "addr"
      <3>1. q(n) = [ceq[n] EXCEPT !.sat = "quit"]
        BY <2>3 DEF Gone
      <3>2. q(n) \in Creqs /\ q(n).sat = "quit" /\ q(n).bod = ceq[n].bod /\ q(n).res = ceq[n].res
        BY <2>1, <3>1, SMTT(30) DEF Creqs, CreqSats
      <3>3. QED
        BY <2>1, <2>3, <3>2 DEF CreqInv
    <2>4. CASE ceq[n].sat \notin Gone \cup {"addr"}
      <3>1. q(n) = [NoCreq EXCEPT !.sat = "free"]
        BY <2>4
      <3>2. NoCreq \in Creqs
        BY DEF NoCreq, Creqs, CreqSats
      <3>3. q(n) \in Creqs /\ q(n).sat = "free"
        BY <3>1, <3>2 DEF Creqs, CreqSats
      <3>4. QED
        BY <2>1, <2>4, <3>3 DEF CreqInv, Gone
    <2>5. QED
      BY <2>2, <2>3, <2>4
  <1> HIDE DEF q
  <1>3. ASSUME NEW n \in Nums PROVE CreqInv(ceq'[n], part'[n], told'[n], n \in stop')
    BY <1>1, <1>2
  <1>4. QED
    BY <1>1, <1>2, <1>3 DEF CttpInv

\* Every step of the client keeps its invariant.
LEMMA CttpNextKeeps == CttpInv /\ [CttpNext]_tvars => CttpInv'
  <1> SUFFICES ASSUME CttpInv, [CttpNext]_tvars PROVE CttpInv'
    OBVIOUS
  <1>1. CASE UNCHANGED tvars
    BY <1>1 DEF tvars, CttpInv
  <1>2. ASSUME NEW n \in Nums,
               \/ Request(n) \/ ResolveCb(n) \/ OnConnect(n) \/ OnHead(n) \/ OnBody(n) \/ Cancel(n)
        PROVE  CttpInv'
    BY <1>2, RequestKeeps, ResolveCbKeeps, OnConnectKeeps, OnHeadKeeps, OnBodyKeeps, CancelKeeps
  <1>3. CASE CttpExitCb
    BY <1>3 DEF CttpExitCb, CttpInv
  <1>4. QED
    BY <1>1, <1>2, <1>3, CttpExitKeeps DEF CttpNext

\* %iris hears of each request once, and of all that was received or of a failure.
THEOREM IrisHearsOnce == CttpSpec => [](CttpTypeOK /\ ReceivedOnce)
  <1>1. CttpInit => CttpInv
    BY CttpInitInv
  <1>2. CttpInv /\ [CttpNext]_tvars => CttpInv'
    BY CttpNextKeeps
  <1>3. CttpInv => CttpTypeOK /\ ReceivedOnce
    BY CttpInvSafe
  <1>4. QED
    BY <1>1, <1>2, <1>3, PTL DEF CttpSpec

-----------------------------------------------------------------------------
(* The packet network                                                      *)

\* The queue of the driver: %born if it waits, and the packets put after the first k.
Queue(b, ps, k) == IF b THEN <<"born">> \o SubSeq(ps, k + 1, Len(ps)) ELSE SubSeq(ps, k + 1, Len(ps))

\* How long that queue is and what is in it.
LEMMA QueueFacts ==
    ASSUME NEW b \in BOOLEAN, NEW ps \in Seq(Packets), NEW k \in 0 .. Len(ps)
    PROVE  LET q == Queue(b, ps, k)
               o == IF b THEN 1 ELSE 0
           IN  /\ q \in Seq(Packets \cup {"born"}) /\ Len(q) = o + Len(ps) - k
               /\ \A i \in 1 .. Len(ps) - k : q[i + o] = ps[i + k]
               /\ b => q[1] = "born"
  <1> DEFINE t == SubSeq(ps, k + 1, Len(ps))
  <1>1. /\ t \in Seq(Packets) /\ Len(t) = Len(ps) - k
        /\ \A i \in 1 .. Len(ps) - k : t[i] = ps[i + k]
    BY SubSeqProperties
  <1>2. t \in Seq(Packets \cup {"born"})
    BY <1>1
  <1>3. <<"born">> \in Seq(Packets \cup {"born"}) /\ Len(<<"born">>) = 1
    OBVIOUS
  <1> DEFINE u == <<"born">> \o t
  <1>4. /\ u \in Seq(Packets \cup {"born"}) /\ Len(u) = 1 + Len(t) /\ u[1] = "born"
        /\ \A i \in 1 .. Len(t) : u[i + 1] = t[i]
    <2> HIDE DEF t
    <2>1. QED
      BY <1>2, <1>3
  <1> HIDE DEF t, u
  <1>5. CASE b
    <2>1. Queue(b, ps, k) = u
      BY <1>5 DEF Queue, t, u
    <2>2. QED
      BY <1>1, <1>4, <1>5, <2>1
  <1>6. CASE ~b
    <2>1. Queue(b, ps, k) = t
      BY <1>6 DEF Queue, t
    <2>2. QED
      BY <1>1, <1>2, <1>6, <2>1
  <1>7. QED
    BY <1>5, <1>6

\* _ames_put_packet() and _ames_cap_queue(): the queue keeps its shape, loses no more
\* than its oldest packet, and is as short as it has to be.
LEMMA CapQueueFacts ==
    ASSUME NEW b \in BOOLEAN, NEW ps \in Seq(Packets), NEW k \in 0 .. Len(ps), NEW p \in Packets,
           Len(Queue(b, ps, k)) <= QueueCap
    PROVE  \E j \in k .. Len(ps) + 1 :
              /\ CapQueue(Append(Queue(b, ps, k), p)) = Queue(b, Append(ps, p), j)
              /\ Len(Queue(b, Append(ps, p), j)) <= QueueCap
  <1> DEFINE S == Packets \cup {"born"}
  <1>1. PICK o \in 0 .. 1 : o = IF b THEN 1 ELSE 0
    OBVIOUS
  <1>2. PICK l \in Nat : l = Len(ps) - k
    BY SMTT(30)
  <1>3. PICK q \in Seq(S) : q = Queue(b, ps, k)
    BY QueueFacts
  <1>4. Len(q) = o + l /\ (b => q[1] = "born") /\ \A i \in 1 .. l : q[i + o] = ps[i + k]
    BY <1>1, <1>2, <1>3, QueueFacts
  <1>5. PICK a \in Seq(S) : a = Append(q, p)
    BY AppendProperties
  <1>6. PICK ps2 \in Seq(Packets) : ps2 = Append(ps, p)
    BY AppendProperties
  <1>7. /\ Len(ps2) = Len(ps) + 1 /\ ps2[Len(ps) + 1] = p
        /\ \A i \in 1 .. Len(ps) : ps2[i] = ps[i]
    BY <1>6, AppendProperties
  <1>8. Len(a) = Len(q) + 1 /\ a[Len(q) + 1] = p /\ \A i \in 1 .. Len(q) : a[i] = q[i]
    BY <1>5, AppendProperties
  <1>9. ASSUME NEW i \in 1 .. l + 1 PROVE a[i + o] = ps2[i + k]
    <2>1. CASE i = l + 1
      BY <1>2, <1>4, <1>7, <1>8, <2>1, SMTT(30)
    <2>2. CASE i # l + 1
      <3>1. i \in 1 .. l /\ i + o \in 1 .. Len(q) /\ i + k \in 1 .. Len(ps)
        BY <1>2, <1>4, <2>2, SMTT(30)
      <3>2. QED
        BY <1>4, <1>7, <1>8, <3>1
    <2>3. QED
      BY <2>1, <2>2
  <1>10. b => a[1] = "born"
    BY <1>1, <1>4, <1>8
  <1>11. (a # <<>> /\ Head(a) = "born") <=> b
    <2>1. a # <<>> /\ Head(a) = a[1]
      BY <1>4, <1>8
    <2>2. ~b => a[1] \in Packets
      <3>1. SUFFICES ASSUME ~b PROVE a[1] \in Packets
        OBVIOUS
      <3>2. a[1] = ps2[1 + k] /\ 1 + k \in 1 .. Len(ps2)
        BY <1>1, <1>7, <1>9, <3>1
      <3>3. QED
        BY <3>2
    <2>3. QED
      BY <1>10, <2>1, <2>2, AmesBounds
  <1>12. PICK m \in 0 .. 1 : m = IF Len(a) > QueueCap THEN 1 ELSE 0
    OBVIOUS
  <1>13. QueueCap \in Nat /\ QueueCap >= 1 /\ Len(q) <= QueueCap /\ Len(a) = o + l + 1
    BY <1>3, <1>4, <1>8, AmesBounds
  <1>14. m <= l + 1 /\ o + l + 1 - m <= QueueCap
    BY <1>4, <1>12, <1>13
  <1> HIDE DEF S
  <1>15. CapQueue(a) = SubSeq(a, 1, o) \o SubSeq(a, o + m + 1, Len(a))
    <2>1. (IF Len(a) > QueueCap THEN Len(a) - QueueCap ELSE 0) = m
      BY <1>4, <1>12, <1>13
    <2>2. (IF a # <<>> /\ Head(a) = "born" THEN 1 ELSE 0) = o
      BY <1>1, <1>11
    <2>3. QED
      BY <2>1, <2>2 DEF CapQueue
  <1>16. PICK r \in Nat : r = l + 1 - m
    BY <1>14
  <1>17. PICK x \in Seq(S) : x = SubSeq(a, 1, o) /\ Len(x) = o /\ \A i \in 1 .. o : x[i] = a[i]
    <2>1. o \in Nat /\ o <= Len(a)
      BY <1>13
    <2>2. SubSeq(a, 1, o) \in Seq(S) /\ Len(SubSeq(a, 1, o)) = o /\ \A i \in 1 .. o : SubSeq(a, 1, o)[i] = a[i]
      BY <2>1
    <2>3. QED
      BY <2>2
  <1>18. PICK y \in Seq(S) : /\ y = SubSeq(a, o + m + 1, Len(a)) /\ Len(y) = r
                             /\ \A i \in 1 .. r : y[i] = a[i + o + m]
    <2>1. o + m + 1 \in Nat /\ o + m + 1 >= 1 /\ o + m + 1 <= Len(a) + 1 /\ Len(a) + 1 - (o + m + 1) = r
      BY <1>13, <1>14, <1>16
    <2>2. PICK f \in Nat : f = o + m + 1
      BY <2>1
    <2>3. /\ SubSeq(a, f, Len(a)) \in Seq(S) /\ Len(SubSeq(a, f, Len(a))) = Len(a) + 1 - f
          /\ \A i \in 1 .. Len(a) + 1 - f : SubSeq(a, f, Len(a))[i] = a[i + f - 1]
      BY <2>1, <2>2, SMTT(30)
    <2>4. Len(a) + 1 - f = r
      BY <2>1, <2>2
    <2>5. ASSUME NEW i \in 1 .. r PROVE SubSeq(a, f, Len(a))[i] = a[i + o + m]
      <3>1. i + f - 1 = i + o + m
        BY <2>2
      <3>2. SubSeq(a, f, Len(a))[i] = a[i + f - 1]
        BY <2>3, <2>4
      <3>3. QED
        BY <3>1, <3>2
    <2>6. QED
      BY <2>2, <2>3, <2>4, <2>5
  <1>19. PICK w \in Seq(S) : w = x \o y
    BY ConcatProperties
  <1>20. /\ Len(w) = o + r /\ \A i \in 1 .. o : w[i] = a[i]
         /\ \A i \in 1 .. r : w[i + o] = y[i]
    <2>1. Len(x) = o /\ Len(y) = r /\ \A i \in 1 .. o : x[i] = a[i]
      BY <1>17, <1>18
    <2>2. Len(w) = o + r
      BY <1>19, <2>1, ConcatProperties, SMTT(30)
    <2>3. ASSUME NEW i \in 1 .. o PROVE w[i] = a[i]
      <3>1. (x \o y)[i] = x[i]
        BY <2>1
      <3>2. QED
        BY <1>19, <2>1, <3>1
    <2>4. ASSUME NEW i \in 1 .. r PROVE w[i + o] = y[i]
      <3>1. PICK e \in Nat : e = i + o
        OBVIOUS
      <3>2. e \in 1 .. o + r /\ ~(e <= o) /\ e - o = i
        BY <3>1
      <3>3. (x \o y)[e] = y[e - o]
        <4>1. Len(x) = o /\ Len(y) = r
          BY <2>1
        <4>2. QED
          BY <3>2, <4>1, ConcatProperties
      <3>4. QED
        BY <1>19, <3>1, <3>2, <3>3
    <2>5. QED
      BY <2>2, <2>3, <2>4
  <1>21. PICK j \in k .. Len(ps) + 1 : j = k + m
    BY <1>2, <1>14
  <1>22. j \in 0 .. Len(ps2) /\ Len(ps2) - j = r
    BY <1>2, <1>7, <1>14, <1>16, <1>21
  <1>23. PICK z \in Seq(S) : z = Queue(b, ps2, j)
    BY <1>22, QueueFacts DEF S
  <1>24. Len(z) = o + r /\ (b => z[1] = "born") /\ \A i \in 1 .. r : z[i + o] = ps2[i + j]
    BY <1>1, <1>22, <1>23, QueueFacts
  <1>25. ASSUME NEW i \in 1 .. r PROVE w[i + o] = z[i + o]
    <2>1. w[i + o] = a[i + o + m] /\ z[i + o] = ps2[i + j]
      BY <1>18, <1>20, <1>24
    <2>2. i + m \in 1 .. l + 1 /\ i + o + m = (i + m) + o /\ i + j = (i + m) + k
      BY <1>16, <1>21
    <2>3. a[(i + m) + o] = ps2[(i + m) + k]
      BY <1>9, <2>2
    <2>4. QED
      BY <2>1, <2>2, <2>3
  <1>26. ASSUME NEW i \in 1 .. o + r PROVE w[i] = z[i]
    <2>1. CASE i <= o
      <3>1. i = 1 /\ b
        BY <1>1, <2>1
      <3>2. QED
        BY <1>1, <1>10, <1>20, <1>24, <3>1
    <2>2. CASE i > o
      <3>1. i - o \in 1 .. r /\ (i - o) + o = i
        BY <2>2
      <3>2. QED
        BY <1>25, <3>1
    <2>3. QED
      BY <2>1, <2>2, SMTT(30)
  <1>27. w = z
    BY <1>20, <1>24, <1>26, SeqEqual, SMTT(30)
  <1>28. QED
    <2>1. CapQueue(a) = Queue(b, ps2, j)
      BY <1>15, <1>17, <1>18, <1>19, <1>23, <1>27
    <2>2. Len(Queue(b, ps2, j)) <= QueueCap
      BY <1>14, <1>16, <1>23, <1>24
    <2>3. QED
      BY <1>3, <1>5, <1>6, <2>1, <2>2

\* A queue holds what was put, and one that was shortened nothing else.
LEMMA QueueSet ==
    ASSUME NEW b \in BOOLEAN, NEW ps \in Seq(Packets), NEW k \in 0 .. Len(ps)
    PROVE  ToSet(Queue(b, ps, k)) = {ps[i] : i \in k + 1 .. Len(ps)} \cup {x \in {"born"} : b}
  <1>1. PICK o \in 0 .. 1 : o = IF b THEN 1 ELSE 0
    OBVIOUS
  <1>2. PICK q \in Seq(Packets \cup {"born"}) : q = Queue(b, ps, k)
    BY QueueFacts
  <1>3. PICK l \in Nat : l = Len(ps) - k
    OBVIOUS
  <1>4. /\ Len(q) = o + l /\ (b => q[1] = "born") /\ DOMAIN q = 1 .. o + l
        /\ \A i \in 1 .. l : q[i + o] = ps[i + k]
    <2>1. /\ Len(q) = o + l /\ (b => q[1] = "born")
          /\ \A i \in 1 .. l : q[i + o] = ps[i + k]
      BY <1>1, <1>2, <1>3, QueueFacts
    <2>2. DOMAIN q = 1 .. Len(q)
      OBVIOUS
    <2>3. QED
      BY <2>1, <2>2
  <1>5. ASSUME NEW i \in 1 .. o + l
        PROVE  q[i] \in {ps[h] : h \in k + 1 .. Len(ps)} \cup {x \in {"born"} : b}
    <2>1. CASE i <= o
      BY <1>1, <1>4, <2>1
    <2>2. CASE i > o
      <3>1. PICK h \in 1 .. l : h = i - o
        BY <2>2
      <3>2. h + o = i /\ h + k \in k + 1 .. Len(ps)
        BY <1>3, <3>1
      <3>3. q[h + o] = ps[h + k]
        BY <1>4
      <3>4. QED
        BY <3>2, <3>3
    <2>3. QED
      BY <2>1, <2>2
  <1>6. ASSUME NEW h \in k + 1 .. Len(ps) PROVE ps[h] \in {q[i] : i \in 1 .. o + l}
    <2>1. PICK i \in 1 .. l : i = h - k
      BY <1>3
    <2>2. i + k = h /\ i + o \in 1 .. o + l
      BY <1>3, <2>1
    <2>3. q[i + o] = ps[i + k]
      BY <1>4
    <2>4. QED
      BY <2>2, <2>3
  <1>7. b => "born" \in {q[i] : i \in 1 .. o + l}
    <2>1. b => 1 \in 1 .. o + l
      BY <1>1
    <2>2. QED
      BY <1>4, <2>1
  <1>8. ToSet(q) = {q[i] : i \in 1 .. o + l}
    BY <1>4 DEF ToSet
  <1>9. QED
    BY <1>2, <1>5, <1>6, <1>7, <1>8, ZenonT(60)

\* After a packet is put and the queue is capped, it holds nothing but what it held and
\* that packet.
LEMMA QueueShrinks ==
    ASSUME NEW b \in BOOLEAN, NEW ps \in Seq(Packets), NEW k \in 0 .. Len(ps), NEW p \in Packets,
           NEW j \in k .. Len(ps) + 1
    PROVE  ToSet(Queue(b, Append(ps, p), j)) \subseteq ToSet(Queue(b, ps, k)) \cup {p}
  <1>1. PICK ps2 \in Seq(Packets) : ps2 = Append(ps, p)
    BY AppendProperties
  <1>2. Len(ps2) = Len(ps) + 1 /\ ps2[Len(ps) + 1] = p /\ \A i \in 1 .. Len(ps) : ps2[i] = ps[i]
    BY <1>1, AppendProperties
  <1>3. j \in 0 .. Len(ps2)
    BY <1>2
  <1>4. ToSet(Queue(b, ps2, j)) = {ps2[i] : i \in j + 1 .. Len(ps2)} \cup {x \in {"born"} : b}
    BY <1>3, QueueSet
  <1>5. ToSet(Queue(b, ps, k)) = {ps[i] : i \in k + 1 .. Len(ps)} \cup {x \in {"born"} : b}
    BY QueueSet
  <1>6. ASSUME NEW i \in j + 1 .. Len(ps2)
        PROVE  ps2[i] = p \/ ps2[i] \in {ps[h] : h \in k + 1 .. Len(ps)}
    <2>1. CASE i = Len(ps) + 1
      BY <1>2, <2>1
    <2>2. CASE i # Len(ps) + 1
      <3>1. i \in 1 .. Len(ps) /\ i \in k + 1 .. Len(ps)
        BY <1>2, <2>2
      <3>2. QED
        BY <1>2, <3>1
    <2>3. QED
      BY <2>1, <2>2
  <1>7. QED
    BY <1>1, <1>4, <1>5, <1>6

\* The packets of a queue are the last that were put, and it holds %born if it waits.
LEMMA QueueHeard ==
    ASSUME NEW b \in BOOLEAN, NEW ps \in Seq(Packets), NEW k \in 0 .. Len(ps)
    PROVE  /\ IsSuffix(Heard(Queue(b, ps, k)), ps)
           /\ Contains(Queue(b, ps, k), "born") = b
  <1>1. PICK o \in 0 .. 1 : o = IF b THEN 1 ELSE 0
    OBVIOUS
  <1>2. PICK q \in Seq(Packets \cup {"born"}) : q = Queue(b, ps, k)
    BY QueueFacts
  <1>3. PICK l \in Nat : l = Len(ps) - k
    OBVIOUS
  <1>4. /\ Len(q) = o + l /\ (b => q[1] = "born")
        /\ \A i \in 1 .. l : q[i + o] = ps[i + k]
    BY <1>1, <1>2, <1>3, QueueFacts
  <1>5. ASSUME NEW i \in 1 .. l PROVE ps[i + k] \in Packets
    <2>1. i + k \in 1 .. Len(ps)
      BY <1>3
    <2>2. QED
      BY <2>1
  <1>6. Contains(q, "born") = b
    <2>1. b => Contains(q, "born")
      <3>1. SUFFICES ASSUME b PROVE Contains(q, "born")
        OBVIOUS
      <3>2. 1 \in 1 .. Len(q)
        BY <1>1, <1>4, <3>1
      <3>3. QED
        BY <1>4, <3>1, <3>2 DEF Contains
    <2>2. ASSUME ~b, NEW i \in 1 .. Len(q) PROVE q[i] # "born"
      <3>1. i \in 1 .. l /\ i + o = i
        BY <1>1, <1>4, <2>2
      <3>2. q[i] = ps[i + k]
        BY <1>4, <3>1
      <3>3. QED
        BY <1>5, <3>1, <3>2, AmesBounds
    <2>3. Contains(q, "born") \in BOOLEAN
      BY DEF Contains
    <2>4. QED
      BY <2>1, <2>2, <2>3 DEF Contains
  <1>7. (q # <<>> /\ Head(q) = "born") <=> b
    <2>1. b => q # <<>> /\ Head(q) = "born"
      BY <1>1, <1>4
    <2>2. q # <<>> /\ Head(q) = "born" => Contains(q, "born")
      <3>1. SUFFICES ASSUME q # <<>>, Head(q) = "born" PROVE Contains(q, "born")
        OBVIOUS
      <3>2. 1 \in 1 .. Len(q) /\ q[1] = "born"
        BY <3>1
      <3>3. QED
        BY <3>2 DEF Contains
    <2>3. QED
      BY <1>6, <2>1, <2>2
  <1>8. PICK h : h = Heard(q)
    OBVIOUS
  <1>9. h \in Seq(Packets \cup {"born"}) /\ Len(h) = l /\ \A i \in 1 .. l : h[i] = ps[i + k]
    <2>1. CASE b
      <3>1. h = Tail(q) /\ q # <<>>
        BY <1>7, <1>8, <2>1 DEF Heard
      <3>2. h \in Seq(Packets \cup {"born"}) /\ Len(h) = l /\ \A i \in 1 .. l : h[i] = q[i + 1]
        BY <1>1, <1>4, <2>1, <3>1
      <3>3. QED
        BY <1>1, <1>4, <2>1, <3>2
    <2>2. CASE ~b
      <3>1. h = q
        BY <1>7, <1>8, <2>2 DEF Heard
      <3>2. o = 0
        BY <1>1, <2>2
      <3>3. QED
        BY <1>4, <3>1, <3>2
    <2>3. QED
      BY <2>1, <2>2
  <1>10. IsSuffix(h, ps)
    <2>1. PICK s : s = Reverse(h)
      OBVIOUS
    <2>2. PICK t : t = Reverse(ps)
      OBVIOUS
    <2>3. s \in Seq(Packets \cup {"born"}) /\ Len(s) = l /\ \A i \in 1 .. l : s[i] = h[(l - i) + 1]
      BY <1>9, <2>1 DEF Reverse
    <2>4. /\ t \in Seq(Packets \cup {"born"}) /\ Len(t) = Len(ps)
          /\ \A i \in 1 .. Len(ps) : t[i] = ps[(Len(ps) - i) + 1]
      BY <2>2 DEF Reverse
    <2>5. ASSUME NEW i \in 1 .. l PROVE s[i] = t[i]
      <3>1. PICK j \in 1 .. l : j = (l - i) + 1
        OBVIOUS
      <3>2. i \in 1 .. Len(ps) /\ (Len(ps) - i) + 1 = j + k
        BY <1>3, <3>1
      <3>3. h[j] = ps[j + k]
        BY <1>9
      <3>4. QED
        BY <2>3, <2>4, <3>1, <3>2, <3>3
    <2>6. l <= Len(t)
      BY <1>3, <2>4
    <2>7. SubSeq(s, 1, l) = SubSeq(t, 1, l)
      BY <2>3, <2>4, <2>5, <2>6, SMTT(30)
    <2>8. QED
      BY <2>1, <2>2, <2>3, <2>6, <2>7 DEF IsSuffix, IsPrefix
  <1>11. QED
    BY <1>2, <1>6, <1>8, <1>10

Fates == {"none", "queue", "drop", "wait", "sent", "lost"}
LaneLists == {<<"none">>, <<>>} \cup {<<l>> : l \in Lanes}

\* The types of the driver's state.
AmesTypes ==
    /\ clock \in 0 .. MaxTime /\ imp.ip \in Addrs \cup {"none", "sentinel"}
    /\ lax \in [Peers -> [las : LaneLists, wen : 0 .. MaxTime]]
    /\ pac \in [DOMAIN pac -> Peers] /\ DOMAIN pac \subseteq Packets /\ IsFiniteSet(DOMAIN pac)
    /\ look \in Seq(Packets) /\ puts \in Seq(Packets)
    /\ foq \in Nat /\ saw \in 0 .. ScryCap + 1 /\ see \in BOOLEAN /\ born \in BOOLEAN
    /\ fate \in [Packets -> Fates] /\ alive \in {"up", "free", "dead"}

\* A packet waits for its lane or for the galaxy's address, once.
WaitsOnce(pc, lk) ==
    /\ \A i, j \in DOMAIN lk : lk[i] = lk[j] => i = j
    /\ \A i \in DOMAIN lk : lk[i] \notin DOMAIN pc

\* What is known of a packet that waits or is queued.
FateRight(ft, ex, pc, lk) ==
    /\ \A p \in Packets : (ft[p] = "wait") <=> (p \in DOMAIN pc \/ p \in ToSet(lk))
    /\ \A p \in Packets : p \in ToSet(ex) => ft[p] = "queue"

\* The queue has its shape and is not too long.
QueueRight == \E k \in 0 .. Len(puts) : ext = Queue(born, puts, k) /\ Len(ext) <= QueueCap

AmesInv ==
    /\ AmesTypes
    /\ alive = "up" => /\ foq = Cardinality(DOMAIN pac) /\ foq <= ForwardCap + 1
                       /\ WaitsOnce(pac, look) /\ FateRight(fate, ext, pac, look) /\ QueueRight

\* The invariant of the driver gives its part of what the run checks.
LEMMA AmesInvSafe == AmesInv => AmesTypeOK /\ PressureKept
  <1> SUFFICES ASSUME AmesInv PROVE AmesTypeOK /\ PressureKept
    OBVIOUS
  <1>1. AmesTypeOK
    BY DEF AmesInv, AmesTypes, AmesTypeOK, Fates, LaneLists
  <1>2. ASSUME alive = "up"
        PROVE  /\ Len(ext) <= QueueCap /\ born = Contains(ext, "born") /\ IsSuffix(Heard(ext), puts)
    <2>1. PICK k \in 0 .. Len(puts) : ext = Queue(born, puts, k) /\ Len(ext) <= QueueCap
      BY <1>2 DEF AmesInv, QueueRight
    <2>2. QED
      BY <2>1, QueueHeard DEF AmesInv, AmesTypes
  <1>3. ASSUME alive = "up", NEW p \in Packets
        PROVE  (fate[p] = "wait") = (p \in DOMAIN pac \/ p \in ToSet(look))
    BY <1>3 DEF AmesInv, FateRight
  <1>4. QED
    BY <1>1, <1>2, <1>3 DEF PressureKept, AmesInv

\* The driver starts, or is parked, with %born planned and nothing that waits.
LEMMA AmesInitInv == AmesInit \/ AmesParked => AmesInv
  <1> SUFFICES ASSUME AmesInit \/ AmesParked PROVE AmesInv
    OBVIOUS
  <1>1. /\ clock = 0 /\ ext = <<"born">> /\ imp = NoImp /\ look = <<>>
        /\ lax = [p \in Peers |-> NoLane] /\ pac = <<>> /\ foq = 0 /\ saw = 0 /\ see = TRUE
        /\ puts = <<>> /\ born = TRUE /\ fate = [p \in Packets |-> "none"] /\ alive \in {"up", "free", "dead"}
    BY DEF AmesInit, AmesParked
  <1>2. DOMAIN pac = {} /\ pac \in [DOMAIN pac -> Peers] /\ IsFiniteSet(DOMAIN pac) /\ Cardinality(DOMAIN pac) = 0
    BY <1>1, FS_EmptySet
  <1>3. NoLane \in [las : LaneLists, wen : 0 .. MaxTime]
    BY AmesBounds DEF NoLane, LaneLists
  <1>4. imp.ip = "none"
    BY <1>1 DEF NoImp
  <1>5. AmesTypes
    <2>1. lax \in [Peers -> [las : LaneLists, wen : 0 .. MaxTime]]
      BY <1>1, <1>3
    <2>2. QED
      BY <1>1, <1>2, <1>4, <2>1, AmesBounds DEF AmesTypes, Fates
  <1>6. ToSet(look) = {} /\ ToSet(ext) = {"born"}
    BY <1>1 DEF ToSet
  <1>7. QueueRight
    <2>1. Queue(TRUE, <<>>, 0) = <<"born">>
      <3>1. SubSeq(<<>>, 0 + 1, Len(<<>>)) = <<>>
        OBVIOUS
      <3>2. <<"born">> \o <<>> = <<"born">>
        OBVIOUS
      <3>3. Queue(TRUE, <<>>, 0) = <<"born">> \o SubSeq(<<>>, 0 + 1, Len(<<>>))
        BY DEF Queue
      <3>4. QED
        BY <3>1, <3>2, <3>3
    <2>2. 0 \in 0 .. Len(puts) /\ Len(ext) <= QueueCap
      BY <1>1, AmesBounds
    <2>3. QED
      BY <1>1, <2>1, <2>2 DEF QueueRight
  <1>8. WaitsOnce(pac, look) /\ FateRight(fate, ext, pac, look)
    BY <1>1, <1>2, <1>6, AmesBounds DEF WaitsOnce, FateRight
  <1>9. QED
    BY <1>1, <1>2, <1>5, <1>7, <1>8, AmesBounds DEF AmesInv

\* A packet that no longer waits, and is not queued, ends.
LEMMA FateEnds ==
    ASSUME NEW ft \in [Packets -> Fates], NEW ex, NEW pc, NEW pc2, NEW lk \in Seq(Packets),
           NEW p \in Packets, NEW f \in Fates \ {"wait"},
           WaitsOnce(pc, lk), FateRight(ft, ex, pc, lk),
           DOMAIN pc2 = DOMAIN pc \ {p}, p \notin ToSet(lk), p \notin ToSet(ex)
    PROVE  /\ [ft EXCEPT ![p] = f] \in [Packets -> Fates]
           /\ WaitsOnce(pc2, lk) /\ FateRight([ft EXCEPT ![p] = f], ex, pc2, lk)
  <1> DEFINE g == [ft EXCEPT ![p] = f]
  <1>1. g \in [Packets -> Fates] /\ g[p] = f /\ \A r \in Packets : r # p => g[r] = ft[r]
    OBVIOUS
  <1> HIDE DEF g
  <1>2. WaitsOnce(pc2, lk)
    BY DEF WaitsOnce
  <1>3. ASSUME NEW r \in Packets PROVE (g[r] = "wait") <=> (r \in DOMAIN pc2 \/ r \in ToSet(lk))
    <2>1. (ft[r] = "wait") <=> (r \in DOMAIN pc \/ r \in ToSet(lk))
      BY DEF FateRight
    <2>2. QED
      BY <1>1, <2>1
  <1>4. ASSUME NEW r \in Packets, r \in ToSet(ex) PROVE g[r] = "queue"
    BY <1>1, <1>4 DEF FateRight
  <1>5. FateRight(g, ex, pc2, lk)
    BY <1>3, <1>4 DEF FateRight
  <1>6. QED
    BY <1>1, <1>2, <1>5 DEF g

\* A packet that waits for the galaxy's address waits there only.
LEMMA FateLooks ==
    ASSUME NEW ft \in [Packets -> Fates], NEW ex, NEW pc, NEW pc2, NEW lk \in Seq(Packets),
           NEW p \in Packets, WaitsOnce(pc, lk), FateRight(ft, ex, pc, lk),
           DOMAIN pc2 = DOMAIN pc \ {p}, p \notin ToSet(lk), p \notin ToSet(ex)
    PROVE  /\ [ft EXCEPT ![p] = "wait"] \in [Packets -> Fates] /\ Append(lk, p) \in Seq(Packets)
           /\ WaitsOnce(pc2, Append(lk, p))
           /\ FateRight([ft EXCEPT ![p] = "wait"], ex, pc2, Append(lk, p))
  <1> DEFINE g == [ft EXCEPT ![p] = "wait"]
  <1>1. g \in [Packets -> Fates] /\ g[p] = "wait" /\ \A r \in Packets : r # p => g[r] = ft[r]
    BY DEF Fates
  <1> HIDE DEF g
  <1>2. PICK lk2 \in Seq(Packets) : lk2 = Append(lk, p)
    BY AppendProperties
  <1>3. /\ DOMAIN lk2 = 1 .. Len(lk) + 1 /\ DOMAIN lk = 1 .. Len(lk) /\ lk2[Len(lk) + 1] = p
        /\ \A i \in 1 .. Len(lk) : lk2[i] = lk[i]
    BY <1>2, AppendProperties
  <1>4. ToSet(lk2) = ToSet(lk) \cup {p}
    BY <1>3 DEF ToSet
  <1>5. \A i \in 1 .. Len(lk) : lk[i] # p
    BY <1>3 DEF ToSet
  <1>6. WaitsOnce(pc2, lk2)
    <2>1. ASSUME NEW i \in DOMAIN lk2, NEW j \in DOMAIN lk2, lk2[i] = lk2[j] PROVE i = j
      <3>1. CASE i \in DOMAIN lk /\ j \in DOMAIN lk
        BY <1>3, <2>1, <3>1 DEF WaitsOnce
      <3>2. CASE ~(i \in DOMAIN lk /\ j \in DOMAIN lk)
        BY <1>3, <1>5, <2>1, <3>2
      <3>3. QED
        BY <3>1, <3>2
    <2>2. ASSUME NEW i \in DOMAIN lk2 PROVE lk2[i] \notin DOMAIN pc2
      BY <1>3 DEF WaitsOnce
    <2>3. QED
      BY <2>1, <2>2 DEF WaitsOnce
  <1>7. ASSUME NEW r \in Packets PROVE (g[r] = "wait") <=> (r \in DOMAIN pc2 \/ r \in ToSet(lk2))
    <2>1. (ft[r] = "wait") <=> (r \in DOMAIN pc \/ r \in ToSet(lk))
      BY DEF FateRight
    <2>2. QED
      BY <1>1, <1>4, <2>1
  <1>8. ASSUME NEW r \in Packets, r \in ToSet(ex) PROVE g[r] = "queue"
    BY <1>1, <1>8 DEF FateRight
  <1>9. FateRight(g, ex, pc2, lk2)
    BY <1>7, <1>8 DEF FateRight
  <1>10. QED
    BY <1>1, <1>2, <1>6, <1>9 DEF g

\* A packet that waits for its lane waits there only.
LEMMA FateScries ==
    ASSUME NEW ft \in [Packets -> Fates], NEW ex, NEW pc, NEW pc2, NEW lk \in Seq(Packets),
           NEW p \in Packets, WaitsOnce(pc, lk), FateRight(ft, ex, pc, lk),
           DOMAIN pc2 = DOMAIN pc \cup {p}, p \notin ToSet(lk), p \notin ToSet(ex)
    PROVE  /\ [ft EXCEPT ![p] = "wait"] \in [Packets -> Fates]
           /\ WaitsOnce(pc2, lk) /\ FateRight([ft EXCEPT ![p] = "wait"], ex, pc2, lk)
  <1> DEFINE g == [ft EXCEPT ![p] = "wait"]
  <1>1. g \in [Packets -> Fates] /\ g[p] = "wait" /\ \A r \in Packets : r # p => g[r] = ft[r]
    BY DEF Fates
  <1> HIDE DEF g
  <1>2. WaitsOnce(pc2, lk)
    BY DEF WaitsOnce, ToSet
  <1>3. ASSUME NEW r \in Packets PROVE (g[r] = "wait") <=> (r \in DOMAIN pc2 \/ r \in ToSet(lk))
    <2>1. (ft[r] = "wait") <=> (r \in DOMAIN pc \/ r \in ToSet(lk))
      BY DEF FateRight
    <2>2. QED
      BY <1>1, <2>1
  <1>4. ASSUME NEW r \in Packets, r \in ToSet(ex) PROVE g[r] = "queue"
    BY <1>1, <1>4 DEF FateRight
  <1>5. FateRight(g, ex, pc2, lk)
    BY <1>3, <1>4 DEF FateRight
  <1>6. QED
    BY <1>1, <1>2, <1>5 DEF g

\* _ames_put_packet(): the packet is queued, or an older one or it itself goes.
LEMMA PutKeeps ==
    ASSUME AmesTypes, NEW p \in Packets, NEW pc2,
           PutPacket(p, fate), born' = born,
           WaitsOnce(pac, look), FateRight(fate, ext, pac, look), QueueRight,
           DOMAIN pc2 = DOMAIN pac \ {p}, p \notin ToSet(look), p \notin ToSet(ext)
    PROVE  /\ puts' \in Seq(Packets) /\ fate' \in [Packets -> Fates]
           /\ WaitsOnce(pc2, look) /\ FateRight(fate', ext', pc2, look) /\ QueueRight'
  <1>1. puts \in Seq(Packets) /\ puts' = Append(puts, p) /\ puts' \in Seq(Packets) /\ born \in BOOLEAN
    BY AppendProperties DEF AmesTypes, PutPacket
  <1>2. PICK k \in 0 .. Len(puts) : ext = Queue(born, puts, k) /\ Len(ext) <= QueueCap
    BY DEF QueueRight
  <1>3. ext' = CapQueue(Append(ext, p))
    BY DEF PutPacket
  <1>4. PICK j \in k .. Len(puts) + 1 : ext' = Queue(born, puts', j) /\ Len(ext') <= QueueCap
    BY <1>1, <1>2, <1>3, CapQueueFacts, SMTT(30)
  <1>5. QueueRight'
    <2>1. j \in 0 .. Len(puts')
      BY <1>1, AppendProperties
    <2>2. QED
      BY <1>4, <2>1 DEF QueueRight
  <1>6. ToSet(ext') \subseteq ToSet(ext) \cup {p}
    BY <1>1, <1>2, <1>4, QueueShrinks
  <1>7. fate' = [r \in Packets |-> IF r \in ToSet(ext) \cup {p}
                                   THEN IF r \in ToSet(ext') THEN "queue" ELSE "drop" ELSE fate[r]]
    BY DEF PutPacket
  <1>8. fate \in [Packets -> Fates] /\ fate' \in [Packets -> Fates]
    BY <1>7 DEF AmesTypes, Fates
  <1>9. WaitsOnce(pc2, look)
    BY DEF WaitsOnce
  <1>10. ASSUME NEW r \in Packets PROVE (fate'[r] = "wait") <=> (r \in DOMAIN pc2 \/ r \in ToSet(look))
    <2>1. (fate[r] = "wait") <=> (r \in DOMAIN pac \/ r \in ToSet(look))
      BY DEF FateRight
    <2>2. CASE r = p
      BY <1>7, <2>2
    <2>3. CASE r # p /\ r \in ToSet(ext)
      <3>1. fate[r] = "queue" /\ fate'[r] # "wait"
        BY <1>7, <2>3 DEF FateRight
      <3>2. QED
        BY <2>1, <2>3, <3>1
    <2>4. CASE r # p /\ r \notin ToSet(ext)
      BY <1>7, <2>1, <2>4
    <2>5. QED
      BY <2>2, <2>3, <2>4
  <1>11. ASSUME NEW r \in Packets, r \in ToSet(ext') PROVE fate'[r] = "queue"
    BY <1>6, <1>7, <1>11
  <1>12. FateRight(fate', ext', pc2, look)
    BY <1>10, <1>11 DEF FateRight
  <1>13. QED
    BY <1>1, <1>5, <1>8, <1>9, <1>12

\* What a step may do to the galaxy's address.
ImpKept == /\ imp'.ip \in Addrs \cup {"none", "sentinel"}
           /\ imp.ip \in Addrs => imp'.ip \in Addrs

\* _ames_czar_gone() keeps an address.
LEMMA CzarGoneKeeps == ASSUME CzarGone PROVE ImpKept
  <1>1. imp'.ip = IF imp.ip \in Addrs THEN imp.ip ELSE "sentinel"
    BY DEF CzarGone
  <1>2. QED
    BY <1>1 DEF ImpKept

\* A packet sent to the galaxy or to an address: it ends, or waits for the address.
LEMMA EfSendKeeps ==
    ASSUME AmesTypes, NEW p \in Packets, NEW lane, NEW pc2, EfSend(p, lane, fate),
           WaitsOnce(pac, look), FateRight(fate, ext, pac, look),
           DOMAIN pc2 = DOMAIN pac \ {p}, p \notin ToSet(look), p \notin ToSet(ext)
    PROVE  /\ look' \in Seq(Packets) /\ fate' \in [Packets -> Fates] /\ ImpKept
           /\ WaitsOnce(pc2, look') /\ FateRight(fate', ext, pc2, look')
  <1>1. fate \in [Packets -> Fates] /\ look \in Seq(Packets) /\ imp.ip \in Addrs \cup {"none", "sentinel"}
    BY DEF AmesTypes
  <1>2. ASSUME NEW f \in {"lost", "sent"}, fate' = [fate EXCEPT ![p] = f], UNCHANGED look
        PROVE  /\ look' \in Seq(Packets) /\ fate' \in [Packets -> Fates]
               /\ WaitsOnce(pc2, look') /\ FateRight(fate', ext, pc2, look')
    <2>1. f \in Fates \ {"wait"}
      BY DEF Fates
    <2>2. QED
      BY <1>1, <1>2, <2>1, FateEnds
  <1>3. UNCHANGED imp => ImpKept
    BY <1>1 DEF ImpKept
  <1>4. CASE lane = Czar
    <2>1. CzarSend(p, fate)
      BY <1>4 DEF EfSend
    <2>2. CASE \E f \in {"lost", "sent"} : fate' = [fate EXCEPT ![p] = f] /\ UNCHANGED <<imp, look>>
      BY <1>2, <1>3, <2>2
    <2>3. CASE look' = Append(look, p) /\ fate' = [fate EXCEPT ![p] = "wait"] /\ UNCHANGED imp
      BY <1>1, <1>3, <2>3, FateLooks
    <2>4. CASE CzarGone /\ fate' = [fate EXCEPT ![p] = "lost"] /\ UNCHANGED look
      BY <1>2, <2>4, CzarGoneKeeps
    <2>5. QED
      BY <2>1, <2>2, <2>3, <2>4 DEF CzarSend
  <1>5. CASE lane # Czar
    BY <1>2, <1>3, <1>5 DEF EfSend
  <1>6. QED
    BY <1>4, <1>5

\* What a packet that has not been heard, or that waits for its lane, is not.
LEMMA FreshPacket ==
    ASSUME AmesInv, alive = "up", NEW p \in Packets
    PROVE  /\ fate[p] = "none" => p \notin DOMAIN pac /\ p \notin ToSet(look) /\ p \notin ToSet(ext)
           /\ p \in DOMAIN pac => p \notin ToSet(look) /\ p \notin ToSet(ext)
  <1>1. WaitsOnce(pac, look) /\ FateRight(fate, ext, pac, look) /\ look \in Seq(Packets)
    BY DEF AmesInv, AmesTypes
  <1>2. fate[p] = "none" => p \notin DOMAIN pac /\ p \notin ToSet(look) /\ p \notin ToSet(ext)
    BY <1>1 DEF FateRight
  <1>3. p \in DOMAIN pac => fate[p] = "wait" /\ p \notin ToSet(ext)
    BY <1>1 DEF FateRight
  <1>4. p \in DOMAIN pac => p \notin ToSet(look)
    BY <1>1 DEF WaitsOnce, ToSet
  <1>5. QED
    BY <1>2, <1>3, <1>4

\* _ames_ef_send(): a packet is sent, dropped, or waits for an address.
LEMMA SendKeeps == ASSUME AmesInv, NEW p \in Packets, Send(p) PROVE AmesInv' /\ ImpKept
  <1>1. PICK lane \in Lanes : EfSend(p, lane, fate)
    BY DEF Send
  <1>2. /\ alive = "up" /\ fate[p] = "none"
        /\ UNCHANGED <<clock, ext, lax, pac, foq, saw, see, puts, born, turf, alive>>
    BY DEF Send
  <1>3. DOMAIN pac = DOMAIN pac \ {p} /\ p \notin ToSet(look) /\ p \notin ToSet(ext)
    BY <1>2, FreshPacket
  <1>4. AmesTypes /\ WaitsOnce(pac, look) /\ FateRight(fate, ext, pac, look) /\ QueueRight
    BY <1>2 DEF AmesInv
  <1>5. /\ look' \in Seq(Packets) /\ fate' \in [Packets -> Fates] /\ ImpKept
        /\ WaitsOnce(pac, look') /\ FateRight(fate', ext, pac, look')
    BY <1>1, <1>3, <1>4, EfSendKeeps
  <1>6. QueueRight'
    BY <1>2, <1>4 DEF QueueRight
  <1>7. AmesTypes'
    BY <1>2, <1>4, <1>5 DEF AmesTypes, ImpKept
  <1>8. QED
    BY <1>2, <1>5, <1>6, <1>7 DEF AmesInv

\* A step that leaves alone what the driver knows of its packets.
LEMMA AmesIdle ==
    ASSUME AmesInv, clock' \in 0 .. MaxTime, UNCHANGED <<ext, imp, look, lax, pac, foq, saw, see, puts, born, fate, alive>>
    PROVE  AmesInv' /\ ImpKept
  BY DEF AmesInv, AmesTypes, QueueRight, ImpKept

\* The driver is gone, and with it what it promised.
LEMMA AmesGone ==
    ASSUME AmesInv, alive' \in {"free", "dead"}, ImpKept,
           look' \in Seq(Packets), fate' \in [Packets -> Fates], pac' = pac \/ pac' = <<>>,
           UNCHANGED <<clock, lax, foq, saw, see, puts, born>>
    PROVE  AmesInv'
  <1>1. IsFiniteSet(DOMAIN pac') /\ DOMAIN pac' \subseteq Packets /\ pac' \in [DOMAIN pac' -> Peers]
    <2>1. CASE pac' = <<>>
      <3>1. DOMAIN pac' = {} /\ pac' \in [DOMAIN pac' -> Peers]
        BY <2>1
      <3>2. QED
        BY <3>1, FS_EmptySet
    <2>2. CASE pac' = pac
      BY <2>2 DEF AmesInv, AmesTypes
    <2>3. QED
      BY <2>1, <2>2
  <1>2. QED
    BY <1>1 DEF AmesInv, AmesTypes, ImpKept

\* The pier takes the oldest event.
LEMMA TakenKeeps == ASSUME AmesInv, Taken PROVE AmesInv' /\ ImpKept
  <1>1. /\ alive = "up" /\ ext # <<>> /\ ext' = Tail(ext) /\ born' = (born /\ Head(ext) # "born")
        /\ UNCHANGED <<clock, imp, look, lax, pac, foq, saw, see, puts, fate, alive>>
    BY DEF Taken
  <1>2. puts \in Seq(Packets) /\ born \in BOOLEAN /\ QueueRight /\ AmesTypes
    BY <1>1 DEF AmesInv, AmesTypes
  <1>3. PICK k \in 0 .. Len(puts) : ext = Queue(born, puts, k) /\ Len(ext) <= QueueCap
    BY <1>2 DEF QueueRight
  <1>4. PICK j \in 0 .. Len(puts) : ext' = Queue(born', puts, j) /\ j = IF born THEN k ELSE k + 1
    <2>1. PICK o \in 0 .. 1 : o = IF born THEN 1 ELSE 0
      OBVIOUS
    <2>2. PICK q \in Seq(Packets \cup {"born"}) : q = ext
      BY <1>2, <1>3, QueueFacts
    <2>3. PICK l \in Nat : l = Len(puts) - k
      BY <1>2
    <2>4. Len(q) = o + l /\ (born => q[1] = "born") /\ \A i \in 1 .. l : q[i + o] = puts[i + k]
      BY <1>2, <1>3, <2>1, <2>2, <2>3, QueueFacts
    <2>5. Len(q) >= 1 /\ Head(q) = q[1]
      BY <1>1, <2>2
    <2>6. ~born => q[1] \in Packets
      <3>1. SUFFICES ASSUME ~born PROVE q[1] \in Packets
        OBVIOUS
      <3>2. q[1] = puts[1 + k] /\ 1 + k \in 1 .. Len(puts)
        BY <1>2, <2>1, <2>3, <2>4, <2>5, <3>1
      <3>3. QED
        BY <1>2, <3>2
    <2>7. born' = FALSE
      BY <1>1, <1>2, <2>2, <2>4, <2>5, <2>6
    <2>8. PICK j \in 0 .. Len(puts) : j = IF born THEN k ELSE k + 1
      BY <1>2, <2>1, <2>3, <2>4, <2>5
    <2>9. Len(puts) - j = Len(q) - 1 /\ o + j = k + 1
      BY <1>2, <2>1, <2>3, <2>4, <2>8
    <2>10. /\ Queue(FALSE, puts, j) \in Seq(Packets \cup {"born"}) /\ Len(Queue(FALSE, puts, j)) = Len(puts) - j
           /\ \A i \in 1 .. Len(puts) - j : Queue(FALSE, puts, j)[i] = puts[i + j]
      <3>1. FALSE \in BOOLEAN /\ (IF FALSE THEN 1 ELSE 0) = 0
        OBVIOUS
      <3>2. /\ Queue(FALSE, puts, j) \in Seq(Packets \cup {"born"}) /\ Len(Queue(FALSE, puts, j)) = 0 + Len(puts) - j
            /\ \A i \in 1 .. Len(puts) - j : Queue(FALSE, puts, j)[i + 0] = puts[i + j]
        BY <1>2, <3>1, QueueFacts
      <3>3. ASSUME NEW i \in 1 .. Len(puts) - j PROVE Queue(FALSE, puts, j)[i] = puts[i + j]
        <4>1. i + 0 = i
          OBVIOUS
        <4>2. QED
          BY <3>2, <4>1
      <3>4. 0 + Len(puts) - j = Len(puts) - j
        BY <1>2
      <3>5. QED
        BY <3>2, <3>3, <3>4
    <2>11. PICK t \in Seq(Packets \cup {"born"}) : t = Tail(q)
      <3>1. q # <<>>
        BY <2>5
      <3>2. QED
        BY <3>1, HeadTailProperties
    <2>12. Len(t) = Len(q) - 1 /\ \A i \in 1 .. Len(q) - 1 : t[i] = q[i + 1]
      BY <2>5, <2>11
    <2>13. ASSUME NEW i \in 1 .. Len(t) PROVE t[i] = Queue(FALSE, puts, j)[i]
      <3>1. i \in 1 .. Len(q) - 1 /\ i \in 1 .. Len(puts) - j
        BY <2>9, <2>12
      <3>2. t[i] = q[i + 1] /\ Queue(FALSE, puts, j)[i] = puts[i + j]
        BY <2>10, <2>12, <3>1
      <3>3. PICK h \in 1 .. l : h = i + 1 - o
        BY <2>4, <3>1
      <3>4. h + o = i + 1 /\ h + k = i + j
        BY <2>9, <3>3
      <3>5. q[h + o] = puts[h + k]
        BY <2>4
      <3>6. QED
        BY <3>2, <3>4, <3>5
    <2>14. t = Queue(FALSE, puts, j)
      BY <2>9, <2>10, <2>12, <2>13, SeqEqual
    <2>15. QED
      BY <1>1, <2>2, <2>7, <2>8, <2>11, <2>14
  <1>5. QueueRight'
    <2>1. ext \in Seq(Packets \cup {"born"}) /\ Len(ext') <= Len(ext) /\ Len(ext) \in Nat /\ Len(ext') \in Nat /\ QueueCap \in Nat
      <3>1. ext \in Seq(Packets \cup {"born"})
        BY <1>2, <1>3, QueueFacts
      <3>2. Len(ext) \in Nat /\ Len(ext') = Len(ext) - 1 /\ Len(ext) >= 1
        BY <1>1, <3>1
      <3>3. QED
        BY <3>1, <3>2, AmesBounds
    <2>2. QED
      BY <1>1, <1>3, <1>4, <2>1, SMTT(30) DEF QueueRight
  <1>6. FateRight(fate, ext', pac, look)
    <2>1. ToSet(ext') \subseteq ToSet(ext)
      <3>1. ext \in Seq(Packets \cup {"born"})
        BY <1>2, <1>3, QueueFacts
      <3>2. \A i \in DOMAIN ext' : i + 1 \in DOMAIN ext /\ ext'[i] = ext[i + 1]
        BY <1>1, <3>1
      <3>3. QED
        BY <3>2 DEF ToSet
    <2>2. QED
      BY <1>1, <2>1 DEF AmesInv, FateRight
  <1>7. born' \in BOOLEAN
    BY <1>1, <1>2
  <1>8. AmesTypes' /\ ImpKept
    BY <1>1, <1>2, <1>7 DEF AmesTypes, ImpKept
  <1>9. QED
    BY <1>1, <1>5, <1>6, <1>8 DEF AmesInv

\* A lookup that returns leaves the others, in their order.
LEMMA RemoveAtFacts ==
    ASSUME NEW S, NEW lk \in Seq(S), NEW i \in 1 .. Len(lk)
    PROVE  /\ RemoveAt(lk, i) \in Seq(S) /\ Len(RemoveAt(lk, i)) = Len(lk) - 1
           /\ \A j \in 1 .. Len(lk) - 1 : RemoveAt(lk, i)[j] = IF j < i THEN lk[j] ELSE lk[j + 1]
  <1>1. PICK x \in Seq(S) : x = SubSeq(lk, 1, i - 1) /\ Len(x) = i - 1 /\ \A j \in 1 .. i - 1 : x[j] = lk[j]
    <2>1. i - 1 \in Nat /\ i - 1 <= Len(lk)
      OBVIOUS
    <2>2. PICK f \in Nat : f = i - 1
      BY <2>1
    <2>3. SubSeq(lk, 1, f) \in Seq(S) /\ Len(SubSeq(lk, 1, f)) = f /\ \A j \in 1 .. f : SubSeq(lk, 1, f)[j] = lk[j]
      BY <2>1, <2>2
    <2>4. QED
      BY <2>2, <2>3
  <1>2. PICK f \in Nat : f = i + 1
    OBVIOUS
  <1>3. PICK l \in Nat : l = Len(lk) - i
    OBVIOUS
  <1>4. PICK y \in Seq(S) : y = SubSeq(lk, f, Len(lk)) /\ Len(y) = l /\ \A j \in 1 .. l : y[j] = lk[j + i]
    <2>1. f >= 1 /\ f <= Len(lk) + 1 /\ Len(lk) + 1 - f = l
      BY <1>2, <1>3
    <2>2. /\ SubSeq(lk, f, Len(lk)) \in Seq(S) /\ Len(SubSeq(lk, f, Len(lk))) = Len(lk) + 1 - f
          /\ \A j \in 1 .. Len(lk) + 1 - f : SubSeq(lk, f, Len(lk))[j] = lk[j + f - 1]
      BY <2>1
    <2>3. ASSUME NEW j \in 1 .. l PROVE SubSeq(lk, f, Len(lk))[j] = lk[j + i]
      <3>1. j + f - 1 = j + i
        BY <1>2
      <3>2. SubSeq(lk, f, Len(lk))[j] = lk[j + f - 1]
        BY <2>1, <2>2
      <3>3. QED
        BY <3>1, <3>2, SMTT(30)
    <2>4. QED
      BY <2>1, <2>2, <2>3
  <1>5. PICK r \in Seq(S) : r = x \o y
    BY ConcatProperties
  <1>6. Len(r) = Len(x) + Len(y) /\ Len(r) = Len(lk) - 1
    <2>1. Len(r) = Len(x) + Len(y)
      BY <1>5, ConcatProperties
    <2>2. QED
      BY <1>1, <1>3, <1>4, <2>1
  <1>7. ASSUME NEW j \in 1 .. Len(lk) - 1 PROVE r[j] = IF j < i THEN lk[j] ELSE lk[j + 1]
    <2>1. r[j] = IF j <= Len(x) THEN x[j] ELSE y[j - Len(x)]
      <3>1. j \in 1 .. Len(x) + Len(y)
        BY <1>6
      <3>2. QED
        BY <1>5, <3>1, ConcatProperties
    <2>2. CASE j < i
      <3>1. j \in 1 .. i - 1 /\ j <= i - 1
        BY <2>2
      <3>2. QED
        BY <1>1, <2>1, <2>2, <3>1
    <2>3. CASE ~(j < i)
      <3>1. PICK h \in 1 .. l : h = j - (i - 1)
        BY <1>3, <2>3
      <3>2. ~(j <= i - 1) /\ h + i = j + 1
        BY <2>3, <3>1
      <3>3. r[j] = y[h]
        BY <1>1, <2>1, <3>1, <3>2
      <3>4. y[h] = lk[h + i]
        BY <1>4
      <3>5. QED
        BY <2>3, <3>2, <3>3, <3>4, SMTT(30)
    <2>4. QED
      BY <2>2, <2>3
  <1>8. RemoveAt(lk, i) = r
    BY <1>1, <1>2, <1>4, <1>5 DEF RemoveAt
  <1>9. QED
    BY <1>6, <1>7, <1>8

\* A packet whose lookup has returned waits no longer.
LEMMA FateFound ==
    ASSUME NEW ft \in [Packets -> Fates], NEW ex, NEW pc, NEW lk \in Seq(Packets), NEW i \in DOMAIN lk,
           NEW f \in Fates \ {"wait"}, WaitsOnce(pc, lk), FateRight(ft, ex, pc, lk)
    PROVE  /\ [ft EXCEPT ![lk[i]] = f] \in [Packets -> Fates] /\ RemoveAt(lk, i) \in Seq(Packets)
           /\ WaitsOnce(pc, RemoveAt(lk, i)) /\ FateRight([ft EXCEPT ![lk[i]] = f], ex, pc, RemoveAt(lk, i))
  <1>1. PICK p \in Packets : p = lk[i] /\ p \in ToSet(lk) /\ p \notin DOMAIN pc
    BY DEF ToSet, WaitsOnce
  <1>2. ft[p] = "wait"
    BY <1>1 DEF FateRight
  <1> DEFINE g == [ft EXCEPT ![p] = f]
  <1>3. g \in [Packets -> Fates] /\ g[p] = f /\ \A r \in Packets : r # p => g[r] = ft[r]
    OBVIOUS
  <1> HIDE DEF g
  <1>4. i \in 1 .. Len(lk) /\ DOMAIN lk = 1 .. Len(lk)
    OBVIOUS
  <1>5. PICK lk2 \in Seq(Packets) : lk2 = RemoveAt(lk, i)
    BY <1>4, RemoveAtFacts
  <1>6. /\ DOMAIN lk2 = 1 .. Len(lk) - 1
        /\ \A j \in 1 .. Len(lk) - 1 : lk2[j] = IF j < i THEN lk[j] ELSE lk[j + 1]
    <2>1. /\ Len(lk2) = Len(lk) - 1
          /\ \A j \in 1 .. Len(lk) - 1 : lk2[j] = IF j < i THEN lk[j] ELSE lk[j + 1]
      BY <1>4, <1>5, RemoveAtFacts
    <2>2. DOMAIN lk2 = 1 .. Len(lk2)
      OBVIOUS
    <2>3. QED
      BY <2>1, <2>2, SMTT(30)
  <1>7. ASSUME NEW j \in DOMAIN lk2
        PROVE  LET h == IF j < i THEN j ELSE j + 1 IN h \in DOMAIN lk /\ h # i /\ lk2[j] = lk[h]
    BY <1>4, <1>6
  <1>8. WaitsOnce(pc, lk2)
    <2>1. ASSUME NEW a \in DOMAIN lk2, NEW b \in DOMAIN lk2, lk2[a] = lk2[b] PROVE a = b
      <3>1. PICK x \in DOMAIN lk : lk2[a] = lk[x] /\ x = IF a < i THEN a ELSE a + 1
        BY <1>7
      <3>2. PICK y \in DOMAIN lk : lk2[b] = lk[y] /\ y = IF b < i THEN b ELSE b + 1
        BY <1>7
      <3>3. x = y
        BY <2>1, <3>1, <3>2 DEF WaitsOnce
      <3>4. a \in Nat /\ b \in Nat
        BY <1>6
      <3>5. QED
        BY <1>4, <3>1, <3>2, <3>3, <3>4
    <2>2. ASSUME NEW a \in DOMAIN lk2 PROVE lk2[a] \notin DOMAIN pc
      BY <1>7 DEF WaitsOnce
    <2>3. QED
      BY <2>1, <2>2 DEF WaitsOnce
  <1>9. ToSet(lk2) = ToSet(lk) \ {p}
    <2>1. ASSUME NEW j \in DOMAIN lk2 PROVE lk2[j] \in ToSet(lk) \ {p}
      <3>1. PICK h \in DOMAIN lk : h # i /\ lk2[j] = lk[h]
        BY <1>7
      <3>2. QED
        BY <1>1, <3>1 DEF WaitsOnce, ToSet
    <2>2. ASSUME NEW h \in DOMAIN lk, lk[h] # p PROVE \E j \in DOMAIN lk2 : lk2[j] = lk[h]
      <3>1. h # i
        BY <1>1, <2>2
      <3>2. CASE h < i
        <4>1. h \in 1 .. Len(lk) - 1
          BY <1>4, <3>2
        <4>2. QED
          BY <1>6, <3>2, <4>1
      <3>3. CASE h > i
        <4>1. PICK j \in 1 .. Len(lk) - 1 : j = h - 1
          BY <1>4, <3>3
        <4>2. ~(j < i) /\ j + 1 = h
          BY <1>4, <3>3, <4>1
        <4>3. QED
          BY <1>6, <4>2
      <3>4. QED
        BY <1>4, <3>1, <3>2, <3>3
    <2>3. QED
      BY <2>1, <2>2, SMTT(30) DEF ToSet
  <1>10. ASSUME NEW r \in Packets PROVE (g[r] = "wait") <=> (r \in DOMAIN pc \/ r \in ToSet(lk2))
    <2>1. (ft[r] = "wait") <=> (r \in DOMAIN pc \/ r \in ToSet(lk))
      BY DEF FateRight
    <2>2. QED
      BY <1>1, <1>3, <1>9, <2>1
  <1>11. ASSUME NEW r \in Packets, r \in ToSet(ex) PROVE g[r] = "queue"
    BY <1>2, <1>3, <1>11 DEF FateRight
  <1>12. FateRight(g, ex, pc, lk2)
    BY <1>10, <1>11 DEF FateRight
  <1>13. QED
    BY <1>1, <1>3, <1>5, <1>8, <1>12 DEF g

\* _ames_czar_cb(): a lookup returns, in any order.
LEMMA CzarCbKeeps == ASSUME AmesInv, NEW i, CzarCb(i) PROVE AmesInv' /\ ImpKept
  <1>1. /\ i \in DOMAIN look /\ look' = RemoveAt(look, i)
        /\ UNCHANGED <<clock, ext, lax, pac, foq, saw, see, puts, born, turf>>
    BY DEF CzarCb
  <1>2. AmesTypes /\ look \in Seq(Packets) /\ fate \in [Packets -> Fates]
    BY DEF AmesInv, AmesTypes
  <1>3. look' \in Seq(Packets)
    BY <1>1, <1>2, RemoveAtFacts
  <1>4. CASE alive = "free"
    <2>1. alive' = "dead" /\ UNCHANGED <<imp, fate>>
      BY <1>4 DEF CzarCb
    <2>2. ImpKept
      BY <1>2, <2>1 DEF ImpKept, AmesTypes
    <2>3. QED
      BY <1>1, <1>2, <1>3, <2>1, <2>2, AmesGone
  <1>5. CASE alive # "free"
    <2>1. PICK f \in {"sent", "lost"} : fate' = [fate EXCEPT ![look[i]] = f]
      BY <1>5 DEF CzarCb
    <2>2. alive = "up" /\ UNCHANGED alive
      BY <1>5 DEF CzarCb
    <2>3. CzarGone \/ \E a \in Addrs : imp' = [ip |-> a, wen |-> clock]
      BY <1>5 DEF CzarCb
    <2>4. ImpKept
      BY <2>3, CzarGoneKeeps DEF ImpKept
    <2>5. f \in Fates \ {"wait"}
      BY DEF Fates
    <2>6. WaitsOnce(pac, look) /\ FateRight(fate, ext, pac, look) /\ QueueRight
      BY <2>2 DEF AmesInv
    <2>7. /\ fate' \in [Packets -> Fates] /\ WaitsOnce(pac, look') /\ FateRight(fate', ext, pac, look')
      BY <1>1, <1>2, <2>1, <2>5, <2>6, FateFound
    <2>8. AmesTypes'
      BY <1>1, <1>2, <1>3, <2>2, <2>4, <2>7 DEF AmesTypes, ImpKept
    <2>9. QueueRight'
      BY <1>1, <2>6 DEF QueueRight
    <2>10. QED
      BY <1>1, <2>2, <2>4, <2>7, <2>8, <2>9 DEF AmesInv
  <1>6. QED
    BY <1>4, <1>5

\* _ames_hear(): a packet is forwarded, asked about, dropped or queued.
LEMMA HearKeeps == ASSUME AmesInv, NEW p \in Packets, Hear(p) PROVE AmesInv' /\ ImpKept
  <1>1. alive = "up" /\ fate[p] = "none" /\ UNCHANGED <<clock, born, turf, lax, saw, see>>
    BY DEF Hear
  <1>2. /\ AmesTypes /\ WaitsOnce(pac, look) /\ FateRight(fate, ext, pac, look) /\ QueueRight
        /\ foq = Cardinality(DOMAIN pac) /\ foq <= ForwardCap + 1
    BY <1>1 DEF AmesInv
  <1>3. p \notin DOMAIN pac /\ p \notin ToSet(look) /\ p \notin ToSet(ext) /\ DOMAIN pac = DOMAIN pac \ {p}
    BY <1>1, FreshPacket
  <1>4. fate \in [Packets -> Fates] /\ look \in Seq(Packets)
    BY <1>2 DEF AmesTypes
  <1>5. UNCHANGED imp => ImpKept
    BY <1>2 DEF ImpKept, AmesTypes
  <1>6. ASSUME NEW f \in {"drop", "lost"}, fate' = [fate EXCEPT ![p] = f],
               UNCHANGED <<ext, puts, imp, look, pac, foq, alive>>
        PROVE  AmesInv' /\ ImpKept
    <2>1. f \in Fates \ {"wait"}
      BY DEF Fates
    <2>2. fate' \in [Packets -> Fates] /\ FateRight(fate', ext, pac, look)
      BY <1>2, <1>3, <1>4, <1>6, <2>1, FateEnds
    <2>3. AmesTypes' /\ QueueRight'
      BY <1>1, <1>2, <1>6, <2>2 DEF AmesTypes, QueueRight
    <2>4. QED
      BY <1>1, <1>2, <1>5, <1>6, <2>2, <2>3 DEF AmesInv
  <1>7. ASSUME PutPacket(p, fate), UNCHANGED <<imp, look, pac, foq, alive>>
        PROVE  AmesInv' /\ ImpKept
    <2>1. /\ puts' \in Seq(Packets) /\ fate' \in [Packets -> Fates]
          /\ WaitsOnce(pac, look) /\ FateRight(fate', ext', pac, look) /\ QueueRight'
      BY <1>1, <1>2, <1>3, <1>7, PutKeeps
    <2>2. AmesTypes'
      BY <1>1, <1>2, <1>7, <2>1 DEF AmesTypes
    <2>3. QED
      BY <1>1, <1>2, <1>5, <1>7, <2>1, <2>2 DEF AmesInv
  <1>8. ASSUME NEW s \in Ships, s # Us, TryForward(p, s), UNCHANGED <<ext, puts>>
        PROVE  AmesInv' /\ ImpKept
    <2>1. CASE s = Czar /\ alive' = "dead" /\ UNCHANGED <<imp, look, pac, foq, fate>>
      BY <1>1, <1>4, <1>5, <1>8, <2>1, AmesGone
    <2>2. CASE fate' = [fate EXCEPT ![p] = "drop"] /\ UNCHANGED <<imp, look, pac, foq, alive>>
      BY <1>6, <1>8, <2>2
    <2>3. CASE fate' = [fate EXCEPT ![p] = "lost"] /\ UNCHANGED <<imp, look, pac, foq, alive>>
      BY <1>6, <1>8, <2>3
    <2>4. CASE Forward(p, lax[s].las) /\ UNCHANGED <<pac, foq, alive>>
      <3>1. PICK lane : EfSend(p, lane, fate)
        BY <2>4 DEF Forward
      <3>2. /\ look' \in Seq(Packets) /\ fate' \in [Packets -> Fates] /\ ImpKept
            /\ WaitsOnce(pac, look') /\ FateRight(fate', ext, pac, look')
        BY <1>2, <1>3, <3>1, EfSendKeeps
      <3>3. AmesTypes' /\ QueueRight'
        BY <1>1, <1>2, <1>8, <2>4, <3>2, SMTT(30) DEF AmesTypes, QueueRight, ImpKept
      <3>4. QED
        BY <1>1, <1>2, <1>8, <2>4, <3>2, <3>3 DEF AmesInv
    <2>5. CASE /\ s # Czar /\ foq <= ForwardCap
               /\ foq' = foq + 1 /\ pac' = [r \in DOMAIN pac \cup {p} |-> IF r = p THEN s ELSE pac[r]]
               /\ fate' = [fate EXCEPT ![p] = "wait"] /\ UNCHANGED <<imp, look, alive>>
      <3>1. s \in Peers
        BY <1>8, <2>5 DEF Ships
      <3>2. DOMAIN pac' = DOMAIN pac \cup {p} /\ pac' \in [DOMAIN pac' -> Peers] /\ DOMAIN pac' \subseteq Packets
        BY <1>2, <2>5, <3>1 DEF AmesTypes
      <3>3. IsFiniteSet(DOMAIN pac) /\ IsFiniteSet(DOMAIN pac') /\ Cardinality(DOMAIN pac') = Cardinality(DOMAIN pac) + 1
        <4>1. IsFiniteSet(DOMAIN pac)
          BY <1>2 DEF AmesTypes
        <4>2. QED
          BY <1>3, <3>2, <4>1, FS_AddElement, SMTT(30)
      <3>4. fate' \in [Packets -> Fates] /\ WaitsOnce(pac', look) /\ FateRight(fate', ext, pac', look)
        <4>1. DOMAIN pac' = DOMAIN pac \cup {p} /\ p \notin ToSet(look) /\ p \notin ToSet(ext)
          BY <1>3, <3>2
        <4>2. WaitsOnce(pac, look) /\ FateRight(fate, ext, pac, look)
          BY <1>2
        <4>3. fate' = [fate EXCEPT ![p] = "wait"]
          BY <2>5
        <4>4. QED
          BY <1>4, <4>1, <4>2, <4>3, FateScries
      <3>5. foq \in Nat /\ foq' \in Nat /\ foq' <= ForwardCap + 1
        BY <1>2, <2>5, AmesBounds, SMTT(30) DEF AmesTypes
      <3>6. AmesTypes' /\ QueueRight'
        BY <1>1, <1>2, <1>8, <2>5, <3>2, <3>3, <3>4, <3>5 DEF AmesTypes, QueueRight
      <3>7. QED
        BY <1>1, <1>2, <1>5, <1>8, <2>5, <3>3, <3>4, <3>5, <3>6 DEF AmesInv
    <2>6. QED
      BY <1>8, <2>1, <2>2, <2>3, <2>4, <2>5 DEF TryForward
  <1>9. QED
    <2>1. CASE fate' = [fate EXCEPT ![p] = "drop"] /\ UNCHANGED <<ext, puts, imp, look, pac, foq, alive>>
      BY <1>6, <2>1
    <2>2. CASE \E s \in Ships :
                  IF see /\ s # Us THEN TryForward(p, s) /\ UNCHANGED <<ext, puts>>
                  ELSE PutPacket(p, fate) /\ UNCHANGED <<imp, look, pac, foq, alive>>
      BY <1>7, <1>8, <2>2
    <2>3. QED
      BY <2>1, <2>2 DEF Hear

\* _ames_lane_scry_cb(): the answer about a lane.
LEMMA LaneScryCbKeeps == ASSUME AmesInv, NEW p \in Packets, LaneScryCb(p) PROVE AmesInv' /\ ImpKept
  <1>1. /\ alive = "up" /\ p \in DOMAIN pac /\ UNCHANGED <<clock, born, turf, alive>>
        /\ pac' = [r \in DOMAIN pac \ {p} |-> pac[r]] /\ foq' = foq - 1
    BY DEF LaneScryCb, ScryFailed, ScryDone
  <1>2. /\ AmesTypes /\ WaitsOnce(pac, look) /\ FateRight(fate, ext, pac, look) /\ QueueRight
        /\ foq = Cardinality(DOMAIN pac) /\ foq <= ForwardCap + 1
    BY <1>1 DEF AmesInv
  <1>3. p \notin ToSet(look) /\ p \notin ToSet(ext)
    BY <1>1, FreshPacket
  <1>4. fate \in [Packets -> Fates] /\ look \in Seq(Packets)
    BY <1>2 DEF AmesTypes
  <1>5. DOMAIN pac' = DOMAIN pac \ {p} /\ pac' \in [DOMAIN pac' -> Peers] /\ DOMAIN pac' \subseteq Packets
    BY <1>1, <1>2 DEF AmesTypes
  <1>6. IsFiniteSet(DOMAIN pac') /\ Cardinality(DOMAIN pac') = foq' /\ foq' \in Nat /\ foq' <= ForwardCap + 1
    <2>1. IsFiniteSet(DOMAIN pac) /\ foq \in Nat
      BY <1>2 DEF AmesTypes
    <2>2. IsFiniteSet(DOMAIN pac') /\ Cardinality(DOMAIN pac') = Cardinality(DOMAIN pac) - 1
      BY <1>1, <1>5, <2>1, FS_RemoveElement
    <2>3. Cardinality(DOMAIN pac') \in Nat
      BY <2>2, FS_CardinalityType
    <2>4. QED
      BY <1>1, <1>2, <2>1, <2>2, <2>3, AmesBounds
  <1>7. UNCHANGED imp => ImpKept
    BY <1>2 DEF ImpKept, AmesTypes
  <1>8. CASE ScryFailed(p)
    <2>1. /\ PutPacket(p, fate) /\ UNCHANGED <<lax, imp, look>>
          /\ saw' = (IF saw > ScryCap THEN saw ELSE saw + 1) /\ see' = (see /\ saw + 1 <= ScryCap)
      BY <1>8 DEF ScryFailed
    <2>2. /\ puts' \in Seq(Packets) /\ fate' \in [Packets -> Fates]
          /\ WaitsOnce(pac', look) /\ FateRight(fate', ext', pac', look) /\ QueueRight'
      BY <1>1, <1>2, <1>3, <1>5, <2>1, PutKeeps
    <2>3. saw' \in 0 .. ScryCap + 1 /\ see' \in BOOLEAN
      BY <1>2, <2>1, AmesBounds, SMTT(30) DEF AmesTypes
    <2>4. AmesTypes'
      BY <1>1, <1>2, <1>5, <1>6, <2>1, <2>2, <2>3 DEF AmesTypes
    <2>5. QED
      BY <1>1, <1>6, <1>7, <2>1, <2>2, <2>4 DEF AmesInv
  <1>9. ASSUME NEW las \in {<<>>} \cup {<<l>> : l \in Lanes}, ScryDone(p, las)
        PROVE  AmesInv' /\ ImpKept
    <2>1. /\ saw' = 0 /\ lax' = [lax EXCEPT ![pac[p]] = [las |-> las, wen |-> clock]]
          /\ UNCHANGED <<ext, puts, see>>
      BY <1>9 DEF ScryDone
    <2>2. lax' \in [Peers -> [las : LaneLists, wen : 0 .. MaxTime]]
      <3>1. pac[p] \in Peers /\ clock \in 0 .. MaxTime
        BY <1>1, <1>2 DEF AmesTypes
      <3>2. las \in LaneLists
        BY <1>9 DEF LaneLists
      <3>3. [las |-> las, wen |-> clock] \in [las : LaneLists, wen : 0 .. MaxTime]
        BY <3>1, <3>2
      <3>4. lax \in [Peers -> [las : LaneLists, wen : 0 .. MaxTime]]
        BY <1>2 DEF AmesTypes
      <3>5. QED
        BY <2>1, <3>3, <3>4
    <2>3. /\ look' \in Seq(Packets) /\ fate' \in [Packets -> Fates] /\ ImpKept
          /\ WaitsOnce(pac', look') /\ FateRight(fate', ext, pac', look')
      <3>1. CASE las = <<>>
        <4>1. fate' = [fate EXCEPT ![p] = "lost"] /\ UNCHANGED <<imp, look>>
          BY <1>9, <3>1 DEF ScryDone
        <4>2. "lost" \in Fates \ {"wait"}
          BY DEF Fates
        <4>3. QED
          BY <1>2, <1>3, <1>4, <1>5, <1>7, <4>1, <4>2, FateEnds
      <3>2. CASE las # <<>>
        <4>1. PICK lane : EfSend(p, lane, fate)
          BY <1>9, <3>2 DEF ScryDone, Forward
        <4>2. QED
          BY <1>2, <1>3, <1>5, <4>1, EfSendKeeps
      <3>3. QED
        BY <3>1, <3>2
    <2>4. QueueRight'
      BY <1>1, <1>2, <2>1 DEF QueueRight
    <2>5. AmesTypes'
      BY <1>1, <1>2, <1>5, <1>6, <2>1, <2>2, <2>3, AmesBounds, SMTT(30) DEF AmesTypes, ImpKept
    <2>6. QED
      BY <1>1, <1>6, <2>1, <2>3, <2>4, <2>5 DEF AmesInv
  <1>10. QED
    BY <1>8, <1>9 DEF LaneScryCb

\* Every step of the driver keeps its invariant, and the galaxy's address.
LEMMA AmesNextKeeps == AmesInv /\ [AmesNext]_avars => AmesInv' /\ ImpKept
  <1> SUFFICES ASSUME AmesInv, [AmesNext]_avars PROVE AmesInv' /\ ImpKept
    OBVIOUS
  <1>1. CASE UNCHANGED avars
    <2>1. clock' \in 0 .. MaxTime
      BY <1>1 DEF avars, AmesInv, AmesTypes
    <2>2. QED
      BY <1>1, <2>1, AmesIdle DEF avars
  <1>2. CASE EfTurf
    <2>1. clock' \in 0 .. MaxTime
      BY <1>2 DEF EfTurf, AmesInv, AmesTypes
    <2>2. QED
      BY <1>2, <2>1, AmesIdle DEF EfTurf
  <1>3. CASE Tick
    BY <1>3, AmesIdle DEF Tick
  <1>4. CASE AmesExit
    <2>1. ImpKept /\ look' \in Seq(Packets) /\ fate' \in [Packets -> Fates]
      BY <1>4 DEF AmesExit, AmesInv, AmesTypes, ImpKept
    <2>2. QED
      BY <1>4, <2>1, AmesGone DEF AmesExit
  <1>5. QED
    BY <1>1, <1>2, <1>3, <1>4, HearKeeps, LaneScryCbKeeps, SendKeeps, CzarCbKeeps, TakenKeeps DEF AmesNext

\* Under pressure the driver keeps %born and the newest packets, in order, and loses
\* count of none that waits, whatever is heard, forwarded, asked and answered.
THEOREM AmesUnderPressure == AmesSpec => [](AmesTypeOK /\ PressureKept)
  <1>1. AmesInit => AmesInv
    BY AmesInitInv
  <1>2. AmesInv /\ [AmesNext]_avars => AmesInv'
    BY AmesNextKeeps
  <1>3. AmesInv => AmesTypeOK /\ PressureKept
    BY AmesInvSafe
  <1>4. QED
    BY <1>1, <1>2, <1>3, PTL DEF AmesSpec

\* No order of lookups that fail and lookups that succeed loses an address.
THEOREM GalaxyAddressKept == AmesSpec => AddressKept
  <1>1. AmesInit => AmesInv
    BY AmesInitInv
  <1>2. AmesInv /\ [AmesNext]_avars => AmesInv'
    BY AmesNextKeeps
  <1>3. AmesInv /\ [AmesNext]_avars => [imp.ip \in Addrs => imp'.ip \in Addrs]_avars
    BY AmesNextKeeps DEF ImpKept
  <1>4. QED
    BY <1>1, <1>2, <1>3, PTL DEF AmesSpec, AddressKept

-----------------------------------------------------------------------------
(* The requests of the web server                                          *)

Reqs == [sat : {"init", "plan", "ripe"}, lst : {"none", "con", "seq"}, tim : BOOLEAN, gen : BOOLEAN,
         red : BOOLEAN, dun : BOOLEAN, bod : Seq(Nat), out : Seq(Nat), fly : {"none", "busy", "final"},
         kil : 0 .. 1]
Effs == [typ : {"start", "continue"}, rec : Recs, dat : Seq(Nat), complete : BOOLEAN]
Eyres == {"idle", "asked", "going", "done", "dead"}

\* %eyre has been asked, or will be.
Planned(ov, ey, r) == ey[r] # "idle" \/ \E i \in DOMAIN ov : ov[i].typ = "request" /\ ov[i].rec = r

\* The effects on their way hold the chunks of r's response after the d-th, up to the n-th.
Pending(ef, r, d, n) ==
    /\ \A i \in DOMAIN ef : ef[i].rec = r => ef[i].dat[1] > d
    /\ \A k \in d + 1 .. n : \E i \in DOMAIN ef : ef[i].rec = r /\ ef[i].dat[1] = k

\* An effect is a chunk that %eyre has said, the first one starts the response, and
\* only the last one completes it.
EffInv(e, sd, ey) ==
    /\ e.dat = <<e.dat[1]>> /\ e.dat[1] \in 1 .. Len(sd[e.rec])
    /\ (e.typ = "start") <=> (e.dat[1] = 1)
    /\ e.complete => e.dat[1] = Len(sd[e.rec]) /\ ey[e.rec] \in {"done", "dead"}

\* The effects for a request come in the order they were said.
InOrder(ef) == \A i, j \in DOMAIN ef : i < j /\ ef[i].rec = ef[j].rec => ef[i].dat[1] < ef[j].dat[1]

\* A request for %eyre waits for its answer, is timed out, or has been given the first d
\* of the n chunks that %eyre has said.
Waits(q) == q.sat = "plan" /\ q.out = <<>> /\ q.bod = <<>> /\ ~q.dun /\ q.fly = "none"

TimedOut(q) == q.sat = "ripe" /\ ~q.gen /\ q.out = <<504>> /\ ~q.dun /\ q.fly # "busy"

Served(q, e, n, d) ==
    /\ q.sat = "ripe" /\ q.gen /\ q.out \o q.bod = Parts(d)
    /\ q.dun => d = n /\ e \in {"done", "dead"}
    /\ q.fly = "final" => q.dun /\ q.bod = <<>>

\* And while h2o has it, what it lacks is on its way.
AnswerInv(q, c, e, n, ef, r) ==
    \/ Waits(q) /\ (c = "open" => Pending(ef, r, 0, n))
    \/ TimedOut(q)
    \/ \E d \in 1 .. n : Served(q, e, n, d) /\ (c = "open" => Pending(ef, r, d, n))

\* What is known of every request.
PlainInv(q, c, pk) ==
    /\ c = "new" => q = NoReq /\ ~pk
    /\ c # "open" => q.lst = "none" /\ ~q.tim /\ q.fly = "none"
    /\ c # "gone" => q.kil = IF q.sat = "ripe" /\ ~q.gen THEN 1 ELSE 0
    /\ q.sat # "ripe" => ~q.gen

\* What is known of one for %eyre.
PlannedInv(q, c, pk, e, n, ef, r) ==
    /\ c # "new" /\ ~pk /\ (c = "open" => q.lst = "con")
    /\ c = "gone" => q.kil = IF q.dun THEN 0 ELSE 1
    /\ AnswerInv(q, c, e, n, ef, r)

ReqTypes ==
    /\ rec \in [Recs -> {"new", "open", "gone"}] /\ req \in [Recs -> Reqs] /\ peek \subseteq Recs
    /\ ova \in Seq(Events) /\ eyre \in [Recs -> Eyres] /\ said \in [Recs -> Seq(Nat)]
    /\ eff \in Seq(Effs) /\ cut \in BOOLEAN /\ rend \in BOOLEAN

\* %eyre is asked once, and says its chunks in order.
SaidInv(ov, ey, sd) ==
    /\ \A i \in DOMAIN ov : ov[i].typ = "request" => ey[ov[i].rec] = "idle"
    /\ \A i, j \in DOMAIN ov :
          ov[i].typ = "request" /\ ov[j].typ = "request" /\ ov[i].rec = ov[j].rec => i = j
    /\ \A r \in Recs : /\ sd[r] = Parts(Len(sd[r]))
                       /\ ey[r] \in {"idle", "asked"} => Len(sd[r]) = 0
                       /\ ey[r] = "going" => Len(sd[r]) > 0

ReqInv ==
    /\ ReqTypes /\ SaidInv(ova, eyre, said)
    /\ InOrder(eff) /\ \A i \in DOMAIN eff : EffInv(eff[i], said, eyre)
    /\ \A r \in Recs : PlainInv(req[r], rec[r], r \in peek)
    /\ \A r \in Recs : Planned(ova, eyre, r) =>
                          PlannedInv(req[r], rec[r], r \in peek, eyre[r], Len(said[r]), eff, r)

\* The first parts of a response are a beginning of it.
LEMMA PartsPrefix == ASSUME NEW n \in Nat, NEW d \in 0 .. n PROVE IsPrefix(Parts(d), Parts(n))
  <1>1. Parts(d) \in Seq(Nat) /\ Len(Parts(d)) = d /\ Parts(n) \in Seq(Nat) /\ Len(Parts(n)) = n
    BY DEF Parts
  <1>2. \A i \in 1 .. d : Parts(d)[i] = Parts(n)[i]
    BY DEF Parts
  <1>3. SubSeq(Parts(d), 1, d) = SubSeq(Parts(n), 1, d)
    BY <1>1, <1>2
  <1>4. QED
    BY <1>1, <1>3 DEF IsPrefix

\* The invariant of the requests gives what the run checks.
LEMMA ReqInvSafe == ReqInv => ReqTypeOK /\ ResponseWhole
  <1> SUFFICES ASSUME ReqInv PROVE ReqTypeOK /\ ResponseWhole
    OBVIOUS
  <1>1. ReqTypeOK
    BY DEF ReqInv, ReqTypes, ReqTypeOK, Reqs, Eyres
  <1>2. ASSUME NEW r \in Recs, Asked(r)
        PROVE  /\ rec[r] = "gone" => req[r].kil = IF req[r].dun THEN 0 ELSE 1
               /\ \/ req[r].out = <<504>>
                  \/ /\ IsPrefix(req[r].out \o req[r].bod, said[r])
                     /\ req[r].fly = "final" => req[r].out = said[r] /\ eyre[r] # "going"
    <2>1. PICK n \in Nat : n = Len(said[r]) /\ said[r] = Parts(n)
      BY SMTT(30) DEF ReqInv, ReqTypes, SaidInv
    <2>2. PICK q \in Reqs : q = req[r]
      BY DEF ReqInv, ReqTypes
    <2>3. PlannedInv(q, rec[r], r \in peek, eyre[r], n, eff, r)
      BY <1>2, <2>1, <2>2 DEF ReqInv, Planned, Asked
    <2>4. CASE Waits(q)
      <3>1. q.out \o q.bod = Parts(0) /\ q.fly # "final"
        BY <2>4, BodyFacts DEF Waits
      <3>2. QED
        BY <2>1, <2>2, <2>3, <3>1, PartsPrefix DEF PlannedInv
    <2>5. CASE TimedOut(q)
      BY <2>2, <2>3, <2>5 DEF PlannedInv, TimedOut
    <2>6. ASSUME NEW d \in 1 .. n, Served(q, eyre[r], n, d)
          PROVE  /\ IsPrefix(q.out \o q.bod, said[r])
                 /\ q.fly = "final" => q.out = said[r] /\ eyre[r] # "going"
      <3>1. IsPrefix(q.out \o q.bod, said[r])
        BY <2>1, <2>6, PartsPrefix DEF Served
      <3>2. ASSUME q.fly = "final" PROVE q.out = said[r] /\ eyre[r] # "going"
        <4>1. q.bod = <<>> /\ d = n /\ eyre[r] \in {"done", "dead"} /\ q.out \o q.bod = Parts(n)
          BY <2>6, <3>2 DEF Served
        <4>2. q.out \in Seq(Nat)
          BY DEF Reqs
        <4>3. q.out \o q.bod = q.out
          BY <4>1, <4>2
        <4>4. QED
          BY <2>1, <4>1, <4>3
      <3>3. QED
        BY <3>1, <3>2
    <2>7. QED
      BY <2>2, <2>3, <2>4, <2>5, <2>6 DEF PlannedInv, AnswerInv
  <1>3. QED
    BY <1>1, <1>2 DEF ResponseWhole, CancelledOnce

\* The server starts, or is parked, without a request.
LEMMA ReqInitInv == ReqInit \/ ReqParked => ReqInv
  <1> SUFFICES ASSUME ReqInit \/ ReqParked PROVE ReqInv
    OBVIOUS
  <1>1. /\ rec = [r \in Recs |-> "new"] /\ req = [r \in Recs |-> NoReq] /\ peek = {} /\ ova = <<>>
        /\ eyre = [r \in Recs |-> "idle"] /\ said = [r \in Recs |-> <<>>] /\ eff = <<>>
        /\ cut \in BOOLEAN /\ rend \in BOOLEAN
    BY DEF ReqInit, ReqParked
  <1>2. NoReq \in Reqs
    BY DEF NoReq, Reqs
  <1>3. ReqTypes
    BY <1>1, <1>2 DEF ReqTypes, Eyres
  <1>4. SaidInv(ova, eyre, said)
    <2>1. \A r \in Recs : said[r] = Parts(Len(said[r])) /\ Len(said[r]) = 0
      BY <1>1, BodyFacts
    <2>2. QED
      BY <1>1, <2>1 DEF SaidInv
  <1>5. InOrder(eff) /\ \A i \in DOMAIN eff : EffInv(eff[i], said, eyre)
    BY <1>1 DEF InOrder
  <1>6. ASSUME NEW r \in Recs PROVE PlainInv(req[r], rec[r], r \in peek)
    <2>1. req[r] = NoReq /\ rec[r] = "new" /\ r \notin peek
      BY <1>1
    <2>2. /\ NoReq.lst = "none" /\ ~NoReq.tim /\ NoReq.fly = "none" /\ NoReq.kil = 0 /\ NoReq.sat = "init"
          /\ ~NoReq.gen
      BY DEF NoReq
    <2>3. QED
      BY <2>1, <2>2 DEF PlainInv
  <1>7. \A r \in Recs : ~Planned(ova, eyre, r)
    BY <1>1 DEF Planned
  <1>8. QED
    BY <1>1, <1>3, <1>4, <1>5, <1>6, <1>7 DEF ReqInv

\* Chunks on their way: the first one leaves, for another request or for this one.
LEMMA PendingTail ==
    ASSUME NEW ef \in Seq(Effs), ef # <<>>, NEW r, NEW d \in Nat, NEW n \in Nat, Pending(ef, r, d, n)
    PROVE  /\ ef[1].rec # r => Pending(Tail(ef), r, d, n)
           /\ /\ ef[1].rec = r /\ InOrder(ef) /\ ef[1].dat[1] \in 1 .. n
              => ef[1].dat[1] = d + 1 /\ Pending(Tail(ef), r, d + 1, n)
  <1>1. PICK t \in Seq(Effs) : t = Tail(ef)
    BY HeadTailProperties
  <1>2. /\ DOMAIN ef = 1 .. Len(ef) /\ Len(ef) >= 1 /\ DOMAIN t = 1 .. Len(ef) - 1
        /\ \A i \in 1 .. Len(ef) - 1 : t[i] = ef[i + 1]
    BY <1>1
  <1>3. ASSUME NEW i \in DOMAIN t PROVE i + 1 \in DOMAIN ef /\ t[i] = ef[i + 1]
    BY <1>2
  <1>4. ASSUME NEW i \in DOMAIN ef, i # 1 PROVE \E j \in DOMAIN t : t[j] = ef[i]
    <2>1. PICK j \in 1 .. Len(ef) - 1 : j = i - 1
      BY <1>2, <1>4
    <2>2. j + 1 = i
      BY <1>2, <2>1
    <2>3. QED
      BY <1>2, <2>2
  <1>5. ASSUME ef[1].rec # r PROVE Pending(t, r, d, n)
    <2>1. ASSUME NEW i \in DOMAIN t, t[i].rec = r PROVE t[i].dat[1] > d
      BY <1>3, <2>1 DEF Pending
    <2>2. ASSUME NEW k \in d + 1 .. n PROVE \E j \in DOMAIN t : t[j].rec = r /\ t[j].dat[1] = k
      <3>1. PICK i \in DOMAIN ef : ef[i].rec = r /\ ef[i].dat[1] = k
        BY DEF Pending
      <3>2. i # 1
        BY <1>5, <3>1
      <3>3. QED
        BY <1>4, <3>1, <3>2
    <2>3. QED
      BY <2>1, <2>2 DEF Pending
  <1>6. ASSUME ef[1].rec = r, InOrder(ef), ef[1].dat[1] \in 1 .. n
        PROVE  ef[1].dat[1] = d + 1 /\ Pending(t, r, d + 1, n)
    <2>1. PICK f \in 1 .. n : f = ef[1].dat[1]
      BY <1>6
    <2>2. 1 \in DOMAIN ef /\ f > d
      BY <1>2, <1>6, <2>1 DEF Pending
    <2>3. ASSUME NEW i \in DOMAIN ef, i # 1, ef[i].rec = r PROVE f < ef[i].dat[1]
      <3>1. 1 < i
        BY <1>2, <2>3
      <3>2. QED
        BY <1>6, <2>1, <2>2, <2>3, <3>1 DEF InOrder
    <2>4. f = d + 1
      <3>1. d + 1 \in d + 1 .. n
        BY <2>2
      <3>2. PICK i \in DOMAIN ef : ef[i].rec = r /\ ef[i].dat[1] = d + 1
        BY <3>1 DEF Pending
      <3>3. CASE i = 1
        BY <2>1, <3>2, <3>3
      <3>4. CASE i # 1
        <4>1. f < d + 1
          BY <2>3, <3>2, <3>4
        <4>2. QED
          BY <2>2, <4>1
      <3>5. QED
        BY <3>3, <3>4
    <2>5. ASSUME NEW i \in DOMAIN t, t[i].rec = r PROVE t[i].dat[1] > d + 1
      <3>1. i + 1 \in DOMAIN ef /\ t[i] = ef[i + 1] /\ i + 1 # 1
        BY <1>2, <1>3
      <3>2. f < t[i].dat[1]
        BY <2>3, <2>5, <3>1
      <3>3. QED
        BY <2>4, <3>2
    <2>6. ASSUME NEW k \in d + 1 + 1 .. n PROVE \E j \in DOMAIN t : t[j].rec = r /\ t[j].dat[1] = k
      <3>1. k \in d + 1 .. n /\ k # f
        BY <2>4
      <3>2. PICK i \in DOMAIN ef : ef[i].rec = r /\ ef[i].dat[1] = k
        BY <3>1 DEF Pending
      <3>3. i # 1
        BY <2>1, <3>1, <3>2
      <3>4. QED
        BY <1>4, <3>2, <3>3
    <2>7. QED
      BY <2>1, <2>4, <2>5, <2>6 DEF Pending
  <1>7. QED
    BY <1>1, <1>5, <1>6

\* A chunk is said, of another request or of this one.
LEMMA PendingAppend ==
    ASSUME NEW ef \in Seq(Effs), NEW e \in Effs, NEW r, NEW d \in Nat, NEW n \in Nat, d <= n,
           Pending(ef, r, d, n)
    PROVE  /\ e.rec # r => Pending(Append(ef, e), r, d, n)
           /\ e.rec = r /\ e.dat[1] = n + 1 => Pending(Append(ef, e), r, d, n + 1)
  <1>1. PICK t \in Seq(Effs) : t = Append(ef, e)
    BY AppendProperties
  <1>2. /\ DOMAIN ef = 1 .. Len(ef) /\ DOMAIN t = 1 .. Len(ef) + 1 /\ t[Len(ef) + 1] = e
        /\ \A i \in 1 .. Len(ef) : t[i] = ef[i]
    BY <1>1, AppendProperties
  <1>3. ASSUME NEW i \in DOMAIN t PROVE (i \in DOMAIN ef /\ t[i] = ef[i]) \/ t[i] = e
    BY <1>2
  <1>4. ASSUME NEW i \in DOMAIN ef PROVE i \in DOMAIN t /\ t[i] = ef[i]
    BY <1>2
  <1>5. ASSUME e.rec # r PROVE Pending(t, r, d, n)
    <2>1. ASSUME NEW i \in DOMAIN t, t[i].rec = r PROVE t[i].dat[1] > d
      BY <1>3, <1>5, <2>1 DEF Pending
    <2>2. ASSUME NEW k \in d + 1 .. n PROVE \E j \in DOMAIN t : t[j].rec = r /\ t[j].dat[1] = k
      BY <1>4 DEF Pending
    <2>3. QED
      BY <2>1, <2>2 DEF Pending
  <1>6. ASSUME e.rec = r, e.dat[1] = n + 1 PROVE Pending(t, r, d, n + 1)
    <2>1. ASSUME NEW i \in DOMAIN t, t[i].rec = r PROVE t[i].dat[1] > d
      <3>1. CASE i \in DOMAIN ef /\ t[i] = ef[i]
        BY <2>1, <3>1 DEF Pending
      <3>2. CASE t[i] = e
        BY <1>6, <3>2
      <3>3. QED
        BY <1>3, <3>1, <3>2
    <2>2. ASSUME NEW k \in d + 1 .. n + 1 PROVE \E j \in DOMAIN t : t[j].rec = r /\ t[j].dat[1] = k
      <3>1. CASE k = n + 1
        <4>1. Len(ef) + 1 \in DOMAIN t
          BY <1>2
        <4>2. QED
          BY <1>2, <1>6, <3>1, <4>1
      <3>2. CASE k # n + 1
        <4>1. k \in d + 1 .. n
          BY <3>2
        <4>2. QED
          BY <1>4, <4>1 DEF Pending
      <3>3. QED
        BY <3>1, <3>2
    <2>3. QED
      BY <2>1, <2>2 DEF Pending
  <1>7. QED
    BY <1>1, <1>5, <1>6

\* _http_hgen_send(): what it changes.
LEMMA HgenFacts ==
    ASSUME NEW q \in Reqs
    PROVE  \E s \in Reqs :
               /\ s = HgenSend(q) /\ s.sat = q.sat /\ s.lst = q.lst /\ s.gen = q.gen /\ s.dun = q.dun
               /\ s.kil = q.kil /\ s.out = q.out \o q.bod /\ s.bod = <<>>
               /\ s.fly = IF q.dun THEN "final" ELSE "busy"
  <1>1. q.out \o q.bod \in Seq(Nat) /\ <<>> \in Seq(Nat)
    BY DEF Reqs
  <1>2. PICK o \in Seq(Nat) : o = q.out \o q.bod
    BY <1>1
  <1>3. PICK f \in {"none", "busy", "final"} : f = IF q.dun THEN "final" ELSE "busy"
    OBVIOUS
  <1>4. PICK t \in BOOLEAN : t = (~q.dun \/ q.tim)
    OBVIOUS
  <1>5. HgenSend(q) = [q EXCEPT !.red = FALSE, !.out = o, !.bod = <<>>, !.fly = f, !.tim = t]
    BY <1>2, <1>3, <1>4 DEF HgenSend
  <1>6. PICK s : s = [q EXCEPT !.red = FALSE, !.out = o, !.bod = <<>>, !.fly = f, !.tim = t]
    OBVIOUS
  <1>7. /\ s \in Reqs /\ s.sat = q.sat /\ s.lst = q.lst /\ s.gen = q.gen /\ s.dun = q.dun
        /\ s.kil = q.kil /\ s.out = o /\ s.bod = <<>> /\ s.fly = f
    BY <1>1, <1>6 DEF Reqs
  <1>8. QED
    BY <1>2, <1>3, <1>5, <1>6, <1>7

\* _http_start_respond() of a request that waits.
LEMMA StartFacts ==
    ASSUME NEW q \in Reqs, q.sat = "plan", NEW data \in Seq(Nat), NEW complete \in BOOLEAN
    PROVE  \E s \in Reqs :
               /\ s = StartRespond(q, data, complete) /\ s.sat = "ripe" /\ s.lst = q.lst /\ s.gen /\ s.dun = complete
               /\ s.kil = q.kil /\ s.out = q.out \o data /\ s.bod = <<>> /\ (s.fly = "final" => s.dun)
  <1>1. PICK p : p = [q EXCEPT !.sat = "ripe", !.tim = FALSE, !.gen = TRUE, !.red = TRUE,
                              !.dun = complete, !.bod = data]
    OBVIOUS
  <1>2. /\ p \in Reqs /\ p.sat = "ripe" /\ p.lst = q.lst /\ p.gen /\ p.dun = complete /\ p.kil = q.kil
        /\ p.out = q.out /\ p.bod = data
    BY <1>1, ZenonT(60) DEF Reqs
  <1>3. StartRespond(q, data, complete) = HgenSend(p)
    BY <1>1 DEF StartRespond
  <1>4. PICK s \in Reqs : /\ s = HgenSend(p) /\ s.sat = p.sat /\ s.lst = p.lst /\ s.gen = p.gen
                          /\ s.dun = p.dun /\ s.kil = p.kil /\ s.out = p.out \o p.bod /\ s.bod = <<>>
                          /\ s.fly = IF p.dun THEN "final" ELSE "busy"
    BY <1>2, HgenFacts
  <1>5. QED
    BY <1>2, <1>3, <1>4, ZenonT(60)

\* _http_continue_respond(): nothing is lost, whether h2o is busy or not.
LEMMA ContinueFacts ==
    ASSUME NEW q \in Reqs, NEW data \in Seq(Nat), NEW complete \in BOOLEAN
    PROVE  \E s \in Reqs :
               /\ s = ContinueRespond(q, data, complete) /\ s.sat = q.sat /\ s.lst = q.lst /\ s.gen = q.gen /\ s.kil = q.kil
               /\ q.sat = "ripe" => /\ s.dun = complete
                                    /\ s.out \o s.bod = (q.out \o q.bod) \o data
                                    /\ s.fly = "final" => q.fly = "final" \/ (complete /\ s.bod = <<>>)
  <1>1. CASE q.sat # "ripe"
    BY <1>1 DEF ContinueRespond
  <1>2. CASE q.sat = "ripe"
    <2>1. q.bod \in Seq(Nat) /\ q.out \in Seq(Nat) /\ q.red \in BOOLEAN
      BY DEF Reqs
    <2>2. PICK b \in Seq(Nat) : b = q.bod \o data
      BY <2>1, ConcatProperties
    <2>3. PICK p : p = [q EXCEPT !.tim = FALSE, !.dun = complete, !.bod = b]
      OBVIOUS
    <2>4. /\ p \in Reqs /\ p.sat = q.sat /\ p.lst = q.lst /\ p.gen = q.gen /\ p.dun = complete
          /\ p.kil = q.kil /\ p.out = q.out /\ p.bod = b /\ p.fly = q.fly
      BY <2>3 DEF Reqs
    <2>5. ContinueRespond(q, data, complete) = IF q.red THEN HgenSend(p) ELSE p
      BY <1>2, <2>2, <2>3 DEF ContinueRespond
    <2>6. q.out \o b = (q.out \o q.bod) \o data
      <3>1. \A x, y, z \in Seq(Nat) : (x \o y) \o z = x \o (y \o z)
        BY ONLY ConcatAssociative, SMTT(120)
      <3>2. QED
        BY <2>1, <2>2, <3>1, ZenonT(60)
    <2>7. CASE q.red
      <3>1. PICK s \in Reqs : /\ s = HgenSend(p) /\ s.sat = p.sat /\ s.lst = p.lst /\ s.gen = p.gen
                              /\ s.dun = p.dun /\ s.kil = p.kil /\ s.out = p.out \o p.bod /\ s.bod = <<>>
                              /\ s.fly = IF p.dun THEN "final" ELSE "busy"
        BY <2>4, HgenFacts
      <3>2. q.out \o b \in Seq(Nat)
        BY <2>1, ConcatProperties
      <3>3. s.out \o s.bod = q.out \o b
        BY <2>4, <3>1, <3>2
      <3>4. QED
        BY <2>4, <2>5, <2>6, <2>7, <3>1, <3>3, ZenonT(60)
    <2>8. CASE ~q.red
      BY <2>4, <2>5, <2>6, <2>8
    <2>9. QED
      BY <2>7, <2>8
  <1>3. QED
    BY <1>1, <1>2

\* A cancel on its way to %eyre asks nothing of it.
LEMMA CancelPlanned ==
    ASSUME ReqTypes, NEW r \in Recs
    PROVE  /\ Append(ova, Kill(r)) \in Seq(Events)
           /\ \A m \in Recs : Planned(Append(ova, Kill(r)), eyre, m) <=> Planned(ova, eyre, m)
           /\ SaidInv(ova, eyre, said) => SaidInv(Append(ova, Kill(r)), eyre, said)
  <1>1. ova \in Seq(Events) /\ Kill(r) \in Events /\ Kill(r).typ = "cancel"
    BY DEF ReqTypes, Events, Kill
  <1>2. PICK ov \in Seq(Events) : ov = Append(ova, Kill(r))
    BY <1>1, AppendProperties
  <1>3. /\ DOMAIN ova = 1 .. Len(ova) /\ DOMAIN ov = 1 .. Len(ova) + 1 /\ ov[Len(ova) + 1] = Kill(r)
        /\ \A i \in 1 .. Len(ova) : ov[i] = ova[i]
    BY <1>1, <1>2, AppendProperties
  <1>4. ASSUME NEW i \in DOMAIN ov, ov[i].typ = "request" PROVE i \in DOMAIN ova /\ ov[i] = ova[i]
    BY <1>1, <1>3, <1>4
  <1>5. ASSUME NEW i \in DOMAIN ova PROVE i \in DOMAIN ov /\ ov[i] = ova[i]
    BY <1>3
  <1>6. \A m \in Recs : Planned(ov, eyre, m) <=> Planned(ova, eyre, m)
    BY <1>4, <1>5 DEF Planned
  <1>7. SaidInv(ova, eyre, said) => SaidInv(ov, eyre, said)
    BY <1>4 DEF SaidInv
  <1>8. QED
    BY <1>2, <1>6, <1>7

\* A step that changes one request only, and perhaps tells %eyre that it is cancelled,
\* keeps the invariant if it keeps it for that one.
LEMMA ReqOne ==
    ASSUME ReqInv, NEW r \in Recs, NEW q \in Reqs, NEW c \in {"new", "open", "gone"},
           req' = [req EXCEPT ![r] = q], rec' = [rec EXCEPT ![r] = c],
           peek' \subseteq Recs, \A m \in Recs : m # r => (m \in peek' <=> m \in peek),
           ova' = ova \/ ova' = Append(ova, Kill(r)), UNCHANGED <<eyre, said, eff>>,
           cut' \in BOOLEAN, rend' \in BOOLEAN,
           PlainInv(q, c, r \in peek'),
           Planned(ova, eyre, r) => PlannedInv(q, c, r \in peek', eyre[r], Len(said[r]), eff, r)
    PROVE  ReqInv'
  <1>1. ReqTypes /\ SaidInv(ova, eyre, said)
    BY DEF ReqInv
  <1>2. /\ ova' \in Seq(Events) /\ SaidInv(ova', eyre, said)
        /\ \A m \in Recs : Planned(ova', eyre, m) <=> Planned(ova, eyre, m)
    <2>1. CASE ova' = ova
      BY <1>1, <2>1 DEF ReqTypes
    <2>2. CASE ova' = Append(ova, Kill(r))
      BY <1>1, <2>2, CancelPlanned
    <2>3. QED
      BY <2>1, <2>2
  <1>3. ReqTypes'
    BY <1>1, <1>2 DEF ReqTypes
  <1>4. ASSUME NEW m \in Recs
        PROVE  /\ PlainInv(req'[m], rec'[m], m \in peek')
               /\ Planned(ova', eyre, m) =>
                     PlannedInv(req'[m], rec'[m], m \in peek', eyre[m], Len(said[m]), eff, m)
    <2>1. CASE m = r
      <3>1. req'[m] = q /\ rec'[m] = c
        BY <1>1, <2>1 DEF ReqTypes
      <3>2. QED
        BY <1>2, <2>1, <3>1
    <2>2. CASE m # r
      <3>1. req'[m] = req[m] /\ rec'[m] = rec[m] /\ (m \in peek') = (m \in peek)
        BY <1>1, <2>2 DEF ReqTypes
      <3>2. /\ PlainInv(req[m], rec[m], m \in peek)
            /\ Planned(ova, eyre, m) =>
                  PlannedInv(req[m], rec[m], m \in peek, eyre[m], Len(said[m]), eff, m)
        BY DEF ReqInv
      <3>3. QED
        BY <1>2, <3>1, <3>2
    <2>3. QED
      BY <2>1, <2>2
  <1>5. InOrder(eff) /\ \A i \in DOMAIN eff : EffInv(eff[i], said, eyre)
    BY DEF ReqInv
  <1>6. QED
    BY <1>2, <1>3, <1>4, <1>5 DEF ReqInv

\* What is known of a request, read from the invariant.
LEMMA ReqAt ==
    ASSUME ReqInv, NEW r \in Recs
    PROVE  /\ req[r] \in Reqs /\ rec[r] \in {"new", "open", "gone"} /\ rec = [rec EXCEPT ![r] = rec[r]]
           /\ req = [req EXCEPT ![r] = req[r]]
           /\ PlainInv(req[r], rec[r], r \in peek) /\ peek \subseteq Recs
           /\ cut \in BOOLEAN /\ rend \in BOOLEAN /\ Len(said[r]) \in Nat /\ said[r] \in Seq(Nat)
           /\ Planned(ova, eyre, r) =>
                 PlannedInv(req[r], rec[r], r \in peek, eyre[r], Len(said[r]), eff, r)
  BY DEF ReqInv, ReqTypes

\* A request that is new is not for %eyre yet.
LEMMA NewUnplanned == ASSUME ReqInv, NEW r \in Recs, rec[r] = "new" PROVE ~Planned(ova, eyre, r) /\ req[r] = NoReq
  BY ReqAt DEF PlannedInv, PlainInv

\* A request that h2o answers by itself, and one that is prepared.
LEMMA ErrorFacts ==
    ASSUME NEW q \in Reqs, NEW code \in Nat
    PROVE  \E s \in Reqs : /\ s = SendError(q, code) /\ s.sat = q.sat /\ s.lst = q.lst /\ s.gen = q.gen
                           /\ s.dun = q.dun /\ s.kil = q.kil /\ s.out = <<code>> /\ s.fly = "final"
                           /\ s.tim = q.tim
  <1>1. <<code>> \in Seq(Nat)
    OBVIOUS
  <1>2. PICK s : s = [q EXCEPT !.out = <<code>>, !.fly = "final"]
    OBVIOUS
  <1>3. /\ s \in Reqs /\ s.sat = q.sat /\ s.lst = q.lst /\ s.gen = q.gen
        /\ s.dun = q.dun /\ s.kil = q.kil /\ s.out = <<code>> /\ s.fly = "final" /\ s.tim = q.tim
    BY <1>1, <1>2 DEF Reqs
  <1>4. QED
    BY <1>2, <1>3 DEF SendError

\* _http_req_prepare(): what a request is when it is planned.
LEMMA PrepareFacts ==
    ASSUME NEW lst \in {"con", "seq"}
    PROVE  \E p \in Reqs : /\ p = Prepare(lst) /\ p.sat = "plan" /\ p.lst = lst /\ p.kil = 0 /\ ~p.dun
                           /\ p.out = <<>> /\ p.bod = <<>> /\ p.fly = "none" /\ ~p.gen
  <1>1. NoReq \in Reqs /\ NoReq.kil = 0 /\ ~NoReq.dun /\ NoReq.out = <<>> /\ NoReq.bod = <<>>
        /\ NoReq.fly = "none" /\ ~NoReq.gen
    BY DEF NoReq, Reqs
  <1>2. PICK p : p = [NoReq EXCEPT !.lst = lst, !.tim = TRUE, !.sat = "plan"]
    OBVIOUS
  <1>3. /\ p \in Reqs /\ p.sat = "plan" /\ p.lst = lst /\ p.kil = NoReq.kil /\ p.dun = NoReq.dun
        /\ p.out = NoReq.out /\ p.bod = NoReq.bod /\ p.fly = NoReq.fly /\ p.gen = NoReq.gen
    BY <1>1, <1>2 DEF Reqs
  <1>4. QED
    BY <1>1, <1>2, <1>3 DEF Prepare

\* A request that is answered at once: forbidden, or a log stream.
LEMMA AtOnceFacts ==
    ASSUME NEW lst \in {"con", "seq"}, NEW data \in Seq(Nat), NEW complete \in BOOLEAN
    PROVE  \E s \in Reqs : /\ s = StartRespond(Prepare(lst), data, complete)
                           /\ s.sat = "ripe" /\ s.gen /\ s.kil = 0
  <1>1. PICK p \in Reqs : p = Prepare(lst) /\ p.sat = "plan" /\ p.kil = 0
    BY PrepareFacts
  <1>2. QED
    BY <1>1, StartFacts

\* _http_sat_accept(): h2o answers, %eyre is never asked.
LEMMA SatAcceptKeeps == ASSUME ReqInv, NEW r \in Recs, SatAccept(r) PROVE ReqInv'
  <1>1. PICK code \in Nat : req' = [req EXCEPT ![r] = SendError(@, code)]
    <2>1. PICK code \in {204, 429} : req' = [req EXCEPT ![r] = SendError(@, code)]
      BY DEF SatAccept
    <2>2. code \in Nat
      OBVIOUS
    <2>3. QED
      BY <2>1, <2>2, ZenonT(60)
  <1>2. /\ rec[r] = "new" /\ rec' = [rec EXCEPT ![r] = "open"]
        /\ UNCHANGED <<peek, ova, eyre, said, eff, rend, cut>>
    BY DEF SatAccept
  <1>3. NoReq \in Reqs /\ NoReq.kil = 0 /\ NoReq.sat = "init" /\ ~NoReq.gen
    BY DEF NoReq, Reqs
  <1>4. PICK s \in Reqs : s = SendError(req[r], code) /\ s.sat = "init" /\ s.kil = 0 /\ ~s.gen
    <2>1. req[r] = NoReq
      BY <1>2, NewUnplanned
    <2>2. code \in Nat
      OBVIOUS
    <2>3. PICK s \in Reqs : /\ s = SendError(NoReq, code) /\ s.sat = NoReq.sat
                            /\ s.gen = NoReq.gen /\ s.kil = NoReq.kil
      BY <1>3, <2>2, ErrorFacts, ZenonT(60)
    <2>4. QED
      BY <1>3, <2>1, <2>3
  <1>5. req' = [req EXCEPT ![r] = s]
    BY <1>1, <1>4, ReqAt
  <1>6. PlainInv(s, "open", r \in peek')
    BY <1>4 DEF PlainInv
  <1>7. QED
    BY <1>2, <1>4, <1>5, <1>6, NewUnplanned, ReqAt, ReqOne

\* _http_seq_accept(): %eyre is not asked of a log stream.
LEMMA SeqAcceptKeeps == ASSUME ReqInv, NEW r \in Recs, SeqAccept(r) PROVE ReqInv'
  <1>1. rec[r] = "new" /\ rec' = [rec EXCEPT ![r] = "open"] /\ UNCHANGED <<ova, eyre, said, eff, rend, cut>>
    BY DEF SeqAccept
  <1>2. ~Planned(ova, eyre, r) /\ req[r] = NoReq
    BY <1>1, NewUnplanned
  <1>3. CASE req' = [req EXCEPT ![r] = StartRespond(Prepare("con"), <<403>>, TRUE)] /\ UNCHANGED peek
    <2>1. <<403>> \in Seq(Nat)
      OBVIOUS
    <2>2. PICK s \in Reqs : /\ s = StartRespond(Prepare("con"), <<403>>, TRUE)
                            /\ s.sat = "ripe" /\ s.gen /\ s.kil = 0
      BY <2>1, AtOnceFacts, ZenonT(60)
    <2>3. PlainInv(s, "open", r \in peek')
      BY <2>2, ZenonT(60) DEF PlainInv
    <2>4. req' = [req EXCEPT ![r] = s] /\ peek' \subseteq Recs /\ cut' \in BOOLEAN /\ rend' \in BOOLEAN
      BY <1>1, <1>3, <2>2, ReqAt
    <2>5. QED
      BY <1>1, <1>2, <1>3, <2>3, <2>4, ReqOne, ZenonT(60)
  <1>4. CASE peek' = peek \cup {r} /\ UNCHANGED req
    <2>1. NoReq \in Reqs /\ NoReq.kil = 0 /\ NoReq.sat = "init" /\ ~NoReq.gen
      BY DEF NoReq, Reqs
    <2>2. PlainInv(NoReq, "open", r \in peek')
      BY <2>1 DEF PlainInv
    <2>3. req' = [req EXCEPT ![r] = NoReq]
      BY <1>2, <1>4, ReqAt
    <2>4. QED
      BY <1>1, <1>2, <1>4, <2>1, <2>2, <2>3, ReqAt, ReqOne, ZenonT(60)
  <1>5. QED
    BY <1>3, <1>4 DEF SeqAccept

\* _http_seq_continue(): the scry returns, to a client that is there or gone.
LEMMA SeqContinueKeeps == ASSUME ReqInv, NEW r \in Recs, SeqContinue(r) PROVE ReqInv'
  <1>1. r \in peek /\ peek' = peek \ {r} /\ UNCHANGED <<rec, ova, eyre, said, eff, rend>> /\ cut' \in BOOLEAN
    <2>1. r \in peek /\ peek' = peek \ {r} /\ UNCHANGED <<rec, ova, eyre, said, eff, rend>>
      BY DEF SeqContinue
    <2>2. cut' = TRUE \/ cut' = cut
      BY DEF SeqContinue
    <2>3. QED
      BY <2>1, <2>2, ReqAt
  <1>2. ~Planned(ova, eyre, r) /\ rec[r] # "new"
    BY <1>1, ReqAt DEF PlannedInv, PlainInv
  <1>3. CASE rec[r] = "gone"
    <2>1. UNCHANGED req
      BY <1>3 DEF SeqContinue
    <2>2. PlainInv(req[r], rec[r], r \in peek')
      BY <1>1, ReqAt DEF PlainInv
    <2>3. QED
      BY <1>1, <1>2, <2>1, <2>2, ReqAt, ReqOne
  <1>4. CASE rec[r] # "gone"
    <2>1. PICK s \in Reqs : req' = [req EXCEPT ![r] = s] /\ s.sat = "ripe" /\ s.gen /\ s.kil = 0
      <3>1. <<>> \in Seq(Nat) /\ \A code \in Nat : <<code>> \in Seq(Nat)
        OBVIOUS
      <3>2. CASE req' = [req EXCEPT ![r] = StartRespond(Prepare("seq"), <<>>, FALSE)]
        BY <3>1, <3>2, AtOnceFacts
      <3>3. ASSUME NEW code \in Nat,
                   req' = [req EXCEPT ![r] = StartRespond(Prepare("con"), <<code>>, TRUE)]
            PROVE  \E s \in Reqs : req' = [req EXCEPT ![r] = s] /\ s.sat = "ripe" /\ s.gen /\ s.kil = 0
        <4>1. <<code>> \in Seq(Nat)
          BY <3>1
        <4>2. PICK s \in Reqs : /\ s = StartRespond(Prepare("con"), <<code>>, TRUE)
                                /\ s.sat = "ripe" /\ s.gen /\ s.kil = 0
          BY <4>1, AtOnceFacts, ZenonT(60)
        <4>3. QED
          BY <3>3, <4>2, ZenonT(60)
      <3>4. CASE \E code \in {403, 500} :
                   req' = [req EXCEPT ![r] = StartRespond(Prepare("con"), <<code>>, TRUE)]
        <4> DEFINE Answered(code) ==
              req' = [req EXCEPT ![r] = StartRespond(Prepare("con"), <<code>>, TRUE)]
        <4>1. \E code \in {403, 500} : Answered(code)
          BY <3>4
        <4> HIDE DEF Answered
        <4>2. PICK code \in Nat : Answered(code)
          BY <4>1
        <4>3. QED
          BY <3>3, <4>2, ZenonT(60) DEF Answered
      <3>5. QED
        BY <1>4, <3>2, <3>4, ZenonT(60) DEF SeqContinue
    <2>2. rec[r] = "open" /\ rec' = [rec EXCEPT ![r] = "open"]
      BY <1>1, <1>2, <1>4, ReqAt
    <2>3. PlainInv(s, "open", r \in peek')
      BY <2>1 DEF PlainInv
    <2>4. QED
      BY <1>1, <1>2, <2>1, <2>2, <2>3, ReqAt, ReqOne
  <1>5. QED
    BY <1>3, <1>4

\* A request that has an answer to %eyre's side in one of the three ways.
LEMMA AnswerCases ==
    ASSUME ReqInv, NEW r \in Recs, Planned(ova, eyre, r)
    PROVE  \/ Waits(req[r]) /\ (rec[r] = "open" => Pending(eff, r, 0, Len(said[r])))
           \/ TimedOut(req[r])
           \/ \E d \in 1 .. Len(said[r]) : /\ Served(req[r], eyre[r], Len(said[r]), d)
                                           /\ rec[r] = "open" => Pending(eff, r, d, Len(said[r]))
  BY ReqAt DEF PlannedInv, AnswerInv

\* _http_req_timer_cb(): what is still planned is cancelled and answered.
LEMMA TimerCbKeeps == ASSUME ReqInv, NEW r \in Recs, TimerCb(r) PROVE ReqInv'
  <1>1. req[r].tim /\ UNCHANGED <<rec, peek, eyre, said, eff, rend, cut>>
    BY DEF TimerCb
  <1>2. rec[r] = "open"
    BY <1>1, ReqAt DEF PlainInv
  <1>3. PICK q \in Reqs : q = req[r]
    BY ReqAt
  <1>4. PlainInv(q, "open", r \in peek) /\ q.kil = IF q.sat = "ripe" /\ ~q.gen THEN 1 ELSE 0
    BY <1>2, <1>3, ReqAt DEF PlainInv
  <1>5. CASE q.sat = "plan"
    <2>1. PICK p : p = [q EXCEPT !.tim = FALSE, !.sat = "ripe", !.kil = 1]
      OBVIOUS
    <2>2. p \in Reqs /\ p.sat = "ripe" /\ p.gen = q.gen /\ p.dun = q.dun /\ p.kil = 1 /\ p.lst = q.lst
      <3>1. 1 \in 0 .. 1 /\ "ripe" \in {"init", "plan", "ripe"}
        OBVIOUS
      <3>2. q \in [sat : {"init", "plan", "ripe"}, lst : {"none", "con", "seq"}, tim : BOOLEAN, gen : BOOLEAN,
                    red : BOOLEAN, dun : BOOLEAN, bod : Seq(Nat), out : Seq(Nat), fly : {"none", "busy", "final"},
                    kil : 0 .. 1]
        BY DEF Reqs
      <3>3. p.sat = "ripe" /\ p.gen = q.gen /\ p.dun = q.dun /\ p.kil = 1 /\ p.lst = q.lst
        BY <2>1, <3>2
      <3>4. p \in Reqs
        BY <2>1, <3>1, <3>2 DEF Reqs
      <3>5. QED
        BY <3>3, <3>4
    <2>3. 504 \in Nat
      OBVIOUS
    <2>4. PICK s \in Reqs : /\ s = SendError(p, 504) /\ s.sat = p.sat /\ s.lst = p.lst /\ s.gen = p.gen
                            /\ s.dun = p.dun /\ s.kil = p.kil /\ s.out = <<504>> /\ s.fly = "final"
      BY <2>2, <2>3, ErrorFacts
    <2>5. req' = [req EXCEPT ![r] = s] /\ ova' = Append(ova, Kill(r))
      <3>1. q.kil = 0 /\ [q EXCEPT !.tim = FALSE, !.sat = "ripe", !.kil = @ + 1] = p
        BY <1>4, <1>5, <2>1
      <3>2. /\ req' = [req EXCEPT ![r] = SendError([req[r] EXCEPT !.tim = FALSE, !.sat = "ripe", !.kil = @ + 1], 504)]
            /\ ova' = Append(ova, Kill(r))
        BY <1>3, <1>5 DEF TimerCb
      <3>3. QED
        BY <1>3, <2>4, <3>1, <3>2, ReqAt, ZenonT(60)
    <2>6. ~s.gen /\ PlainInv(s, "open", r \in peek)
      BY <1>4, <1>5, <2>2, <2>4 DEF PlainInv
    <2>7. ASSUME Planned(ova, eyre, r) PROVE PlannedInv(s, "open", r \in peek, eyre[r], Len(said[r]), eff, r)
      <3>1. Waits(q) /\ q.lst = "con" /\ r \notin peek
        BY <1>2, <1>3, <1>5, <2>7, AnswerCases, ReqAt DEF PlannedInv, TimedOut, Served
      <3>2. TimedOut(s)
        BY <2>2, <2>4, <2>6, <3>1 DEF TimedOut, Waits
      <3>3. QED
        BY <2>2, <2>4, <3>1, <3>2 DEF PlannedInv, AnswerInv
    <2>8. rec' = [rec EXCEPT ![r] = "open"] /\ peek' \subseteq Recs /\ cut' \in BOOLEAN /\ rend' \in BOOLEAN
      BY <1>1, <1>2, ReqAt
    <2>9. QED
      BY <1>1, <2>5, <2>6, <2>7, <2>8, ReqOne
  <1>6. CASE q.sat # "plan"
    <2>1. PICK s : s = [q EXCEPT !.tim = FALSE]
      OBVIOUS
    <2>2. /\ s \in Reqs /\ s.sat = q.sat /\ s.lst = q.lst /\ s.gen = q.gen /\ s.dun = q.dun
          /\ s.kil = q.kil /\ s.out = q.out /\ s.bod = q.bod /\ s.fly = q.fly
      BY <2>1 DEF Reqs
    <2>3. req' = [req EXCEPT ![r] = s] /\ ova' = ova
      BY <1>3, <1>6, <2>1, ReqAt DEF TimerCb
    <2>4. PlainInv(s, "open", r \in peek)
      BY <1>4, <2>2 DEF PlainInv
    <2>5. ASSUME Planned(ova, eyre, r) PROVE PlannedInv(s, "open", r \in peek, eyre[r], Len(said[r]), eff, r)
      <3>1. PlannedInv(q, "open", r \in peek, eyre[r], Len(said[r]), eff, r)
        BY <1>2, <1>3, <2>5, ReqAt
      <3>2. QED
        BY <2>2, <3>1, ZenonT(60) DEF PlannedInv, AnswerInv, Waits, TimedOut, Served
    <2>6. rec' = [rec EXCEPT ![r] = "open"] /\ peek' \subseteq Recs /\ cut' \in BOOLEAN /\ rend' \in BOOLEAN
      BY <1>1, <1>2, ReqAt
    <2>7. QED
      BY <1>1, <2>2, <2>3, <2>4, <2>5, <2>6, ReqOne
  <1>7. QED
    BY <1>5, <1>6

\* _http_hgen_proceed(): what is pending goes out, and no more than that.
LEMMA ProceedKeeps == ASSUME ReqInv, NEW r \in Recs, Proceed(r) PROVE ReqInv'
  <1>1. req[r].fly = "busy" /\ UNCHANGED <<rec, peek, ova, eyre, said, eff, rend, cut>>
    BY DEF Proceed
  <1>2. rec[r] = "open"
    BY <1>1, ReqAt DEF PlainInv
  <1>3. PICK q \in Reqs : q = req[r]
    BY ReqAt
  <1>4. PlainInv(q, "open", r \in peek)
    BY <1>2, <1>3, ReqAt
  <1>5. PICK p : p = [q EXCEPT !.fly = "none", !.red = TRUE]
    OBVIOUS
  <1>6. /\ p \in Reqs /\ p.sat = q.sat /\ p.lst = q.lst /\ p.gen = q.gen /\ p.dun = q.dun
        /\ p.kil = q.kil /\ p.out = q.out /\ p.bod = q.bod /\ p.fly = "none"
    BY <1>5 DEF Reqs
  <1>7. PICK h \in Reqs : /\ h = HgenSend(p) /\ h.sat = p.sat /\ h.lst = p.lst /\ h.gen = p.gen
                          /\ h.dun = p.dun /\ h.kil = p.kil /\ h.out = p.out \o p.bod /\ h.bod = <<>>
                          /\ h.fly = IF p.dun THEN "final" ELSE "busy"
    BY <1>6, HgenFacts
  <1>8. h.out \o h.bod = p.out \o p.bod
    <2>1. p.out \o p.bod \in Seq(Nat)
      BY <1>6 DEF Reqs
    <2>2. QED
      BY <1>7, <2>1
  <1>9. PICK s \in Reqs : s = (IF p.bod # <<>> \/ p.dun THEN h ELSE p)
    BY <1>6
  <1>10. /\ s.sat = q.sat /\ s.lst = q.lst /\ s.gen = q.gen /\ s.dun = q.dun /\ s.kil = q.kil
         /\ s.out \o s.bod = q.out \o q.bod /\ (s.fly = "final" => s.dun /\ s.bod = <<>>)
    <2>1. CASE s = h
      BY <1>6, <1>7, <1>8, <2>1
    <2>2. CASE s = p
      BY <1>6, <2>2
    <2>3. QED
      BY <1>9, <2>1, <2>2
  <1>11. req' = [req EXCEPT ![r] = s]
    BY <1>3, <1>5, <1>7, <1>9, ReqAt DEF Proceed
  <1>12. PlainInv(s, "open", r \in peek)
    BY <1>4, <1>10 DEF PlainInv
  <1>13. ASSUME Planned(ova, eyre, r) PROVE PlannedInv(s, "open", r \in peek, eyre[r], Len(said[r]), eff, r)
    <2>1. PICK d \in 1 .. Len(said[r]) : /\ Served(q, eyre[r], Len(said[r]), d)
                                         /\ Pending(eff, r, d, Len(said[r]))
      BY <1>1, <1>2, <1>3, <1>13, AnswerCases DEF Waits, TimedOut
    <2>2. Served(s, eyre[r], Len(said[r]), d)
      BY <1>10, <2>1 DEF Served
    <2>3. q.lst = "con" /\ r \notin peek
      BY <1>2, <1>3, <1>13, ReqAt DEF PlannedInv
    <2>4. QED
      BY <1>10, <2>1, <2>2, <2>3 DEF PlannedInv, AnswerInv
  <1>14. rec' = [rec EXCEPT ![r] = "open"] /\ peek' \subseteq Recs /\ cut' \in BOOLEAN /\ rend' \in BOOLEAN
    BY <1>1, <1>2, ReqAt
  <1>15. QED
    BY <1>1, <1>11, <1>12, <1>13, <1>14, ReqOne

\* What is not finished when h2o disposes of it is cancelled, once.
LEMMA DisposeKeeps == ASSUME ReqInv, NEW r \in Recs, Dispose(r) PROVE ReqInv'
  <1>1. rec[r] = "open" /\ rec' = [rec EXCEPT ![r] = "gone"] /\ UNCHANGED <<peek, eyre, said, eff, rend, cut>>
    BY DEF Dispose
  <1>2. PICK q \in Reqs : q = req[r]
    BY ReqAt
  <1>3. PlainInv(q, "open", r \in peek) /\ q.kil = IF q.sat = "ripe" /\ ~q.gen THEN 1 ELSE 0
    BY <1>1, <1>2, ReqAt DEF PlainInv
  <1>4. Unfinished(q) => q.kil = 0
    BY <1>3 DEF Unfinished
  <1>5. PICK k \in 0 .. 1 : k = IF Unfinished(q) THEN q.kil + 1 ELSE q.kil
    BY <1>3, <1>4
  <1>6. PICK s : s = [q EXCEPT !.lst = "none", !.tim = FALSE, !.fly = "none", !.kil = k]
    OBVIOUS
  <1>7. /\ s \in Reqs /\ s.sat = q.sat /\ s.lst = "none" /\ s.gen = q.gen /\ s.dun = q.dun /\ ~s.tim
        /\ s.kil = k /\ s.out = q.out /\ s.bod = q.bod /\ s.fly = "none"
    <2>1. k \in 0 .. 1
      OBVIOUS
    <2>2. QED
      BY <1>6, <2>1 DEF Reqs
  <1>8. req' = [req EXCEPT ![r] = s] /\ (ova' = ova \/ ova' = Append(ova, Kill(r)))
    <2>1. /\ req' = [req EXCEPT ![r] = [req[r] EXCEPT !.lst = "none", !.tim = FALSE, !.fly = "none",
                                                      !.kil = IF Unfinished(req[r]) THEN @ + 1 ELSE @]]
          /\ ova' = IF Unfinished(req[r]) THEN Append(ova, Kill(r)) ELSE ova
      BY DEF Dispose
    <2>2. QED
      BY <1>2, <1>5, <1>6, <2>1
  <1>9. PlainInv(s, "gone", r \in peek)
    BY <1>3, <1>7 DEF PlainInv
  <1>10. ASSUME Planned(ova, eyre, r) PROVE PlannedInv(s, "gone", r \in peek, eyre[r], Len(said[r]), eff, r)
    <2>1. q.lst = "con" /\ r \notin peek
      BY <1>1, <1>2, <1>10, ReqAt DEF PlannedInv
    <2>2. CASE Waits(q)
      <3>1. Unfinished(q) /\ ~q.dun /\ Waits(s)
        BY <1>7, <2>1, <2>2 DEF Unfinished, Waits
      <3>2. s.kil = 1
        BY <1>4, <1>5, <1>7, <3>1
      <3>3. QED
        BY <1>7, <2>1, <3>1, <3>2 DEF PlannedInv, AnswerInv
    <2>3. CASE TimedOut(q)
      <3>1. ~Unfinished(q) /\ q.kil = 1 /\ ~q.dun /\ TimedOut(s)
        BY <1>3, <1>7, <2>3 DEF Unfinished, TimedOut
      <3>2. QED
        BY <1>5, <1>7, <2>1, <3>1 DEF PlannedInv, AnswerInv
    <2>4. ASSUME NEW d \in 1 .. Len(said[r]), Served(q, eyre[r], Len(said[r]), d)
          PROVE  PlannedInv(s, "gone", r \in peek, eyre[r], Len(said[r]), eff, r)
      <3>1. Served(s, eyre[r], Len(said[r]), d)
        BY <1>7, <2>4 DEF Served
      <3>2. q.kil = 0 /\ q.dun \in BOOLEAN /\ (Unfinished(q) <=> ~q.dun)
        BY <1>3, <2>1, <2>4 DEF Served, Unfinished, Reqs
      <3>3. s.kil = IF s.dun THEN 0 ELSE 1
        BY <1>5, <1>7, <3>2
      <3>4. QED
        BY <2>1, <3>1, <3>3 DEF PlannedInv, AnswerInv
    <2>5. QED
      BY <1>2, <1>10, <2>2, <2>3, <2>4, AnswerCases
  <1>11. peek' \subseteq Recs /\ cut' \in BOOLEAN /\ rend' \in BOOLEAN
    BY <1>1, ReqAt
  <1>12. QED
    BY <1>1, <1>7, <1>8, <1>9, <1>10, <1>11, ReqOne

\* _http_rec_accept(): %eyre is asked of a request that is new.
LEMMA RecAcceptKeeps == ASSUME ReqInv, NEW r \in Recs, RecAccept(r) PROVE ReqInv'
  <1>1. rec[r] = "new" /\ rec' = [rec EXCEPT ![r] = "open"] /\ UNCHANGED <<peek, eyre, said, eff, rend, cut>>
    BY DEF RecAccept
  <1>2. ~Planned(ova, eyre, r) /\ req[r] = NoReq /\ r \notin peek
    BY <1>1, NewUnplanned, ReqAt DEF PlainInv
  <1>3. CASE req' = [req EXCEPT ![r] = SendError(@, 400)] /\ UNCHANGED ova
    <2>1. NoReq \in Reqs /\ NoReq.kil = 0 /\ NoReq.sat = "init" /\ ~NoReq.gen /\ 400 \in Nat
      BY DEF NoReq, Reqs
    <2>2. PICK s \in Reqs : s = SendError(req[r], 400) /\ s.sat = "init" /\ s.kil = 0 /\ ~s.gen
      BY <1>2, <2>1, ErrorFacts
    <2>3. req' = [req EXCEPT ![r] = s] /\ peek' \subseteq Recs /\ cut' \in BOOLEAN /\ rend' \in BOOLEAN
      BY <1>1, <1>3, <2>2, ReqAt
    <2>4. PlainInv(s, "open", r \in peek')
      BY <2>2 DEF PlainInv
    <2>5. QED
      BY <1>1, <1>2, <1>3, <2>3, <2>4, ReqOne, ZenonT(60)
  <1>4. CASE req' = [req EXCEPT ![r] = Prepare("con")] /\ ova' = Append(ova, [typ |-> "request", rec |-> r])
    <2>1. PICK p \in Reqs : /\ p = Prepare("con") /\ p.sat = "plan" /\ p.lst = "con" /\ p.kil = 0 /\ ~p.dun
                            /\ p.out = <<>> /\ p.bod = <<>> /\ p.fly = "none" /\ ~p.gen
      BY PrepareFacts
    <2>2. ReqTypes /\ SaidInv(ova, eyre, said) /\ InOrder(eff) /\ \A i \in DOMAIN eff : EffInv(eff[i], said, eyre)
      BY DEF ReqInv
    <2>3. PICK e \in Events : e = [typ |-> "request", rec |-> r] /\ e.typ = "request" /\ e.rec = r
      <3>1. PICK e : e = [typ |-> "request", rec |-> r]
        OBVIOUS
      <3>2. e \in Events /\ e.typ = "request" /\ e.rec = r
        BY <3>1 DEF Events
      <3>3. QED
        BY <3>1, <3>2
    <2>4. PICK ov \in Seq(Events) : ov = Append(ova, e) /\ ov = ova'
      BY <1>4, <2>2, <2>3, AppendProperties DEF ReqTypes
    <2>5. /\ DOMAIN ova = 1 .. Len(ova) /\ DOMAIN ov = 1 .. Len(ova) + 1 /\ ov[Len(ova) + 1] = e
          /\ \A i \in 1 .. Len(ova) : ov[i] = ova[i]
      <3>1. ova \in Seq(Events)
        BY <2>2 DEF ReqTypes
      <3>5. PICK o \in Seq(Events) : o = ova
        BY <3>1
      <3>6. ov = Append(o, e)
        BY <2>4, <3>5
      <3>7. Len(ov) = Len(o) + 1 /\ ov[Len(o) + 1] = e /\ \A i \in 1 .. Len(o) : ov[i] = o[i]
        BY ONLY <2>3, <3>5, <3>6, AppendProperties
      <3>2. Len(ov) = Len(ova) + 1 /\ ov[Len(ova) + 1] = e /\ \A i \in 1 .. Len(ova) : ov[i] = ova[i]
        BY <3>5, <3>7
      <3>3. DOMAIN ova = 1 .. Len(ova) /\ DOMAIN ov = 1 .. Len(ov)
        BY <3>1
      <3>4. QED
        BY <3>2, <3>3
    <2>6. ASSUME NEW i \in DOMAIN ov
          PROVE  (i \in DOMAIN ova /\ ov[i] = ova[i]) \/ (i = Len(ova) + 1 /\ ov[i] = e)
      BY <2>5
    <2>7. ASSUME NEW i \in DOMAIN ova PROVE i \in DOMAIN ov /\ ov[i] = ova[i]
      BY <2>5
    <2>8. /\ eyre[r] = "idle" /\ Len(said[r]) = 0
          /\ \A i \in DOMAIN ova : ova[i].typ = "request" => ova[i].rec # r
      BY <1>2, <2>2 DEF Planned, SaidInv
    <2>9. \A m \in Recs : m # r => (Planned(ov, eyre, m) <=> Planned(ova, eyre, m))
      BY <2>3, <2>6, <2>7 DEF Planned
    <2>10. SaidInv(ov, eyre, said)
      <3>1. ASSUME NEW i \in DOMAIN ov, ov[i].typ = "request" PROVE eyre[ov[i].rec] = "idle"
        BY <2>2, <2>3, <2>6, <2>8, <3>1 DEF SaidInv
      <3>2. ASSUME NEW i \in DOMAIN ov, NEW j \in DOMAIN ov, ov[i].typ = "request", ov[j].typ = "request",
                   ov[i].rec = ov[j].rec
            PROVE  i = j
        BY <2>2, <2>3, <2>6, <2>8, <3>2 DEF SaidInv
      <3>3. QED
        BY <2>2, <3>1, <3>2 DEF SaidInv
    <2>11. Pending(eff, r, 0, 0)
      <3>1. ASSUME NEW i \in DOMAIN eff PROVE eff[i].dat[1] > 0
        <4>1. eff[i] \in Effs /\ EffInv(eff[i], said, eyre)
          BY <2>2 DEF ReqTypes
        <4>2. eff[i].dat[1] \in 1 .. Len(said[eff[i].rec]) /\ Len(said[eff[i].rec]) \in Nat
          BY <2>2, <4>1 DEF EffInv, Effs, ReqTypes
        <4>3. QED
          BY <4>2
      <3>2. QED
        BY <3>1 DEF Pending
    <2>12. PlainInv(p, "open", FALSE) /\ PlannedInv(p, "open", FALSE, eyre[r], 0, eff, r)
      BY <2>1, <2>11 DEF PlainInv, PlannedInv, AnswerInv, Waits
    <2>13. ReqTypes'
      BY <1>1, <1>4, <2>1, <2>2, <2>4 DEF ReqTypes
    <2>14. ASSUME NEW m \in Recs
           PROVE  /\ PlainInv(req'[m], rec'[m], m \in peek)
                  /\ Planned(ov, eyre, m) =>
                        PlannedInv(req'[m], rec'[m], m \in peek, eyre[m], Len(said[m]), eff, m)
      <3>1. CASE m = r
        <4>1. req'[m] = p /\ rec'[m] = "open" /\ (m \in peek) = FALSE
          BY <1>1, <1>2, <1>4, <2>1, <2>2, <3>1 DEF ReqTypes
        <4>2. QED
          BY <2>8, <2>12, <3>1, <4>1
      <3>2. CASE m # r
        <4>1. req'[m] = req[m] /\ rec'[m] = rec[m]
          BY <1>1, <1>4, <2>2, <3>2 DEF ReqTypes
        <4>2. QED
          BY <2>9, <3>2, <4>1, ReqAt
      <3>3. QED
        BY <3>1, <3>2
    <2>15. QED
      BY <1>1, <2>2, <2>4, <2>10, <2>13, <2>14 DEF ReqInv
  <1>5. QED
    BY <1>3, <1>4 DEF RecAccept

\* A line for every log stream, which %eyre was never asked.
LEMMA StreamKeeps ==
    ASSUME ReqInv, NEW data \in Seq(Nat), NEW complete \in BOOLEAN, req' = Stream(data, complete),
           UNCHANGED <<rec, peek, ova, eyre, said, eff, cut>>, rend' \in BOOLEAN
    PROVE  ReqInv'
  <1>1. /\ ReqTypes /\ SaidInv(ova, eyre, said) /\ InOrder(eff)
        /\ \A i \in DOMAIN eff : EffInv(eff[i], said, eyre)
    BY DEF ReqInv
  <1>2. ASSUME NEW m \in Recs
        PROVE  /\ req'[m] \in Reqs /\ PlainInv(req'[m], rec[m], m \in peek)
               /\ Planned(ova, eyre, m) =>
                     PlannedInv(req'[m], rec[m], m \in peek, eyre[m], Len(said[m]), eff, m)
    <2>1. PICK q \in Reqs : q = req[m]
      BY ReqAt
    <2>2. CASE q.lst # "seq"
      <3>1. req'[m] = q
        BY <2>1, <2>2 DEF Stream, Streams
      <3>2. QED
        BY <2>1, <3>1, ReqAt
    <2>3. CASE q.lst = "seq"
      <3>1. req'[m] = ContinueRespond(q, data, complete)
        BY <2>1, <2>3 DEF Stream, Streams
      <3>2. PICK s \in Reqs :
               /\ s = ContinueRespond(q, data, complete) /\ s.sat = q.sat /\ s.lst = q.lst /\ s.gen = q.gen /\ s.kil = q.kil
               /\ q.sat = "ripe" => /\ s.dun = complete
                                    /\ s.out \o s.bod = (q.out \o q.bod) \o data
                                    /\ s.fly = "final" => q.fly = "final" \/ (complete /\ s.bod = <<>>)
        <4>1. q \in Reqs /\ data \in Seq(Nat) /\ complete \in BOOLEAN
          OBVIOUS
        <4>2. QED
          BY <4>1, ContinueFacts, Zenon
      <3>3. PlainInv(q, rec[m], m \in peek) /\ rec[m] = "open"
        BY <2>1, <2>3, ReqAt DEF PlainInv
      <3>4. PlainInv(s, rec[m], m \in peek)
        BY <3>2, <3>3 DEF PlainInv
      <3>5. ~Planned(ova, eyre, m)
        BY <2>1, <2>3, <3>3, ReqAt DEF PlannedInv
      <3>6. QED
        BY <3>1, <3>2, <3>4, <3>5
    <2>4. QED
      BY <2>2, <2>3
  <1>3. ReqTypes'
    <2>1. req' = [r \in Recs |-> req'[r]]
      BY DEF Stream
    <2>2. req' \in [Recs -> Reqs]
      BY <1>2, <2>1
    <2>3. QED
      BY <1>1, <2>2 DEF ReqTypes
  <1>4. QED
    BY <1>1, <1>2, <1>3 DEF ReqInv

\* %eyre takes an event: it is asked once, and a cancel does not reopen what is done.
LEMMA EyreTakeKeeps == ASSUME ReqInv, EyreTake PROVE ReqInv'
  <1>1. /\ ReqTypes /\ SaidInv(ova, eyre, said) /\ InOrder(eff)
        /\ \A i \in DOMAIN eff : EffInv(eff[i], said, eyre)
    BY DEF ReqInv
  <1>2. PICK ov \in Seq(Events) : ov = ova /\ ov # <<>>
    BY <1>1 DEF ReqTypes, EyreTake
  <1>3. PICK h \in Events : h = Head(ov) /\ h = ov[1]
    BY <1>2, HeadTailProperties
  <1>4. PICK t \in Seq(Events) : t = Tail(ov) /\ ova' = t
    BY <1>2, HeadTailProperties DEF EyreTake
  <1>5. /\ 1 \in DOMAIN ov /\ DOMAIN ov = 1 .. Len(ov) /\ DOMAIN t = 1 .. Len(ov) - 1
        /\ \A i \in 1 .. Len(ov) - 1 : t[i] = ov[i + 1]
    BY <1>2, <1>4
  <1>6. ASSUME NEW i \in DOMAIN t PROVE i + 1 \in DOMAIN ov /\ t[i] = ov[i + 1] /\ i + 1 # 1
    BY <1>5
  <1>7. ASSUME NEW i \in DOMAIN ov, i # 1 PROVE \E j \in DOMAIN t : t[j] = ov[i]
    <2>1. PICK j \in 1 .. Len(ov) - 1 : j = i - 1
      BY <1>5, <1>7
    <2>2. j + 1 = i
      BY <1>5, <2>1
    <2>3. QED
      BY <1>5, <2>2
  <1>8. PICK r \in Recs : r = h.rec
    BY DEF Events
  <1>9. h.typ \in {"request", "cancel"} /\ (h.typ = "request" => eyre[r] = "idle")
    BY <1>1, <1>2, <1>3, <1>5, <1>8 DEF Events, SaidInv
  <1>10. PICK y \in Eyres : y = IF h.typ = "request" THEN "asked" ELSE IF eyre[r] = "idle" THEN eyre[r] ELSE "dead"
    BY DEF Eyres
  <1>11. eyre' = [eyre EXCEPT ![r] = y]
    BY <1>2, <1>3, <1>8, <1>10 DEF EyreTake
  <1>12. eyre'[r] = y /\ \A m \in Recs : m # r => eyre'[m] = eyre[m]
    BY <1>1, <1>11 DEF ReqTypes
  <1>13. ASSUME NEW m \in Recs
         PROVE  /\ eyre[m] \in {"done", "dead"} => eyre'[m] \in {"done", "dead"}
                /\ eyre'[m] \in {"idle", "asked"} => eyre[m] \in {"idle", "asked"}
                /\ eyre'[m] = "going" => eyre[m] = "going"
    BY <1>9, <1>10, <1>12
  <1>14. ASSUME NEW m \in Recs PROVE Planned(t, eyre', m) <=> Planned(ov, eyre, m)
    <2>1. ASSUME Planned(ov, eyre, m) PROVE Planned(t, eyre', m)
      <3>1. CASE eyre[m] # "idle"
        BY <1>9, <1>10, <1>12, <3>1 DEF Planned
      <3>2. ASSUME NEW i \in DOMAIN ov, ov[i].typ = "request", ov[i].rec = m PROVE Planned(t, eyre', m)
        <4>1. CASE i = 1
          BY <1>3, <1>8, <1>10, <1>12, <3>2, <4>1 DEF Planned
        <4>2. CASE i # 1
          BY <1>7, <3>2, <4>2 DEF Planned
        <4>3. QED
          BY <4>1, <4>2
      <3>3. QED
        BY <2>1, <3>1, <3>2 DEF Planned
    <2>2. ASSUME Planned(t, eyre', m) PROVE Planned(ov, eyre, m)
      <3>1. CASE eyre'[m] # "idle"
        BY <1>3, <1>5, <1>8, <1>9, <1>10, <1>12, <3>1 DEF Planned
      <3>2. CASE eyre'[m] = "idle"
        BY <1>6, <2>2, <3>2 DEF Planned
      <3>3. QED
        BY <3>1, <3>2
    <2>3. QED
      BY <2>1, <2>2
  <1>15. SaidInv(t, eyre', said)
    <2>1. ASSUME NEW i \in DOMAIN t, t[i].typ = "request" PROVE eyre'[t[i].rec] = "idle"
      <3>1. i + 1 \in DOMAIN ov /\ t[i] = ov[i + 1] /\ i + 1 # 1
        BY <1>6
      <3>2. eyre[t[i].rec] = "idle" /\ t[i].rec \in Recs
        <4>1. t[i] \in Events
          OBVIOUS
        <4>2. QED
          BY <1>1, <1>2, <2>1, <3>1, <4>1 DEF SaidInv, Events
      <3>3. CASE t[i].rec # r
        BY <1>12, <3>2, <3>3
      <3>4. CASE t[i].rec = r
        <4>1. h.typ # "request"
          BY <1>1, <1>2, <1>3, <1>5, <1>8, <2>1, <3>1, <3>4 DEF SaidInv
        <4>2. QED
          BY <1>10, <1>12, <3>2, <3>4, <4>1
      <3>5. QED
        BY <3>3, <3>4
    <2>2. ASSUME NEW i \in DOMAIN t, NEW j \in DOMAIN t, t[i].typ = "request", t[j].typ = "request",
                 t[i].rec = t[j].rec
          PROVE  i = j
      <3>1. i + 1 \in DOMAIN ov /\ t[i] = ov[i + 1] /\ j + 1 \in DOMAIN ov /\ t[j] = ov[j + 1]
        BY <1>6
      <3>2. i + 1 = j + 1
        BY <1>1, <1>2, <2>2, <3>1 DEF SaidInv
      <3>3. QED
        BY <1>5, <3>2
    <2>3. \A m \in Recs : /\ said[m] = Parts(Len(said[m]))
                          /\ eyre'[m] \in {"idle", "asked"} => Len(said[m]) = 0
                          /\ eyre'[m] = "going" => Len(said[m]) > 0
      BY <1>1, <1>13 DEF SaidInv
    <2>4. QED
      BY <2>1, <2>2, <2>3 DEF SaidInv
  <1>16. ASSUME NEW i \in DOMAIN eff PROVE EffInv(eff[i], said, eyre')
    <2>1. eff[i].rec \in Recs /\ EffInv(eff[i], said, eyre)
      <3>1. eff[i] \in Effs
        BY <1>1 DEF ReqTypes
      <3>2. QED
        BY <1>1, <3>1 DEF Effs
    <2>2. QED
      BY <1>13, <2>1 DEF EffInv
  <1>17. ASSUME NEW m \in Recs, Planned(t, eyre', m)
         PROVE  PlannedInv(req[m], rec[m], m \in peek, eyre'[m], Len(said[m]), eff, m)
    <2>1. PlannedInv(req[m], rec[m], m \in peek, eyre[m], Len(said[m]), eff, m)
      BY <1>2, <1>14, <1>17, ReqAt
    <2>2. ASSUME NEW d, Served(req[m], eyre[m], Len(said[m]), d) PROVE Served(req[m], eyre'[m], Len(said[m]), d)
      BY <1>13, <2>2 DEF Served
    <2>3. QED
      BY <2>1, <2>2 DEF PlannedInv, AnswerInv
  <1>18. UNCHANGED <<rec, req, peek, said, eff, rend, cut>>
    BY DEF EyreTake
  <1>19. ReqTypes'
    BY <1>1, <1>4, <1>11, <1>18 DEF ReqTypes
  <1>20. \A m \in Recs : PlainInv(req[m], rec[m], m \in peek)
    BY ReqAt
  <1>21. QED
    BY <1>1, <1>4, <1>15, <1>16, <1>17, <1>18, <1>19, <1>20 DEF ReqInv

\* One more part makes one more of the parts.
LEMMA PartsAppend == ASSUME NEW n \in Nat PROVE Append(Parts(n), n + 1) = Parts(n + 1) /\ Parts(n) \o <<n + 1>> = Parts(n + 1)
  <1>1. Parts(n) \in Seq(Nat) /\ Len(Parts(n)) = n /\ Parts(n + 1) \in Seq(Nat) /\ Len(Parts(n + 1)) = n + 1
    BY DEF Parts
  <1>2. \A i \in 1 .. n : Parts(n)[i] = i
    BY DEF Parts
  <1>3. \A i \in 1 .. n + 1 : Parts(n + 1)[i] = i
    BY DEF Parts
  <1>4. Append(Parts(n), n + 1) = Parts(n + 1)
    BY <1>1, <1>2, <1>3
  <1>5. Parts(n) \o <<n + 1>> = Append(Parts(n), n + 1)
    BY <1>1
  <1>6. QED
    BY <1>4, <1>5

\* %eyre says one more chunk: it is on its way, after the others of its request.
LEMMA EyreSayKeeps == ASSUME ReqInv, NEW r \in Recs, EyreSay(r) PROVE ReqInv'
  <1>1. /\ ReqTypes /\ SaidInv(ova, eyre, said) /\ InOrder(eff)
        /\ \A i \in DOMAIN eff : EffInv(eff[i], said, eyre)
    BY DEF ReqInv
  <1>2. PICK n \in Nat : n = Len(said[r]) /\ said[r] = Parts(n)
    BY <1>1, ReqAt DEF SaidInv
  <1>3. eyre[r] \in {"asked", "going"} /\ (eyre[r] = "asked" <=> n = 0)
    BY <1>1, <1>2 DEF SaidInv, EyreSay
  <1>4. PICK complete \in BOOLEAN :
           /\ eff' = Append(eff, Eff(IF eyre[r] = "asked" THEN "start" ELSE "continue", r,
                                     <<Len(said[r]) + 1>>, complete))
           /\ eyre' = [eyre EXCEPT ![r] = IF complete THEN "done" ELSE "going"]
    BY DEF EyreSay
  <1>5. PICK ty \in {"start", "continue"} : ty = IF eyre[r] = "asked" THEN "start" ELSE "continue"
    OBVIOUS
  <1>6. PICK e : e = [typ |-> ty, rec |-> r, dat |-> <<n + 1>>, complete |-> complete]
    OBVIOUS
  <1>7. e \in Effs /\ e.typ = ty /\ e.rec = r /\ e.dat = <<n + 1>> /\ e.complete = complete /\ e.dat[1] = n + 1
    <2>1. <<n + 1>> \in Seq(Nat)
      OBVIOUS
    <2>2. QED
      BY <1>6, <2>1 DEF Effs
  <1>8. PICK y \in {"done", "going"} : y = IF complete THEN "done" ELSE "going"
    OBVIOUS
  <1>9. eyre' = [eyre EXCEPT ![r] = y]
    BY <1>4, <1>8
  <1>10. PICK ef \in Seq(Effs) : ef = eff
    BY <1>1 DEF ReqTypes
  <1>11. PICK t \in Seq(Effs) : t = Append(ef, e)
    BY <1>7, <1>10, AppendProperties
  <1>12. eff' = t
    BY <1>2, <1>4, <1>5, <1>6, <1>10, <1>11 DEF Eff
  <1>13. said' = [said EXCEPT ![r] = Parts(n + 1)]
    <2>1. said' = [said EXCEPT ![r] = Append(said[r], Len(said[r]) + 1)]
      BY DEF EyreSay
    <2>2. QED
      BY <1>2, <2>1, PartsAppend
  <1>14. /\ said'[r] = Parts(n + 1) /\ Len(said'[r]) = n + 1 /\ eyre'[r] = y
         /\ \A m \in Recs : m # r => said'[m] = said[m] /\ eyre'[m] = eyre[m]
    <2>1. Len(Parts(n + 1)) = n + 1
      BY DEF Parts
    <2>2. QED
      BY <1>1, <1>9, <1>13, <2>1 DEF ReqTypes
  <1>15. UNCHANGED <<rec, req, peek, ova, rend, cut>>
    BY DEF EyreSay
  <1>16. ReqTypes'
    <2>1. Parts(n + 1) \in Seq(Nat)
      BY DEF Parts
    <2>2. said' \in [Recs -> Seq(Nat)] /\ eyre' \in [Recs -> Eyres]
      BY <1>1, <1>9, <1>13, <2>1 DEF ReqTypes, Eyres
    <2>3. QED
      BY <1>1, <1>12, <1>15, <2>2 DEF ReqTypes
  <1>17. ASSUME NEW i \in DOMAIN ova, ova[i].typ = "request" PROVE ova[i].rec # r /\ eyre'[ova[i].rec] = "idle"
    <2>1. ova[i] \in Events
      BY <1>1 DEF ReqTypes
    <2>2. ova[i].rec \in Recs /\ eyre[ova[i].rec] = "idle"
      BY <1>1, <1>17, <2>1 DEF SaidInv, Events
    <2>3. QED
      BY <1>3, <1>14, <2>2
  <1>18. SaidInv(ova, eyre', said')
    <2>1. ASSUME NEW m \in Recs
          PROVE  /\ said'[m] = Parts(Len(said'[m])) /\ (eyre'[m] \in {"idle", "asked"} => Len(said'[m]) = 0)
                 /\ eyre'[m] = "going" => Len(said'[m]) > 0
      BY <1>1, <1>14 DEF SaidInv
    <2>2. \A i, j \in DOMAIN ova :
             ova[i].typ = "request" /\ ova[j].typ = "request" /\ ova[i].rec = ova[j].rec => i = j
      BY <1>1 DEF SaidInv
    <2>3. QED
      BY <1>17, <2>1, <2>2 DEF SaidInv
  <1>19. /\ DOMAIN ef = 1 .. Len(ef) /\ DOMAIN t = 1 .. Len(ef) + 1 /\ t[Len(ef) + 1] = e
         /\ \A i \in 1 .. Len(ef) : t[i] = ef[i]
    BY <1>7, <1>11, AppendProperties
  <1>20. ASSUME NEW i \in DOMAIN t PROVE (i \in DOMAIN ef /\ t[i] = ef[i]) \/ (i = Len(ef) + 1 /\ t[i] = e)
    BY <1>19
  <1>21. ASSUME NEW i \in DOMAIN ef PROVE /\ ef[i].rec \in Recs /\ EffInv(ef[i], said, eyre)
                                          /\ ef[i].rec = r => ef[i].dat[1] \in 1 .. n /\ ~ef[i].complete
    <2>1. ef[i] \in Effs /\ EffInv(ef[i], said, eyre)
      BY <1>1, <1>10
    <2>2. QED
      BY <1>2, <1>3, <2>1 DEF EffInv, Effs
  <1>22. ASSUME NEW i \in DOMAIN t PROVE EffInv(t[i], said', eyre')
    <2>1. CASE t[i] = e
      BY <1>3, <1>5, <1>7, <1>8, <1>14, <2>1 DEF EffInv
    <2>2. CASE i \in DOMAIN ef /\ t[i] = ef[i] /\ ef[i].rec # r
      BY <1>14, <1>21, <2>2 DEF EffInv
    <2>3. CASE i \in DOMAIN ef /\ t[i] = ef[i] /\ ef[i].rec = r
      <3>1. ef[i].dat[1] \in 1 .. n + 1
        BY <1>21, <2>3
      <3>2. QED
        BY <1>14, <1>21, <2>3, <3>1 DEF EffInv
    <2>4. QED
      BY <1>20, <2>1, <2>2, <2>3
  <1>23. InOrder(t)
    <2>1. ASSUME NEW i \in DOMAIN t, NEW j \in DOMAIN t, i < j, t[i].rec = t[j].rec PROVE t[i].dat[1] < t[j].dat[1]
      <3>1. i \in DOMAIN ef /\ t[i] = ef[i]
        BY <1>19, <1>20, <2>1
      <3>2. CASE j \in DOMAIN ef /\ t[j] = ef[j]
        BY <1>1, <1>10, <2>1, <3>1, <3>2 DEF InOrder
      <3>3. CASE t[j] = e
        <4>1. ef[i].dat[1] \in 1 .. n
          BY <1>7, <1>21, <2>1, <3>1, <3>3
        <4>2. QED
          BY <1>7, <3>1, <3>3, <4>1
      <3>4. QED
        BY <1>20, <3>2, <3>3
    <2>2. QED
      BY <2>1 DEF InOrder
  <1>24. ASSUME NEW m \in Recs PROVE Planned(ova, eyre', m) <=> Planned(ova, eyre, m)
    BY <1>3, <1>8, <1>14 DEF Planned
  <1>25. ASSUME NEW m \in Recs, Planned(ova, eyre', m)
         PROVE  PlannedInv(req[m], rec[m], m \in peek, eyre'[m], Len(said'[m]), t, m)
    <2>1. PlannedInv(req[m], rec[m], m \in peek, eyre[m], Len(said[m]), ef, m)
      BY <1>10, <1>24, <1>25, ReqAt
    <2>2. PICK k \in Nat : k = Len(said[m])
      BY ReqAt
    <2>3. CASE m # r
      <3>1. ASSUME NEW d \in 0 .. k, Pending(ef, m, d, k) PROVE Pending(t, m, d, k)
        BY <1>7, <1>11, <2>3, <3>1, PendingAppend
      <3>2. eyre'[m] = eyre[m] /\ Len(said'[m]) = k
        BY <1>14, <2>2, <2>3
      <3>3. AnswerInv(req[m], rec[m], eyre[m], k, t, m)
        BY <2>1, <2>2, <3>1 DEF PlannedInv, AnswerInv
      <3>4. QED
        BY <2>1, <3>2, <3>3 DEF PlannedInv
    <2>4. CASE m = r
      <3>1. k = n /\ Len(said'[m]) = n + 1
        BY <1>2, <1>14, <2>2, <2>4
      <3>2. ASSUME NEW d \in 0 .. n, Pending(ef, m, d, n) PROVE Pending(t, m, d, n + 1)
        BY <1>7, <1>11, <2>4, <3>2, PendingAppend
      <3>3. ASSUME NEW d \in 1 .. n, Served(req[m], eyre[m], n, d)
            PROVE  d \in 1 .. n + 1 /\ Served(req[m], eyre'[m], n + 1, d)
        BY <1>3, <2>4, <3>3 DEF Served
      <3>4. AnswerInv(req[m], rec[m], eyre[m], n, ef, m)
        BY <2>1, <2>2, <3>1 DEF PlannedInv
      <3>5. ASSUME NEW d \in 1 .. n, Served(req[m], eyre[m], n, d), rec[m] = "open" => Pending(ef, m, d, n)
            PROVE  AnswerInv(req[m], rec[m], eyre'[m], n + 1, t, m)
        <4>1. rec[m] = "open" => Pending(t, m, d, n + 1)
          BY <3>2, <3>5
        <4>2. QED
          BY <3>3, <3>5, <4>1 DEF AnswerInv
      <3>6. AnswerInv(req[m], rec[m], eyre'[m], n + 1, t, m)
        <4>1. CASE Waits(req[m]) /\ (rec[m] = "open" => Pending(ef, m, 0, n))
          <5>1. rec[m] = "open" => Pending(t, m, 0, n + 1)
            BY <3>2, <4>1
          <5>2. QED
            BY <4>1, <5>1 DEF AnswerInv
        <4>2. CASE TimedOut(req[m])
          BY <4>2 DEF AnswerInv
        <4>3. QED
          BY <3>4, <3>5, <4>1, <4>2 DEF AnswerInv
      <3>7. QED
        BY <2>1, <3>1, <3>6 DEF PlannedInv
    <2>5. QED
      BY <2>3, <2>4
  <1>26. \A m \in Recs : PlainInv(req[m], rec[m], m \in peek)
    BY ReqAt
  <1>27. QED
    BY <1>12, <1>15, <1>16, <1>18, <1>22, <1>23, <1>25, <1>26 DEF ReqInv

\* An effect arrives: it is the next chunk of its request, and it starts the answer,
\* continues it, or finds nobody to give it to.
LEMMA KickKeeps == ASSUME ReqInv, Kick PROVE ReqInv'
  <1>1. /\ ReqTypes /\ SaidInv(ova, eyre, said) /\ InOrder(eff)
        /\ \A i \in DOMAIN eff : EffInv(eff[i], said, eyre)
    BY DEF ReqInv
  <1>2. PICK ef \in Seq(Effs) : ef = eff /\ ef # <<>>
    BY <1>1 DEF ReqTypes, Kick
  <1>3. PICK e \in Effs : e = Head(ef) /\ e = ef[1]
    BY <1>2, HeadTailProperties
  <1>4. PICK t \in Seq(Effs) : t = Tail(ef) /\ eff' = t
    BY <1>2, HeadTailProperties DEF Kick
  <1>5. /\ 1 \in DOMAIN ef /\ DOMAIN ef = 1 .. Len(ef) /\ DOMAIN t = 1 .. Len(ef) - 1
        /\ \A i \in 1 .. Len(ef) - 1 : t[i] = ef[i + 1]
    BY <1>2, <1>4
  <1>6. ASSUME NEW i \in DOMAIN t PROVE i + 1 \in DOMAIN ef /\ t[i] = ef[i + 1]
    BY <1>5
  <1>7. InOrder(t) /\ \A i \in DOMAIN t : EffInv(t[i], said, eyre)
    <2>1. ASSUME NEW i \in DOMAIN t, NEW j \in DOMAIN t, i < j, t[i].rec = t[j].rec PROVE t[i].dat[1] < t[j].dat[1]
      <3>1. i + 1 \in DOMAIN ef /\ t[i] = ef[i + 1] /\ j + 1 \in DOMAIN ef /\ t[j] = ef[j + 1]
        BY <1>6
      <3>2. i + 1 < j + 1
        BY <1>5, <2>1
      <3>3. QED
        BY <1>1, <1>2, <2>1, <3>1, <3>2 DEF InOrder
    <2>2. ASSUME NEW i \in DOMAIN t PROVE EffInv(t[i], said, eyre)
      BY <1>1, <1>2, <1>6
    <2>3. QED
      BY <2>1, <2>2 DEF InOrder
  <1>8. PICK r \in Recs : r = e.rec
    BY DEF Effs
  <1>9. PICK n \in Nat : n = Len(said[r])
    BY ReqAt
  <1>10. /\ EffInv(e, said, eyre) /\ e.dat[1] \in 1 .. n /\ e.complete \in BOOLEAN /\ e.dat \in Seq(Nat)
         /\ e.typ \in {"start", "continue"}
    <2>1. EffInv(e, said, eyre)
      BY <1>1, <1>2, <1>3, <1>5
    <2>2. QED
      BY <1>8, <1>9, <2>1 DEF EffInv, Effs
  <1>11. eyre[r] \notin {"idle", "asked"} /\ Planned(ova, eyre, r)
    <2>1. n # 0
      BY <1>10
    <2>2. QED
      BY <1>1, <1>9, <2>1 DEF SaidInv, Planned
  <1>12. ASSUME NEW m \in Recs, m # r, NEW d \in Nat, NEW k \in Nat, Pending(eff, m, d, k) PROVE Pending(t, m, d, k)
    BY <1>2, <1>3, <1>4, <1>8, <1>12, PendingTail
  <1>13. ASSUME NEW d \in Nat, Pending(eff, r, d, n) PROVE e.dat[1] = d + 1 /\ Pending(t, r, d + 1, n)
    BY <1>1, <1>2, <1>3, <1>4, <1>8, <1>10, <1>13, PendingTail, SMTT(30)
  <1>14. UNCHANGED <<rec, peek, ova, eyre, said, rend>>
    BY DEF Kick
  <1>15. PICK q \in Reqs : q = req[r]
    BY ReqAt
  <1>16. PlainInv(q, rec[r], r \in peek) /\ PlannedInv(q, rec[r], r \in peek, eyre[r], n, eff, r)
    BY <1>9, <1>11, <1>15, ReqAt
  <1>17. Found(r) <=> rec[r] = "open"
    BY <1>15, <1>16 DEF Found, PlannedInv
  <1>18. IF rec[r] = "open"
         THEN IF e.typ = "start"
              THEN req' = [req EXCEPT ![r] = StartRespond(q, e.dat, e.complete)] /\ UNCHANGED cut
              ELSE IF NoGenerator(q) THEN cut' = TRUE /\ UNCHANGED req
              ELSE req' = [req EXCEPT ![r] = ContinueRespond(q, e.dat, e.complete)] /\ UNCHANGED cut
         ELSE UNCHANGED <<req, cut>>
    BY <1>2, <1>3, <1>8, <1>15, <1>17 DEF Kick
  <1>19. cut' \in BOOLEAN
    BY <1>18, ReqAt
  <1>20. \E s \in Reqs : /\ req' = [req EXCEPT ![r] = s] /\ PlainInv(s, rec[r], r \in peek)
                         /\ PlannedInv(s, rec[r], r \in peek, eyre[r], n, t, r)
    <2>1. req = [req EXCEPT ![r] = q]
      BY <1>15, ReqAt
    <2>2. CASE rec[r] # "open"
      <3>1. req' = [req EXCEPT ![r] = q]
        BY <1>18, <2>1, <2>2
      <3>2. PlannedInv(q, rec[r], r \in peek, eyre[r], n, t, r)
        BY <1>16, <2>2 DEF PlannedInv, AnswerInv
      <3>3. QED
        BY <1>16, <3>1, <3>2
    <2>3. CASE rec[r] = "open" /\ TimedOut(q)
      <3>1. StartRespond(q, e.dat, e.complete) = q /\ NoGenerator(q)
        BY <2>3 DEF TimedOut, StartRespond, NoGenerator
      <3>2. req' = [req EXCEPT ![r] = q]
        BY <1>18, <2>1, <2>3, <3>1
      <3>3. PlannedInv(q, rec[r], r \in peek, eyre[r], n, t, r)
        BY <1>16, <2>3 DEF PlannedInv, AnswerInv
      <3>4. QED
        BY <1>16, <3>2, <3>3
    <2>4. CASE rec[r] = "open" /\ Waits(q) /\ Pending(eff, r, 0, n)
      <3>1. e.dat[1] = 1 /\ Pending(t, r, 1, n) /\ 1 \in 1 .. n
        <4>1. e.dat[1] = 0 + 1 /\ Pending(t, r, 0 + 1, n)
          BY <1>13, <2>4
        <4>2. QED
          BY <1>10, <4>1
      <3>2. e.typ = "start" /\ e.dat = <<1>>
        BY <1>10, <3>1 DEF EffInv
      <3>3. q.sat = "plan" /\ q.out = <<>> /\ q.lst = "con" /\ r \notin peek /\ q.kil = 0
        BY <1>16, <2>4 DEF Waits, PlannedInv, PlainInv
      <3>4. PICK s \in Reqs :
               /\ s = StartRespond(q, e.dat, e.complete) /\ s.sat = "ripe" /\ s.lst = q.lst /\ s.gen /\ s.dun = e.complete
               /\ s.kil = q.kil /\ s.out = q.out \o e.dat /\ s.bod = <<>> /\ (s.fly = "final" => s.dun)
        <4>1. q.sat = "plan" /\ e.dat \in Seq(Nat) /\ e.complete \in BOOLEAN
          BY <1>10, <3>3
        <4>2. QED
          BY <4>1, StartFacts, ZenonT(60)
      <3>5. s.out \o s.bod = Parts(1)
        <4>1. <<>> \o <<1>> = <<1>> /\ <<1>> \o <<>> = <<1>>
          OBVIOUS
        <4>2. Parts(1) = <<1>>
          <5>1. Parts(1) \in Seq(Nat) /\ Len(Parts(1)) = 1 /\ Parts(1)[1] = 1
            BY DEF Parts
          <5>2. QED
            BY <5>1
        <4>3. QED
          BY <3>2, <3>3, <3>4, <4>1, <4>2, ZenonT(60)
      <3>6. s.dun => 1 = n /\ eyre[r] \in {"done", "dead"}
        BY <1>8, <1>9, <1>10, <3>1, <3>4 DEF EffInv
      <3>7. Served(s, eyre[r], n, 1)
        BY <3>4, <3>5, <3>6 DEF Served
      <3>8. PlannedInv(s, rec[r], r \in peek, eyre[r], n, t, r) /\ PlainInv(s, rec[r], r \in peek)
        BY <2>4, <3>1, <3>3, <3>4, <3>7 DEF PlannedInv, AnswerInv, PlainInv
      <3>9. QED
        BY <1>18, <2>4, <3>2, <3>4, <3>8
    <2>5. ASSUME NEW d \in 1 .. n, rec[r] = "open", Served(q, eyre[r], n, d), Pending(eff, r, d, n)
          PROVE  \E s \in Reqs : /\ req' = [req EXCEPT ![r] = s] /\ PlainInv(s, rec[r], r \in peek)
                                 /\ PlannedInv(s, rec[r], r \in peek, eyre[r], n, t, r)
      <3>1. e.dat[1] = d + 1 /\ Pending(t, r, d + 1, n)
        BY <1>13, <2>5
      <3>2. d + 1 \in 1 .. n /\ d # n /\ e.typ = "continue" /\ e.dat = <<d + 1>>
        <4>1. d + 1 # 1 /\ d + 1 \in 1 .. n
          BY <1>10, <3>1
        <4>2. e.dat = <<d + 1>> /\ e.typ # "start"
          BY <1>10, <3>1, <4>1 DEF EffInv
        <4>3. QED
          BY <1>10, <4>1, <4>2
      <3>3. /\ q.sat = "ripe" /\ q.gen /\ q.lst = "con" /\ r \notin peek /\ q.kil = 0 /\ q.fly # "final"
            /\ q.out \o q.bod = Parts(d) /\ ~NoGenerator(q)
        BY <1>16, <2>5, <3>2 DEF Served, PlannedInv, PlainInv, NoGenerator
      <3>4. PICK s \in Reqs :
               /\ s = ContinueRespond(q, e.dat, e.complete) /\ s.sat = q.sat /\ s.lst = q.lst /\ s.gen = q.gen /\ s.kil = q.kil
               /\ q.sat = "ripe" => /\ s.dun = e.complete
                                    /\ s.out \o s.bod = (q.out \o q.bod) \o e.dat
                                    /\ s.fly = "final" => q.fly = "final" \/ (e.complete /\ s.bod = <<>>)
        <4>1. q \in Reqs /\ e.dat \in Seq(Nat) /\ e.complete \in BOOLEAN
          BY <1>10
        <4>2. QED
          BY <4>1, ContinueFacts, Zenon
      <3>5. s.out \o s.bod = Parts(d + 1)
        <4>1. d \in Nat /\ Parts(d) \o <<d + 1>> = Parts(d + 1)
          BY PartsAppend, SMTT(30)
        <4>2. s.out \o s.bod = Parts(d) \o <<d + 1>>
          BY <3>2, <3>3, <3>4
        <4>3. QED
          BY <4>1, <4>2, SMTT(30)
      <3>6. s.dun => d + 1 = n /\ eyre[r] \in {"done", "dead"}
        BY <1>8, <1>9, <1>10, <3>1, <3>3, <3>4 DEF EffInv
      <3>7. Served(s, eyre[r], n, d + 1)
        BY <3>3, <3>4, <3>5, <3>6 DEF Served
      <3>8. PlannedInv(s, rec[r], r \in peek, eyre[r], n, t, r) /\ PlainInv(s, rec[r], r \in peek)
        BY <2>5, <3>1, <3>2, <3>3, <3>4, <3>7 DEF PlannedInv, AnswerInv, PlainInv
      <3>9. req' = [req EXCEPT ![r] = s]
        BY <1>18, <2>5, <3>2, <3>3, <3>4
      <3>10. QED
        BY <3>8, <3>9
    <2>6. QED
      BY <1>16, <2>2, <2>3, <2>4, <2>5 DEF PlannedInv, AnswerInv
  <1>21. PICK s \in Reqs : /\ req' = [req EXCEPT ![r] = s] /\ PlainInv(s, rec[r], r \in peek)
                           /\ PlannedInv(s, rec[r], r \in peek, eyre[r], n, t, r)
    BY <1>20
  <1>22. ReqTypes'
    BY <1>1, <1>4, <1>14, <1>19, <1>21 DEF ReqTypes
  <1>23. req'[r] = s /\ \A m \in Recs : m # r => req'[m] = req[m]
    BY <1>1, <1>21 DEF ReqTypes
  <1>24. ASSUME NEW m \in Recs, m # r
         PROVE  /\ PlainInv(req[m], rec[m], m \in peek)
                /\ Planned(ova, eyre, m) => PlannedInv(req[m], rec[m], m \in peek, eyre[m], Len(said[m]), t, m)
    <2>1. PICK k \in Nat : k = Len(said[m])
      BY ReqAt
    <2>2. ASSUME Planned(ova, eyre, m)
          PROVE  PlannedInv(req[m], rec[m], m \in peek, eyre[m], k, t, m)
      <3>1. PlannedInv(req[m], rec[m], m \in peek, eyre[m], k, eff, m)
        BY <2>1, <2>2, ReqAt
      <3>2. \A d \in 0 .. k : Pending(eff, m, d, k) => Pending(t, m, d, k)
        BY <1>12, <1>24
      <3>3. AnswerInv(req[m], rec[m], eyre[m], k, t, m)
        BY <3>1, <3>2 DEF PlannedInv, AnswerInv
      <3>4. QED
        BY <3>1, <3>3 DEF PlannedInv
    <2>3. QED
      BY <2>1, <2>2, ReqAt
  <1>25. ASSUME NEW m \in Recs
         PROVE  /\ PlainInv(req'[m], rec[m], m \in peek)
                /\ Planned(ova, eyre, m) => PlannedInv(req'[m], rec[m], m \in peek, eyre[m], Len(said[m]), t, m)
    BY <1>9, <1>21, <1>23, <1>24
  <1>26. QED
    BY <1>1, <1>4, <1>7, <1>14, <1>22, <1>25 DEF ReqInv

\* Every step keeps the invariant of the requests.
LEMMA ReqNextKeeps == ReqInv /\ [ReqNext]_rvars => ReqInv'
  <1> SUFFICES ASSUME ReqInv, [ReqNext]_rvars PROVE ReqInv'
    OBVIOUS
  <1>1. ASSUME NEW r \in Recs, \/ RecAccept(r) \/ SatAccept(r) \/ SeqAccept(r) \/ SeqContinue(r) \/ TimerCb(r)
                               \/ EyreSay(r) \/ Proceed(r) \/ Written(r) \/ HangUp(r)
        PROVE  ReqInv'
    BY <1>1, RecAcceptKeeps, SatAcceptKeeps, SeqAcceptKeeps, SeqContinueKeeps, TimerCbKeeps, EyreSayKeeps,
       ProceedKeeps, DisposeKeeps DEF Written, HangUp
  <1>2. CASE Slog \/ Heartbeat \/ Exit
    <2>1. <<0>> \in Seq(Nat) /\ <<10>> \in Seq(Nat) /\ rend \in BOOLEAN
      BY DEF ReqInv, ReqTypes
    <2>2. CASE Slog
      BY <2>1, <2>2, StreamKeeps DEF Slog
    <2>3. CASE Heartbeat
      BY <2>1, <2>3, StreamKeeps DEF Heartbeat
    <2>4. CASE Exit
      BY <2>1, <2>4, StreamKeeps DEF Exit
    <2>5. QED
      BY <1>2, <2>2, <2>3, <2>4
  <1>3. CASE UNCHANGED rvars
    BY <1>3 DEF rvars, ReqInv, ReqTypes
  <1>4. QED
    BY <1>1, <1>2, <1>3, EyreTakeKeeps, KickKeeps DEF ReqNext

\* What a client of the web server is sent is the beginning of what %eyre said, and all
\* of it when it was told that it is complete, however chunks, h2o's writes, timeouts and
\* hang-ups interleave; and a request that is gone was cancelled once or completed
\* (_http_continue_respond(), _http_hgen_proceed(), _http_req_timer_cb(), _http_req_kill()).
THEOREM ResponseStaysWhole == ReqSpec => [](ReqTypeOK /\ ResponseWhole)
  <1>1. ReqInit => ReqInv
    BY ReqInitInv
  <1>2. ReqInv /\ [ReqNext]_rvars => ReqInv'
    BY ReqNextKeeps
  <1>3. ReqInv => ReqTypeOK /\ ResponseWhole
    BY ReqInvSafe
  <1>4. QED
    BY <1>1, <1>2, <1>3, PTL DEF ReqSpec

-----------------------------------------------------------------------------
(* The servers                                                             *)

Servs == [h2o : {"none", "up", "disposed", "freed"}, liv : BOOLEAN, shut : BOOLEAN,
          hon : SUBSET (1 .. MaxHon), coq : 1 .. MaxHon + 1, ver : 0 .. MaxForm]

ServTypes ==
    /\ htp \in Seq(Sevs) /\ srv \in [Sevs -> Servs] /\ cls \in Seq(Sevs \X (0 .. MaxHon))
    /\ tims \in Seq(Sevs) /\ nsev \in 0 .. MaxServ /\ vers \in 0 .. MaxForm /\ form \in {0, vers}
    /\ fault \in Faults /\ turn \in BOOLEAN /\ hend \in BOOLEAN

\* What is known of a server x with number s, when n are made and v is the newest
\* configuration: nothing refers to it before it is made; it is up while it has
\* connections; if it takes connections it has that configuration and a restart finds
\* it; it is not up when it is to be freed, and shut when it is being closed.
ServInv(x, s, list, cl, ts, n, v) ==
    /\ s > n => /\ x.h2o = "none" /\ x.hon = {} /\ ~x.shut
                /\ ~Contains(list, s) /\ ~Contains(ts, s) /\ ~Contains(cl, Closed(s))
    /\ x.hon # {} => x.h2o = "up"
    /\ x.h2o = "up" /\ ~x.shut => x.ver = v /\ x.liv /\ Contains(list, s)
    /\ Contains(ts, s) => x.h2o # "up"
    /\ Contains(cl, Closed(s)) => x.shut

HonInv ==
    /\ ServTypes /\ (turn => cls # <<>>)
    /\ \A s \in Sevs : ServInv(srv[s], s, htp, cls, tims, nsev, vers)

\* The invariant of the servers gives what the run checks.
LEMMA HonInvSafe == HonInv => ServTypeOK /\ HonServed
  <1> SUFFICES ASSUME HonInv PROVE ServTypeOK /\ HonServed
    OBVIOUS
  <1>1. ServTypes /\ \A s \in Sevs : ServInv(srv[s], s, htp, cls, tims, nsev, vers)
    BY DEF HonInv
  <1>2. form \in 0 .. vers
    BY <1>1 DEF ServTypes
  <1>3. ServTypeOK
    BY <1>1, <1>2 DEF ServTypes, ServTypeOK, Servs
  <1>4. HonServed
    BY <1>1 DEF HonServed, ServInv
  <1>5. QED
    BY <1>3, <1>4

\* There is no server at first.
LEMMA ServInitInv == ServInit \/ ServParked => HonInv
  <1> SUFFICES ASSUME ServInit \/ ServParked PROVE HonInv
    OBVIOUS
  <1>1. /\ htp = <<>> /\ srv = [s \in Sevs |-> NoServ] /\ cls = <<>> /\ turn = FALSE /\ tims = <<>>
        /\ form = 0 /\ vers = 0 /\ nsev = 0 /\ fault \in Faults /\ hend = FALSE
    BY DEF ServInit, ServParked, Faults
  <1>2. /\ NoServ \in Servs /\ NoServ.h2o = "none" /\ NoServ.hon = {} /\ ~NoServ.shut
    BY ServBounds DEF NoServ, Servs
  <1>3. ServTypes
    <2>1. 0 \in 0 .. MaxServ /\ 0 \in 0 .. MaxForm
      BY ServBounds
    <2>2. <<>> \in Seq(Sevs) /\ <<>> \in Seq(Sevs \X (0 .. MaxHon))
      OBVIOUS
    <2>3. srv \in [Sevs -> Servs]
      BY <1>1, <1>2
    <2>4. QED
      BY <1>1, <2>1, <2>2, <2>3 DEF ServTypes
  <1>4. \A e : ~Contains(<<>>, e)
    BY DEF Contains
  <1>5. ASSUME NEW s \in Sevs PROVE ServInv(srv[s], s, htp, cls, tims, nsev, vers)
    BY <1>1, <1>2, <1>4 DEF ServInv
  <1>6. QED
    BY <1>1, <1>3, <1>5 DEF HonInv

\* What is in two sequences, one after the other.
LEMMA ContainsConcat ==
    ASSUME NEW S, NEW x \in Seq(S), NEW y \in Seq(S), NEW e
    PROVE  x \o y \in Seq(S) /\ (Contains(x \o y, e) <=> Contains(x, e) \/ Contains(y, e))
  <1>1. PICK z \in Seq(S) : /\ z = x \o y /\ Len(z) = Len(x) + Len(y)
                            /\ \A i \in 1 .. Len(z) : z[i] = IF i <= Len(x) THEN x[i] ELSE y[i - Len(x)]
    <2>1. PICK z : z = x \o y
      OBVIOUS
    <2>2. z \in Seq(S) /\ Len(z) = Len(x) + Len(y)
      BY <2>1, ConcatProperties
    <2>3. \A i \in 1 .. Len(x) + Len(y) : z[i] = IF i <= Len(x) THEN x[i] ELSE y[i - Len(x)]
      BY <2>1, ConcatProperties
    <2>4. QED
      BY <2>1, <2>2, <2>3
  <1>2. Len(x) \in Nat /\ Len(y) \in Nat
    OBVIOUS
  <1>3. ASSUME NEW i \in 1 .. Len(z), z[i] = e PROVE Contains(x, e) \/ Contains(y, e)
    <2>1. CASE i <= Len(x)
      BY <1>1, <1>3, <2>1 DEF Contains
    <2>2. CASE ~(i <= Len(x))
      <3>1. i - Len(x) \in 1 .. Len(y) /\ y[i - Len(x)] = e
        BY <1>1, <1>2, <1>3, <2>2
      <3>2. QED
        BY <3>1 DEF Contains
    <2>3. QED
      BY <2>1, <2>2
  <1>4. ASSUME NEW i \in 1 .. Len(x), x[i] = e PROVE Contains(z, e)
    <2>1. i \in 1 .. Len(z) /\ z[i] = e
      BY <1>1, <1>2, <1>4
    <2>2. QED
      BY <2>1 DEF Contains
  <1>5. ASSUME NEW i \in 1 .. Len(y), y[i] = e PROVE Contains(z, e)
    <2>1. PICK j \in 1 .. Len(z) : j = Len(x) + i
      BY <1>1, <1>2
    <2>2. ~(j <= Len(x)) /\ j - Len(x) = i
      BY <1>2, <2>1
    <2>3. z[j] = e
      BY <1>1, <1>5, <2>2
    <2>4. QED
      BY <2>3 DEF Contains
  <1>6. QED
    BY <1>1, <1>3, <1>4, <1>5, SMTT(30) DEF Contains

\* What is in a sequence that lost its first member, or one in its middle.
LEMMA ContainsLess ==
    ASSUME NEW S, NEW x \in Seq(S), NEW e
    PROVE  /\ x # <<>> => Tail(x) \in Seq(S) /\ (Contains(Tail(x), e) => Contains(x, e))
           /\ \A i \in DOMAIN x : /\ RemoveAt(x, i) \in Seq(S)
                                  /\ Contains(RemoveAt(x, i), e) => Contains(x, e)
                                  /\ x[i] # e /\ Contains(x, e) => Contains(RemoveAt(x, i), e)
  <1>1. ASSUME x # <<>> PROVE Tail(x) \in Seq(S) /\ (Contains(Tail(x), e) => Contains(x, e))
    <2>1. PICK t \in Seq(S) : t = Tail(x)
      BY <1>1, HeadTailProperties
    <2>2. Len(t) = Len(x) - 1 /\ \A i \in 1 .. Len(t) : t[i] = x[i + 1]
      BY <1>1, <2>1, HeadTailProperties
    <2>3. \A i \in 1 .. Len(t) : i + 1 \in 1 .. Len(x)
      BY <2>2
    <2>4. QED
      BY <2>1, <2>2, <2>3 DEF Contains
  <1>2. ASSUME NEW i \in DOMAIN x
        PROVE  /\ RemoveAt(x, i) \in Seq(S)
               /\ Contains(RemoveAt(x, i), e) => Contains(x, e)
               /\ x[i] # e /\ Contains(x, e) => Contains(RemoveAt(x, i), e)
    <2>1. i \in 1 .. Len(x) /\ Len(x) \in Nat
      OBVIOUS
    <2>2. PICK t \in Seq(S) : /\ t = RemoveAt(x, i) /\ Len(t) = Len(x) - 1
                              /\ \A j \in 1 .. Len(x) - 1 : t[j] = IF j < i THEN x[j] ELSE x[j + 1]
      BY <2>1, RemoveAtFacts
    <2>3. ASSUME NEW j \in 1 .. Len(t), t[j] = e PROVE Contains(x, e)
      <3>1. j \in 1 .. Len(x) /\ j + 1 \in 1 .. Len(x) /\ (x[j] = e \/ x[j + 1] = e)
        BY <2>1, <2>2, <2>3
      <3>2. QED
        BY <3>1 DEF Contains
    <2>4. ASSUME NEW j \in 1 .. Len(x), x[j] = e, x[i] # e PROVE Contains(t, e)
      <3>1. CASE j < i
        <4>1. j \in 1 .. Len(t) /\ t[j] = e
          BY <2>1, <2>2, <2>4, <3>1, SMTT(30)
        <4>2. QED
          BY <4>1 DEF Contains
      <3>2. CASE ~(j < i)
        <4>1. j # i
          BY <2>4
        <4>2. PICK k \in 1 .. Len(t) : k = j - 1
          BY <2>1, <2>2, <3>2, <4>1
        <4>3. ~(k < i) /\ k + 1 = j
          BY <2>1, <3>2, <4>1, <4>2
        <4>4. t[k] = e
          BY <2>2, <2>4, <4>3
        <4>5. QED
          BY <4>4 DEF Contains
      <3>3. QED
        BY <3>1, <3>2
    <2>5. QED
      BY <2>2, <2>3, <2>4 DEF Contains
  <1>3. QED
    BY <1>1, <1>2

\* What is known of a server, read from the invariant.
LEMMA ServAt ==
    ASSUME HonInv
    PROVE  /\ htp \in Seq(Sevs) /\ srv \in [Sevs -> Servs] /\ cls \in Seq(Sevs \X (0 .. MaxHon))
           /\ tims \in Seq(Sevs) /\ nsev \in 0 .. MaxServ /\ vers \in 0 .. MaxForm /\ form \in {0, vers}
           /\ fault \in Faults /\ turn \in BOOLEAN /\ hend \in BOOLEAN
           /\ \A s \in Sevs : ServInv(srv[s], s, htp, cls, tims, nsev, vers)
           /\ turn => cls # <<>>
  BY DEF HonInv, ServTypes

\* A step that changes one server and makes none keeps the invariant if it keeps it for
\* that one.
LEMMA ServOne ==
    ASSUME HonInv, NEW s \in Sevs, NEW x \in Servs, srv' = [srv EXCEPT ![s] = x],
           cls' \in Seq(Sevs \X (0 .. MaxHon)), \A m \in Sevs : Contains(cls', Closed(m)) => Contains(cls, Closed(m)),
           tims' \in Seq(Sevs), \A m \in Sevs : m # s /\ Contains(tims', m) => Contains(tims, m),
           htp' = htp, vers' = vers, nsev' = nsev, form' \in {0, vers}, fault' \in Faults,
           turn' \in BOOLEAN, hend' \in BOOLEAN, turn' => cls' # <<>>,
           ServInv(x, s, htp, cls', tims', nsev, vers)
    PROVE  HonInv'
  <1>1. ServTypes'
    BY ServAt DEF ServTypes
  <1>2. ASSUME NEW m \in Sevs PROVE ServInv(srv'[m], m, htp, cls', tims', nsev, vers)
    <2>1. CASE m = s
      <3>1. srv'[m] = x
        BY <2>1, ServAt
      <3>2. QED
        BY <2>1, <3>1
    <2>2. CASE m # s
      <3>1. srv'[m] = srv[m] /\ ServInv(srv[m], m, htp, cls, tims, nsev, vers)
        BY <2>2, ServAt
      <3>2. QED
        BY <2>2, <3>1 DEF ServInv
    <2>3. QED
      BY <2>1, <2>2
  <1>3. QED
    BY <1>1, <1>2 DEF HonInv

\* _http_serv_start(): what a new server is.
LEMMA StartedFacts ==
    ASSUME NEW v \in 0 .. MaxForm, NEW ok \in BOOLEAN
    PROVE  \E x \in Servs : /\ x = ServStart(v, ok) /\ x.hon = {} /\ ~x.shut /\ x.liv /\ x.ver = v
                            /\ x.h2o # "up" <=> ~ok
  <1>1. NoServ \in Servs /\ NoServ.hon = {} /\ ~NoServ.shut
    BY ServBounds DEF NoServ, Servs
  <1>2. PICK n \in Servs : n = NoServ /\ n.hon = {} /\ ~n.shut
    BY <1>1
  <1>3. PICK z \in Servs : z = ServNew(v) /\ z.hon = {} /\ ~z.shut /\ z.liv /\ z.ver = v
    <2>1. PICK z : z = [n EXCEPT !.liv = TRUE, !.ver = v]
      OBVIOUS
    <2>2. z \in Servs /\ z.hon = {} /\ ~z.shut /\ z.liv /\ z.ver = v
      BY <1>2, <2>1 DEF Servs
    <2>3. z = ServNew(v)
      BY <1>2, <2>1 DEF ServNew
    <2>4. QED
      BY <2>2, <2>3
  <1>4. PICK w \in Servs : w = InitH2o(ServNew(v)) /\ w.hon = {} /\ ~w.shut /\ w.liv /\ w.ver = v /\ w.h2o = "up"
    <2>1. PICK w : w = [z EXCEPT !.h2o = "up"]
      OBVIOUS
    <2>2. w \in Servs /\ w.hon = {} /\ ~w.shut /\ w.liv /\ w.ver = v /\ w.h2o = "up"
      BY <1>3, <2>1 DEF Servs
    <2>3. w = InitH2o(ServNew(v))
      BY <1>3, <2>1 DEF InitH2o
    <2>4. QED
      BY <2>2, <2>3
  <1>5. CASE ok
    BY <1>4, <1>5 DEF ServStart
  <1>6. CASE ~ok
    <2>1. PICK x : x = [w EXCEPT !.h2o = "disposed"]
      OBVIOUS
    <2>2. x \in Servs /\ x.hon = {} /\ ~x.shut /\ x.liv /\ x.ver = v /\ x.h2o = "disposed"
      BY <1>4, <2>1 DEF Servs
    <2>3. x = ServStart(v, ok)
      BY <1>4, <1>6, <2>1 DEF ServStart
    <2>4. QED
      BY <1>6, <2>2, <2>3
  <1>7. QED
    BY <1>5, <1>6

\* _http_serv_start_all(): when no server takes connections, the new ones get the
\* newest configuration.
LEMMA StartAllKeeps ==
    ASSUME HonInv, NEW ss \in [Sevs -> Servs], NEW ts \in Seq(Sevs), NEW v \in 0 .. MaxForm,
           StartAll(htp, ss, ts, v), vers' = v, cls' \in Seq(Sevs \X (0 .. MaxHon)),
           turn' \in BOOLEAN, hend' \in BOOLEAN, turn' => cls' # <<>>,
           \A m \in Sevs : ss[m].h2o = "up" => ss[m].shut,
           \A m \in Sevs : ServInv(ss[m], m, htp, cls', ts, nsev, v)
    PROVE  HonInv'
  <1>1. nsev \in Nat /\ nsev + 2 <= MaxServ /\ form' = 0 /\ MaxServ \in Nat /\ fault \in Faults /\ htp \in Seq(Sevs)
    BY ServBounds, ServAt DEF StartAll
  <1>2. PICK a \in Sevs, b \in Sevs : a = nsev + 1 /\ b = nsev + 2
    BY <1>1 DEF Sevs
  <1>3. CASE fault' = "exit" /\ srv' = ss /\ tims' = ts /\ htp' = htp /\ UNCHANGED <<nsev, ports>>
    <2>1. ServTypes'
      BY <1>1, <1>3, ServAt DEF ServTypes, Faults
    <2>2. QED
      BY <1>3, <2>1 DEF HonInv
  <1>4. ASSUME NEW ok \in {<<TRUE, TRUE>>, <<FALSE, TRUE>>, <<TRUE, FALSE>>},
               srv' = [ss EXCEPT ![nsev + 1] = ServStart(v, ok[1]), ![nsev + 2] = ServStart(v, ok[2])],
               tims' = (IF ok[1] THEN ts ELSE Append(ts, nsev + 1)) \o (IF ok[2] THEN <<>> ELSE <<nsev + 2>>),
               htp' = <<nsev + 2, nsev + 1>> \o htp, nsev' = nsev + 2, fault' = fault
        PROVE  HonInv'
    <2>1. PICK k \in BOOLEAN, l \in BOOLEAN : k = ok[1] /\ l = ok[2]
      <3>1. ok = <<TRUE, TRUE>> \/ ok = <<FALSE, TRUE>> \/ ok = <<TRUE, FALSE>>
        BY <1>4
      <3>2. ok[1] \in BOOLEAN /\ ok[2] \in BOOLEAN
        <4>1. CASE ok = <<TRUE, TRUE>>
          BY <4>1
        <4>2. CASE ok = <<FALSE, TRUE>>
          BY <4>2
        <4>3. CASE ok = <<TRUE, FALSE>>
          BY <4>3
        <4>4. QED
          BY <3>1, <4>1, <4>2, <4>3
      <3>3. QED
        BY <3>2
    <2>2. PICK x \in Servs : /\ x = ServStart(v, k) /\ x.hon = {} /\ ~x.shut /\ x.liv /\ x.ver = v
                             /\ x.h2o # "up" <=> ~k
      BY StartedFacts
    <2>3. PICK y \in Servs : /\ y = ServStart(v, l) /\ y.hon = {} /\ ~y.shut /\ y.liv /\ y.ver = v
                             /\ y.h2o # "up" <=> ~l
      BY StartedFacts
    <2>4. PICK p \in Seq(Sevs), q \in Seq(Sevs) : /\ p = IF k THEN <<>> ELSE <<a>>
                                                  /\ q = IF l THEN <<>> ELSE <<b>>
      <3>1. <<>> \in Seq(Sevs) /\ <<a>> \in Seq(Sevs) /\ <<b>> \in Seq(Sevs)
        OBVIOUS
      <3>2. (IF k THEN <<>> ELSE <<a>>) \in Seq(Sevs) /\ (IF l THEN <<>> ELSE <<b>>) \in Seq(Sevs)
        BY <3>1
      <3>3. QED
        BY <3>2
    <2>5. \A m : (Contains(p, m) <=> ~k /\ m = a) /\ (Contains(q, m) <=> ~l /\ m = b)
      <3>1. \A m : ~Contains(<<>>, m) /\ (Contains(<<a>>, m) <=> m = a) /\ (Contains(<<b>>, m) <=> m = b)
        <4>1. \A m : ~Contains(<<>>, m)
          BY DEF Contains
        <4>2. 1 .. 1 = {1} /\ Len(<<a>>) = 1 /\ Len(<<b>>) = 1 /\ <<a>>[1] = a /\ <<b>>[1] = b
          OBVIOUS
        <4>3. QED
          BY <4>1, <4>2 DEF Contains
      <3>2. QED
        BY <2>4, <3>1
    <2>6. tims' = (ts \o p) \o q
      <3>1. ts \o <<>> = ts /\ Append(ts, a) = ts \o <<a>>
        BY SMTT(30)
      <3>2. QED
        BY <1>2, <1>4, <2>1, <2>4, <3>1
    <2>7. tims' \in Seq(Sevs) /\ \A m : Contains(tims', m) => Contains(ts, m) \/ (~k /\ m = a) \/ (~l /\ m = b)
      <3>1. ts \o p \in Seq(Sevs) /\ \A m : Contains(ts \o p, m) <=> Contains(ts, m) \/ Contains(p, m)
        BY ContainsConcat
      <3>2. PICK u \in Seq(Sevs) : u = ts \o p
        BY <3>1
      <3>3. u \o q \in Seq(Sevs) /\ \A m : Contains(u \o q, m) <=> Contains(u, m) \/ Contains(q, m)
        BY ContainsConcat
      <3>4. QED
        BY <2>5, <2>6, <3>1, <3>2, <3>3
    <2>8. PICK h \in Seq(Sevs) : h = <<b, a>> /\ \A m : Contains(h, m) <=> m \in {a, b}
      <3>1. PICK h : h = <<b, a>>
        OBVIOUS
      <3>2. h \in Seq(Sevs) /\ Len(h) = 2 /\ h[1] = b /\ h[2] = a
        BY <3>1
      <3>3. 1 .. 2 = {1, 2}
        OBVIOUS
      <3>4. QED
        BY <3>1, <3>2, <3>3, ZenonT(60) DEF Contains
    <2>9. htp' \in Seq(Sevs) /\ \A m : Contains(htp', m) <=> m \in {a, b} \/ Contains(htp, m)
      <3>1. h \o htp \in Seq(Sevs) /\ \A m : Contains(h \o htp, m) <=> Contains(h, m) \/ Contains(htp, m)
        BY <1>1, ContainsConcat
      <3>2. QED
        BY <1>2, <1>4, <2>8, <3>1
    <2>10. srv' = [ss EXCEPT ![a] = x, ![b] = y]
      BY <1>2, <1>4, <2>1, <2>2, <2>3
    <2>11. a # b /\ a > nsev /\ b > nsev /\ nsev' = nsev + 2 /\ \A m \in Sevs : m > nsev + 2 => m > nsev /\ m # a /\ m # b
      BY <1>1, <1>2, <1>4 DEF Sevs
    <2>12. /\ srv' \in [Sevs -> Servs] /\ srv'[a] = x /\ srv'[b] = y
           /\ \A m \in Sevs : m # a /\ m # b => srv'[m] = ss[m]
      BY <2>10, <2>11
    <2>13. ASSUME NEW m \in Sevs PROVE ServInv(srv'[m], m, htp', cls', tims', nsev', v)
      <3>1. ServInv(ss[m], m, htp, cls', ts, nsev, v)
        OBVIOUS
      <3>2. CASE m # a /\ m # b
        <4>1. /\ srv'[m] = ss[m] /\ (Contains(tims', m) => Contains(ts, m))
              /\ (Contains(htp', m) <=> Contains(htp, m)) /\ (m > nsev' => m > nsev)
          BY <2>7, <2>9, <2>11, <2>12, <3>2, SMTT(30)
        <4>2. QED
          BY <3>1, <4>1 DEF ServInv
      <3>3. CASE m = a
        <4>1. ~Contains(ts, m) /\ ~Contains(cls', Closed(m)) /\ Contains(htp', m) /\ ~(m > nsev') /\ srv'[m] = x
          BY <1>1, <1>2, <2>9, <2>11, <2>12, <3>1, <3>3 DEF ServInv
        <4>2. Contains(tims', m) => ~k
          BY <2>7, <2>11, <3>3, <4>1
        <4>3. QED
          BY <2>2, <4>1, <4>2 DEF ServInv
      <3>4. CASE m = b
        <4>1. ~Contains(ts, m) /\ ~Contains(cls', Closed(m)) /\ Contains(htp', m) /\ ~(m > nsev') /\ srv'[m] = y
          BY <1>1, <1>2, <2>9, <2>11, <2>12, <3>1, <3>4 DEF ServInv
        <4>2. Contains(tims', m) => ~l
          BY <2>7, <2>11, <3>4, <4>1
        <4>3. QED
          BY <2>3, <4>1, <4>2 DEF ServInv
      <3>5. QED
        BY <3>2, <3>3, <3>4
    <2>14. nsev' \in 0 .. MaxServ
      BY <1>1, <1>4
    <2>15. ServTypes'
      BY <1>1, <1>4, <2>7, <2>9, <2>12, <2>14 DEF ServTypes
    <2>16. QED
      BY <2>13, <2>15 DEF HonInv
  <1>5. QED
    BY <1>3, <1>4 DEF StartAll

\* _http_serv_restart() closes the servers in the list that are alive, all of them.
LEMMA ToCloseFacts ==
    ASSUME HonInv
    PROVE  /\ ToClose \in Seq(Sevs) /\ DOMAIN ToClose = 1 .. Len(ToClose)
           /\ \A s : Contains(ToClose, s) => Contains(htp, s)
           /\ \A s : Contains(htp, s) /\ srv[s].liv => Contains(ToClose, s)
  <1>1. PICK n \in Nat : n = Len(htp) /\ DOMAIN htp = 1 .. n /\ \A i \in 1 .. n : htp[i] \in Sevs
    BY ServAt
  <1>2. PICK A : A = {i \in DOMAIN htp : srv[htp[i]].liv}
    OBVIOUS
  <1>3. A \subseteq 1 .. n /\ A \subseteq Nat /\ IsFiniteSet(A)
    <2>1. A \in SUBSET (1 .. n) /\ IsFiniteSet(1 .. n)
      BY <1>1, <1>2, FS_Interval
    <2>2. IsFiniteSet(A)
      BY <2>1, FS_Subset
    <2>3. \A i \in 1 .. n : i \in Nat
      OBVIOUS
    <2>4. QED
      BY <2>1, <2>2, <2>3
  <1>4. PICK c \in Nat : c = Cardinality(A)
    BY <1>3, FS_CardinalityType
  <1>5. PICK R : R = [i \in A |-> i]
    OBVIOUS
  <1>6. R \in [A -> Nat] /\ \A i \in A : R[i] = i
    BY <1>3, <1>5
  <1>7. PICK l : Lists(l, A, R)
    BY <1>3, <1>6, Listing
  <1>8. /\ l \in [1 .. Cardinality(A) -> A] /\ Range(l) = A
        /\ \A i, j \in DOMAIN l : i < j => l[i] < l[j]
    BY <1>6, <1>7 DEF Lists
  <1>9. PICK w : w = CHOOSE x \in [1 .. Cardinality(A) -> A] :
                        Range(x) = A /\ \A i, j \in DOMAIN x : i < j => x[i] < x[j]
    OBVIOUS
  <1>10. w \in [1 .. c -> A] /\ Range(w) = A
    BY <1>4, <1>8, <1>9
  <1>11. ToClose = [k \in 1 .. c |-> htp[w[k]]]
    BY <1>2, <1>4, <1>9 DEF ToClose
  <1>12. \A k \in 1 .. c : w[k] \in A /\ w[k] \in 1 .. n /\ htp[w[k]] \in Sevs
    BY <1>1, <1>3, <1>10
  <1>13. PICK t : t = ToClose
    OBVIOUS
  <1>14. t \in Seq(Sevs) /\ Len(t) = c /\ DOMAIN t = 1 .. c /\ \A k \in 1 .. c : t[k] = htp[w[k]]
    BY <1>11, <1>12, <1>13
  <1>15. ASSUME NEW s, Contains(t, s) PROVE Contains(htp, s)
    BY <1>1, <1>12, <1>14, <1>15 DEF Contains
  <1>16. ASSUME NEW s, Contains(htp, s), srv[s].liv PROVE Contains(t, s)
    <2>1. PICK i \in 1 .. n : htp[i] = s
      BY <1>1, <1>16 DEF Contains
    <2>2. i \in A
      BY <1>1, <1>2, <1>16, <2>1
    <2>3. PICK k \in 1 .. c : w[k] = i
      BY <1>10, <2>2 DEF Range
    <2>4. QED
      BY <1>14, <2>1, <2>3 DEF Contains
  <1>17. QED
    BY <1>13, <1>14, <1>15, <1>16

\* u3_http_ef_form(): every server that takes connections is shut, or there was none.
LEMMA EfFormKeeps == ASSUME HonInv, EfForm PROVE HonInv'
  <1>1. /\ ~turn /\ vers \in 0 .. MaxForm /\ vers < MaxForm /\ vers' = vers + 1 /\ turn' = turn /\ hend' = hend
        /\ MaxForm \in Nat
    BY ServAt, ServBounds DEF EfForm
  <1>2. PICK v \in 0 .. MaxForm : v = vers'
    BY <1>1
  <1>3. CASE htp = <<>> /\ StartAll(htp, srv, tims, v) /\ UNCHANGED cls
    <2>1. \A e : ~Contains(<<>>, e)
      BY DEF Contains
    <2>2. ASSUME NEW m \in Sevs
          PROVE  (srv[m].h2o = "up" => srv[m].shut) /\ ServInv(srv[m], m, htp, cls', tims, nsev, v)
      <3>1. ServInv(srv[m], m, htp, cls, tims, nsev, vers)
        BY ServAt
      <3>2. srv[m].shut \in BOOLEAN /\ cls' = cls /\ ~Contains(htp, m)
        BY <1>3, <2>1, ServAt DEF Servs
      <3>3. QED
        BY <3>1, <3>2 DEF ServInv
    <2>3. /\ srv \in [Sevs -> Servs] /\ tims \in Seq(Sevs) /\ cls' \in Seq(Sevs \X (0 .. MaxHon))
          /\ turn' \in BOOLEAN /\ hend' \in BOOLEAN /\ ~turn'
      BY <1>1, <1>3, ServAt
    <2>4. QED
      BY <1>2, <1>3, <2>2, <2>3, StartAllKeeps
  <1>4. CASE Restart /\ form' = vers'
    <2>1. PICK tc \in Seq(Sevs) : /\ tc = ToClose /\ DOMAIN tc = 1 .. Len(tc)
                                  /\ \A s : Contains(tc, s) => Contains(htp, s)
                                  /\ \A s : Contains(htp, s) /\ srv[s].liv => Contains(tc, s)
      BY ToCloseFacts
    <2>2. /\ srv' = [s \in Sevs |-> IF Contains(tc, s) THEN [srv[s] EXCEPT !.shut = TRUE] ELSE srv[s]]
          /\ cls' = Reverse([i \in DOMAIN tc |-> Closed(tc[i])]) \o cls
          /\ htp' = htp /\ tims' = tims /\ nsev' = nsev
      BY <1>4, <2>1 DEF Restart
    <2>3. fault' \in Faults
      BY <1>4, ServAt, ZenonT(60) DEF Restart, Faults
    <2>4. PICK n \in Nat : n = Len(tc) /\ DOMAIN tc = 1 .. n /\ \A i \in 1 .. n : tc[i] \in Sevs
      <3>1. Len(tc) \in Nat /\ DOMAIN tc = 1 .. Len(tc) /\ \A i \in 1 .. Len(tc) : tc[i] \in Sevs
        <4>1. tc \in Seq(Sevs)
          OBVIOUS
        <4>2. QED
          BY ONLY <4>1
      <3>2. QED
        BY <3>1
    <2>5. PICK f : f = [i \in 1 .. n |-> Closed(tc[i])]
      OBVIOUS
    <2>6. f \in Seq(Sevs \X (0 .. MaxHon)) /\ Len(f) = n /\ \A i \in 1 .. n : f[i] = Closed(tc[i])
      <3>1. \A i \in 1 .. n : Closed(tc[i]) \in Sevs \X (0 .. MaxHon)
        BY <2>4, ServBounds DEF Closed
      <3>2. QED
        BY <2>5, <3>1
    <2>7. PICK g : g = Reverse(f)
      OBVIOUS
    <2>8. g \in Seq(Sevs \X (0 .. MaxHon)) /\ Len(g) = n /\ \A i \in 1 .. n : g[i] = f[(n - i) + 1]
      <3>1. \A i \in 1 .. n : (n - i) + 1 \in 1 .. n
        OBVIOUS
      <3>2. g = [i \in 1 .. n |-> f[(n - i) + 1]]
        BY <2>6, <2>7 DEF Reverse
      <3>3. QED
        BY <2>6, <3>1, <3>2
    <2>9. ASSUME NEW s \in Sevs, Contains(g, Closed(s)) PROVE Contains(tc, s)
      <3>1. PICK i \in 1 .. n : g[i] = Closed(s)
        BY <2>8, <2>9 DEF Contains
      <3>2. PICK j \in 1 .. n : j = (n - i) + 1
        OBVIOUS
      <3>3. Closed(tc[j]) = Closed(s)
        BY <2>6, <2>8, <3>1, <3>2
      <3>4. tc[j] = s
        BY <3>3 DEF Closed
      <3>5. QED
        BY <2>4, <3>4 DEF Contains
    <2>10. /\ cls' = g \o cls /\ cls' \in Seq(Sevs \X (0 .. MaxHon))
           /\ \A e : Contains(cls', e) <=> Contains(g, e) \/ Contains(cls, e)
      <3>1. cls' = g \o cls
        BY <2>2, <2>4, <2>5, <2>7
      <3>2. cls \in Seq(Sevs \X (0 .. MaxHon))
        BY ServAt
      <3>3. QED
        BY <2>8, <3>1, <3>2, ContainsConcat
    <2>11. ASSUME NEW m \in Sevs
           PROVE  srv'[m] \in Servs /\ ServInv(srv'[m], m, htp, cls', tims, nsev, v)
      <3>1. srv[m] \in Servs /\ ServInv(srv[m], m, htp, cls, tims, nsev, vers)
        BY ServAt
      <3>2. CASE Contains(tc, m)
        <4>1. PICK x : x = [srv[m] EXCEPT !.shut = TRUE]
          OBVIOUS
        <4>2. x \in Servs /\ x.shut /\ x.h2o = srv[m].h2o /\ x.hon = srv[m].hon
          BY <3>1, <4>1 DEF Servs
        <4>3. srv'[m] = x
          BY <2>2, <3>2, <4>1
        <4>4. Contains(htp, m) /\ ~(m > nsev)
          BY <2>1, <3>1, <3>2 DEF ServInv
        <4>5. QED
          BY <3>1, <4>2, <4>3, <4>4 DEF ServInv
      <3>3. CASE ~Contains(tc, m)
        <4>1. srv'[m] = srv[m] /\ (Contains(cls', Closed(m)) => Contains(cls, Closed(m)))
          BY <2>2, <2>9, <2>10, <3>3
        <4>2. srv[m].shut \in BOOLEAN /\ (srv[m].h2o = "up" => srv[m].shut)
          BY <2>1, <3>1, <3>3 DEF ServInv, Servs
        <4>3. QED
          BY <3>1, <4>1, <4>2 DEF ServInv
      <3>4. QED
        BY <3>2, <3>3
    <2>12. srv' \in [Sevs -> Servs]
      <3>1. srv' = [m \in Sevs |-> srv'[m]]
        BY <2>2
      <3>2. QED
        BY <2>11, <3>1
    <2>13. ServTypes'
      BY <1>1, <1>2, <1>4, <2>2, <2>3, <2>10, <2>12, ServAt DEF ServTypes
    <2>14. QED
      BY <1>1, <1>2, <2>2, <2>11, <2>13 DEF HonInv
  <1>5. QED
    BY <1>2, <1>3, <1>4 DEF EfForm

\* While fewer than MaxHon connections were accepted there is a number for one more.
LEMMA AcceptRoom == ASSUME HonInv, NEW s \in Sevs, Accepted < MaxHon PROVE srv[s].coq \in 1 .. MaxHon
  <1>1. MaxHon \in Nat /\ MaxServ \in Nat /\ srv[s].coq \in 1 .. MaxHon + 1
    BY ServBounds, ServAt DEF Servs
  <1>2. SUFFICES ASSUME srv[s].coq = MaxHon + 1 PROVE FALSE
    BY <1>1
  <1>3. PICK T : T = {x \in Sevs \X (1 .. MaxHon) : x[2] < srv[x[1]].coq}
    OBVIOUS
  <1>4. PICK U : U = {s} \X (1 .. MaxHon)
    OBVIOUS
  <1>5. IsFiniteSet(Sevs) /\ IsFiniteSet(1 .. MaxHon) /\ Cardinality(1 .. MaxHon) = MaxHon
    <2>1. IsFiniteSet(1 .. MaxServ) /\ IsFiniteSet(1 .. MaxHon)
      BY <1>1, FS_Interval
    <2>2. Cardinality(1 .. MaxHon) = IF 1 > MaxHon THEN 0 ELSE MaxHon - 1 + 1
      BY <1>1, FS_Interval
    <2>3. QED
      BY <1>1, <2>1, <2>2 DEF Sevs
  <1>6. IsFiniteSet({s}) /\ Cardinality({s}) = 1
    BY FS_Singleton
  <1>7. Cardinality(U) = 1 * MaxHon
    BY <1>4, <1>5, <1>6, FS_Product, ZenonT(60)
  <1>8. IsFiniteSet(Sevs \X (1 .. MaxHon)) /\ T \in SUBSET (Sevs \X (1 .. MaxHon))
    BY <1>3, <1>5, FS_Product
  <1>9. IsFiniteSet(T)
    BY <1>8, FS_Subset
  <1>10. U \in SUBSET T
    <2>1. ASSUME NEW x \in U PROVE x \in T
      <3>1. PICK k \in 1 .. MaxHon : x = <<s, k>>
        BY <1>4
      <3>2. x \in Sevs \X (1 .. MaxHon) /\ x[1] = s /\ x[2] = k /\ k < MaxHon + 1
        BY <1>1, <3>1
      <3>3. x[2] < srv[x[1]].coq
        BY <1>2, <3>2
      <3>4. QED
        BY <1>3, <3>2, <3>3
    <2>2. QED
      BY <2>1
  <1>11. Cardinality(U) <= Cardinality(T)
    BY <1>9, <1>10, FS_Subset
  <1>12. Cardinality(T) < MaxHon /\ Cardinality(T) \in Nat
    BY <1>3, <1>9, FS_CardinalityType DEF Accepted
  <1>13. QED
    BY <1>1, <1>7, <1>11, <1>12

\* One more handle is closed: what is in the list of closed ones.
LEMMA ClosesOne ==
    ASSUME HonInv, NEW s \in Sevs, NEW c \in 1 .. MaxHon
    PROVE  /\ <<<<s, c>>>> \o cls \in Seq(Sevs \X (0 .. MaxHon))
           /\ \A m \in Sevs : Contains(<<<<s, c>>>> \o cls, Closed(m)) => Contains(cls, Closed(m))
  <1>1. PICK e \in Sevs \X (0 .. MaxHon) : e = <<s, c>>
    <2>1. c \in 0 .. MaxHon
      BY ServBounds
    <2>2. <<s, c>> \in Sevs \X (0 .. MaxHon)
      BY <2>1
    <2>3. QED
      BY <2>2
  <1>2. PICK o \in Seq(Sevs \X (0 .. MaxHon)) : o = <<e>> /\ Len(o) = 1 /\ o[1] = e
    <2>1. <<e>> \in Seq(Sevs \X (0 .. MaxHon)) /\ Len(<<e>>) = 1 /\ <<e>>[1] = e
      OBVIOUS
    <2>2. QED
      BY <2>1
  <1>3. ASSUME NEW m \in Sevs PROVE ~Contains(o, Closed(m))
    <2>1. e # Closed(m)
      <3>1. c # 0
        BY ServBounds
      <3>2. QED
        BY <1>1, <3>1 DEF Closed
    <2>2. QED
      BY <1>2, <2>1 DEF Contains
  <1>4. cls \in Seq(Sevs \X (0 .. MaxHon))
    BY ServAt
  <1>5. o \o cls \in Seq(Sevs \X (0 .. MaxHon)) /\ \A x : Contains(o \o cls, x) <=> Contains(o, x) \/ Contains(cls, x)
    BY <1>4, ContainsConcat
  <1>6. QED
    BY <1>1, <1>2, <1>3, <1>5

\* _http_serv_accept(): only a server that is up takes a connection.
LEMMA ServAcceptKeeps == ASSUME HonInv, NEW s \in Sevs, ServAccept(s) PROVE HonInv'
  <1>1. PICK x \in Servs : x = srv[s]
    BY ServAt
  <1>2. ServInv(x, s, htp, cls, tims, nsev, vers) /\ x.h2o = "up" /\ x.coq \in 1 .. MaxHon /\ ~turn
    BY <1>1, AcceptRoom, ServAt DEF ServAccept
  <1>3. x.coq + 1 \in 1 .. MaxHon + 1 /\ x.hon \cup {x.coq} \in SUBSET (1 .. MaxHon)
    BY <1>2, ServBounds DEF Servs
  <1>4. PICK k \in 1 .. MaxHon + 1, h \in SUBSET (1 .. MaxHon) : k = x.coq + 1 /\ h = x.hon \cup {x.coq}
    BY <1>3
  <1>5. PICK y : y = [x EXCEPT !.hon = h, !.coq = k]
    OBVIOUS
  <1>6. y \in Servs /\ y.h2o = x.h2o /\ y.shut = x.shut /\ y.liv = x.liv /\ y.ver = x.ver
    BY <1>5 DEF Servs
  <1>7. ConnNew(x) = y
    BY <1>4, <1>5 DEF ConnNew
  <1>8. /\ srv' = [srv EXCEPT ![s] = y] /\ (cls' = cls \/ cls' = <<<<s, x.coq>>>> \o cls)
        /\ htp' = htp /\ tims' = tims /\ form' = form /\ vers' = vers /\ nsev' = nsev /\ fault' = fault
        /\ turn' = turn /\ hend' = hend
    BY <1>1, <1>7 DEF ServAccept
  <1>9. cls' \in Seq(Sevs \X (0 .. MaxHon)) /\ \A m \in Sevs : Contains(cls', Closed(m)) => Contains(cls, Closed(m))
    BY <1>2, <1>8, ClosesOne, ServAt
  <1>10. ~(s > nsev)
    BY <1>2 DEF ServInv
  <1>11. ServInv(y, s, htp, cls', tims, nsev, vers)
    BY <1>2, <1>6, <1>9, <1>10 DEF ServInv
  <1>12. ~turn' /\ turn' \in BOOLEAN /\ hend' \in BOOLEAN /\ tims' \in Seq(Sevs) /\ form' \in {0, vers} /\ fault' \in Faults
    BY <1>2, <1>8, ServAt
  <1>13. QED
    BY <1>6, <1>8, <1>9, <1>11, <1>12, ServOne

\* The closing of a connection closes no server.
LEMMA ConnCloseKeeps == ASSUME HonInv, NEW s \in Sevs, ConnClose(s) PROVE HonInv'
  <1>1. PICK c \in srv[s].hon : cls' = <<<<s, c>>>> \o cls
    BY DEF ConnClose
  <1>2. c \in 1 .. MaxHon
    BY <1>1, ServAt DEF Servs
  <1>3. cls' \in Seq(Sevs \X (0 .. MaxHon)) /\ \A m \in Sevs : Contains(cls', Closed(m)) => Contains(cls, Closed(m))
    BY <1>1, <1>2, ClosesOne
  <1>4. /\ srv' = [srv EXCEPT ![s] = srv[s]] /\ srv[s] \in Servs /\ ServInv(srv[s], s, htp, cls, tims, nsev, vers)
        /\ UNCHANGED <<htp, tims, form, vers, nsev, fault, turn, hend>> /\ ~turn
    BY ServAt DEF ConnClose
  <1>5. ServInv(srv[s], s, htp, cls', tims, nsev, vers)
    BY <1>3, <1>4 DEF ServInv
  <1>6. ~turn' /\ turn' \in BOOLEAN /\ hend' \in BOOLEAN /\ tims' \in Seq(Sevs) /\ form' \in {0, vers} /\ fault' \in Faults
    BY <1>4, ServAt
  <1>7. QED
    BY <1>3, <1>4, <1>5, <1>6, ServOne

\* The end of a turn, and the driver's exit, leave the servers as they are.
LEMMA ServIdleKeeps == ASSUME HonInv, LoopTurn \/ ServExit PROVE HonInv'
  <1>1. CASE LoopTurn
    BY <1>1, ServAt DEF LoopTurn, HonInv, ServTypes
  <1>2. CASE ServExit
    BY <1>2, ServAt DEF ServExit, HonInv, ServTypes
  <1>3. QED
    BY <1>1, <1>2

\* _http_serv_free() is of a server without connections.
LEMMA FreeFacts ==
    ASSUME NEW ss \in [Sevs -> Servs], NEW s \in Sevs
    PROVE  \E y \in Servs : /\ ServFree(ss, s) = [ss EXCEPT ![s] = y] /\ y.h2o = "disposed"
                            /\ y.hon = ss[s].hon /\ y.shut = ss[s].shut
  <1>1. PICK x \in Servs : x = ss[s]
    OBVIOUS
  <1>2. PICK y : y = [x EXCEPT !.h2o = "disposed"]
    OBVIOUS
  <1>3. y \in Servs /\ y.h2o = "disposed" /\ y.hon = x.hon /\ y.shut = x.shut
    BY <1>2 DEF Servs
  <1>4. ServFree(ss, s) = [ss EXCEPT ![s] = y]
    BY <1>1, <1>2 DEF ServFree
  <1>5. QED
    BY <1>1, <1>3, <1>4

\* What is in the timers when one is added.
LEMMA TimerAdded ==
    ASSUME HonInv, NEW s \in Sevs
    PROVE  Append(tims, s) \in Seq(Sevs) /\ \A m \in Sevs : m # s /\ Contains(Append(tims, s), m) => Contains(tims, m)
  <1>1. PICK ts \in Seq(Sevs) : ts = tims
    BY ServAt
  <1>2. PICK u : u = Append(ts, s)
    OBVIOUS
  <1>3. u \in Seq(Sevs) /\ Len(u) = Len(ts) + 1
    BY <1>2, AppendProperties
  <1>4. u[Len(ts) + 1] = s /\ \A i \in 1 .. Len(ts) : u[i] = ts[i]
    BY <1>2, AppendProperties
  <1>5. \A i \in 1 .. Len(u) : i \in 1 .. Len(ts) \/ i = Len(ts) + 1
    BY <1>3
  <1>6. ASSUME NEW m \in Sevs, m # s, Contains(u, m) PROVE Contains(ts, m)
    BY <1>4, <1>5, <1>6 DEF Contains
  <1>7. QED
    BY <1>1, <1>2, <1>3, <1>6

\* _http_serv_close_cb(): only a server without connections is freed, and new servers are
\* started only when no other takes connections.
LEMMA CloseCbKeeps ==
    ASSUME HonInv, NEW s \in Sevs, Contains(cls, Closed(s)), CloseCb(s),
           cls' \in Seq(Sevs \X (0 .. MaxHon)), \A m \in Sevs : Contains(cls', Closed(m)) => Contains(cls, Closed(m)),
           turn' \in BOOLEAN, turn' => cls' # <<>>, vers' = vers, hend' = hend
    PROVE  HonInv'
  <1>1. PICK x \in Servs : x = srv[s]
    BY ServAt
  <1>2. ServInv(x, s, htp, cls, tims, nsev, vers) /\ x.shut /\ ~(s > nsev)
    BY <1>1, ServAt, SMTT(30) DEF ServInv
  <1>3. PICK y : y = [x EXCEPT !.liv = FALSE]
    OBVIOUS
  <1>4. y \in Servs /\ y.h2o = x.h2o /\ y.hon = x.hon /\ y.shut = x.shut /\ ~y.liv
    BY <1>3 DEF Servs
  <1>5. PICK aft \in [Sevs -> Servs] : aft = [srv EXCEPT ![s] = y] /\ aft = [srv EXCEPT ![s].liv = FALSE]
    <2>1. [srv EXCEPT ![s].liv = FALSE] = [srv EXCEPT ![s] = y]
      BY <1>1, <1>3, ServAt
    <2>2. [srv EXCEPT ![s] = y] \in [Sevs -> Servs]
      BY <1>4, ServAt
    <2>3. QED
      BY <2>1, <2>2
  <1>6. aft[s] = y /\ \A m \in Sevs : m # s => aft[m] = srv[m]
    BY <1>5, ServAt
  <1>7. PICK z \in Servs : ServFree(aft, s) = [aft EXCEPT ![s] = z] /\ z.h2o = "disposed" /\ z.hon = x.hon /\ z.shut
    <2>1. PICK z \in Servs : /\ ServFree(aft, s) = [aft EXCEPT ![s] = z] /\ z.h2o = "disposed"
                             /\ z.hon = aft[s].hon /\ z.shut = aft[s].shut
      BY FreeFacts
    <2>2. z.hon = x.hon /\ z.shut
      BY <1>2, <1>4, <1>6, <2>1
    <2>3. QED
      BY <2>1, <2>2
  <1>8. PICK w \in Servs : w = IF x.hon = {} THEN z ELSE y
    BY <1>4
  <1>9. PICK ss \in [Sevs -> Servs] : /\ ss = [srv EXCEPT ![s] = w]
                                      /\ ss = IF x.hon = {} THEN ServFree(aft, s) ELSE aft
    <2>1. [aft EXCEPT ![s] = z] = [srv EXCEPT ![s] = z]
      BY <1>5
    <2>2. [srv EXCEPT ![s] = w] \in [Sevs -> Servs]
      BY ServAt
    <2>3. [srv EXCEPT ![s] = w] = IF x.hon = {} THEN ServFree(aft, s) ELSE aft
      BY <1>5, <1>7, <1>8, <2>1
    <2>4. QED
      BY <2>2, <2>3
  <1>10. PICK ts \in Seq(Sevs) : ts = IF x.hon = {} THEN Append(tims, s) ELSE tims
    BY TimerAdded, ServAt
  <1>11. \A m \in Sevs : m # s /\ Contains(ts, m) => Contains(tims, m)
    BY <1>10, TimerAdded
  <1>12. ServInv(w, s, htp, cls', ts, nsev, vers)
    <2>1. CASE x.hon = {}
      BY <1>2, <1>7, <1>8, <2>1 DEF ServInv
    <2>2. CASE x.hon # {}
      BY <1>2, <1>4, <1>8, <1>10, <2>2 DEF ServInv
    <2>3. QED
      BY <2>1, <2>2
  <1>13. hend' \in BOOLEAN /\ form \in {0, vers} /\ fault \in Faults /\ tims \in Seq(Sevs) /\ vers \in 0 .. MaxForm
    BY ServAt
  <1>14. CASE fault' \in Faults /\ UNCHANGED <<htp, srv, tims, form, nsev>>
    <2>1. srv' = [srv EXCEPT ![s] = x]
      BY <1>1, <1>14, ServAt
    <2>2. ServInv(x, s, htp, cls', tims', nsev, vers)
      BY <1>2, <1>14 DEF ServInv
    <2>3. QED
      BY <1>13, <1>14, <2>1, <2>2, ServOne
  <1>15. CASE srv' = ss /\ tims' = ts /\ UNCHANGED <<htp, form, nsev, fault>>
    BY <1>9, <1>11, <1>12, <1>13, <1>15, ServOne
  <1>16. CASE /\ form # 0 /\ \A i \in DOMAIN htp : ~ss[htp[i]].liv
              /\ StartAll(htp, ss, ts, form)
    <2>1. form = vers
      BY <1>13, <1>16
    <2>2. ss[s] = w /\ \A m \in Sevs : m # s => ss[m] = srv[m]
      BY <1>9, ServAt
    <2>3. ASSUME NEW m \in Sevs
          PROVE  (ss[m].h2o = "up" => ss[m].shut) /\ ServInv(ss[m], m, htp, cls', ts, nsev, vers)
      <3>1. CASE m = s
        <4>1. w.shut
          BY <1>2, <1>4, <1>7, <1>8
        <4>2. QED
          BY <1>12, <2>2, <3>1, <4>1
      <3>2. CASE m # s
        <4>1. ss[m] = srv[m] /\ ServInv(srv[m], m, htp, cls, tims, nsev, vers) /\ srv[m].shut \in BOOLEAN
          BY <2>2, <3>2, ServAt, SMTT(30) DEF Servs
        <4>2. Contains(htp, m) => ~srv[m].liv
          <5>1. htp \in Seq(Sevs)
            BY ServAt
          <5>2. DOMAIN htp = 1 .. Len(htp)
            BY <5>1
          <5>3. QED
            BY <1>16, <4>1, <5>2 DEF Contains
        <4>3. QED
          BY <1>11, <3>2, <4>1, <4>2 DEF ServInv
      <3>3. QED
        BY <3>1, <3>2
    <2>4. QED
      BY <1>13, <1>16, <2>1, <2>3, StartAllKeeps
  <1>17. QED
    <2>1. \/ fault' = "freed twice" /\ UNCHANGED <<htp, srv, tims, ports, form, nsev>>
          \/ fault' = "dangling" /\ UNCHANGED <<htp, srv, tims, ports, form, nsev>>
          \/ form # 0 /\ (\A i \in DOMAIN htp : ~ss[htp[i]].liv) /\ StartAll(htp, ss, ts, form)
          \/ srv' = ss /\ tims' = ts /\ UNCHANGED <<htp, ports, form, nsev, fault>>
      <3>1. ss = IF srv[s].hon = {} THEN ServFree([srv EXCEPT ![s].liv = FALSE], s) ELSE [srv EXCEPT ![s].liv = FALSE]
        BY <1>1, <1>5, <1>9
      <3>2. ts = IF srv[s].hon = {} THEN Append(tims, s) ELSE tims
        BY <1>1, <1>10
      <3>3. QED
        BY <3>1, <3>2, Zenon DEF CloseCb
    <2>2. QED
      BY <1>14, <1>15, <1>16, <2>1 DEF Faults

\* _http_conn_free(): the server goes with its last connection, not before.
LEMMA ConnFreeKeeps ==
    ASSUME HonInv, NEW s \in Sevs, NEW c, ConnFree(s, c),
           cls' \in Seq(Sevs \X (0 .. MaxHon)), \A m \in Sevs : Contains(cls', Closed(m)) => Contains(cls, Closed(m)),
           turn' \in BOOLEAN, turn' => cls' # <<>>, vers' = vers, hend' = hend
    PROVE  HonInv'
  <1>1. PICK x \in Servs : x = srv[s]
    BY ServAt
  <1>2. ServInv(x, s, htp, cls, tims, nsev, vers) /\ x.hon \in SUBSET (1 .. MaxHon)
    BY <1>1, ServAt DEF Servs
  <1>3. PICK h \in SUBSET (1 .. MaxHon) : h = x.hon \ {c}
    BY <1>2
  <1>4. PICK y : y = [x EXCEPT !.hon = h]
    OBVIOUS
  <1>5. y \in Servs /\ y.h2o = x.h2o /\ y.hon = h /\ y.shut = x.shut /\ y.liv = x.liv /\ y.ver = x.ver
    BY <1>4 DEF Servs
  <1>6. PICK aft \in [Sevs -> Servs] : aft = [srv EXCEPT ![s] = y] /\ aft = [srv EXCEPT ![s].hon = @ \ {c}]
    <2>1. [srv EXCEPT ![s].hon = @ \ {c}] = [srv EXCEPT ![s] = y]
      BY <1>1, <1>3, <1>4, ServAt
    <2>2. [srv EXCEPT ![s] = y] \in [Sevs -> Servs]
      BY <1>5, ServAt
    <2>3. QED
      BY <2>1, <2>2
  <1>7. aft[s] = y
    BY <1>6, ServAt
  <1>8. PICK z \in Servs : ServFree(aft, s) = [aft EXCEPT ![s] = z] /\ z.h2o = "disposed" /\ z.hon = h /\ z.shut = x.shut
    BY <1>5, <1>7, FreeFacts
  <1>9. [aft EXCEPT ![s] = z] = [srv EXCEPT ![s] = z]
    BY <1>6
  <1>10. /\ srv' = IF h = {} /\ x.shut THEN ServFree(aft, s) ELSE aft
         /\ tims' = IF h = {} /\ x.shut THEN Append(tims, s) ELSE tims
         /\ (fault' = "freed twice" \/ fault' = fault) /\ UNCHANGED <<htp, form, nsev>>
    BY <1>1, <1>5, <1>6, <1>7 DEF ConnFree
  <1>11. /\ hend' \in BOOLEAN /\ form' \in {0, vers} /\ fault' \in Faults /\ tims \in Seq(Sevs)
         /\ htp' = htp /\ nsev' = nsev
    BY <1>10, ServAt DEF Faults
  <1>12. CASE h = {} /\ x.shut
    <2>1. srv' = [srv EXCEPT ![s] = z] /\ tims' = Append(tims, s)
      BY <1>8, <1>9, <1>10, <1>12
    <2>2. tims' \in Seq(Sevs) /\ \A m \in Sevs : m # s /\ Contains(tims', m) => Contains(tims, m)
      BY <2>1, TimerAdded
    <2>3. ASSUME s > nsev PROVE FALSE
      BY <1>2, <1>12, <2>3 DEF ServInv
    <2>4. ServInv(z, s, htp, cls', tims', nsev, vers)
      BY <1>2, <1>8, <1>12, <2>3 DEF ServInv
    <2>5. QED
      BY <1>11, <2>1, <2>2, <2>4, ServOne
  <1>13. CASE ~(h = {} /\ x.shut)
    <2>1. srv' = [srv EXCEPT ![s] = y] /\ tims' = tims
      BY <1>6, <1>10, <1>13
    <2>2. ServInv(y, s, htp, cls', tims, nsev, vers)
      BY <1>2, <1>3, <1>5 DEF ServInv
    <2>3. QED
      BY <1>5, <1>11, <2>1, <2>2, ServOne
  <1>14. QED
    BY <1>12, <1>13

\* The callbacks of what was closed, one after the other.
LEMMA ClosingKeeps == ASSUME HonInv, Closing PROVE HonInv'
  <1>1. PICK cl \in Seq(Sevs \X (0 .. MaxHon)) : cl = cls /\ cl # <<>>
    BY ServAt DEF Closing
  <1>2. PICK e \in Sevs \X (0 .. MaxHon) : e = Head(cl) /\ e = cl[1]
    BY <1>1, HeadTailProperties
  <1>3. PICK s \in Sevs, c \in 0 .. MaxHon : s = e[1] /\ c = e[2] /\ e = <<s, c>>
    OBVIOUS
  <1>4. /\ cls' = Tail(cl) /\ turn' = (Len(cl) > 1) /\ vers' = vers /\ hend' = hend
        /\ IF c = 0 THEN CloseCb(s) ELSE ConnFree(s, c)
    BY <1>1, <1>2, <1>3 DEF Closing
  <1>5. PICK t \in Seq(Sevs \X (0 .. MaxHon)) : t = Tail(cl)
    BY <1>1, HeadTailProperties
  <1>6. \A x : Contains(t, x) => Contains(cl, x)
    BY <1>1, <1>5, ContainsLess
  <1>7. Len(cl) \in Nat /\ Len(cl) >= 1 /\ Len(t) = Len(cl) - 1
    BY <1>1, <1>5
  <1>8. turn' \in BOOLEAN /\ (turn' => cls' # <<>>)
    <2>1. turn' \in BOOLEAN
      <3>1. (Len(cl) > 1) \in BOOLEAN
        BY <1>7
      <3>2. QED
        BY <1>4, <3>1, Zenon
    <2>2. ASSUME turn' PROVE cls' # <<>>
      <3>1. Len(cl) > 1
        BY <1>4, <2>2, Zenon
      <3>2. Len(t) # 0
        BY <1>7, <3>1, SMTT(30)
      <3>3. QED
        BY <1>4, <1>5, <3>2
    <2>3. QED
      BY <2>1, <2>2
  <1>9. CASE c = 0
    <2>1. Contains(cls, Closed(s)) /\ CloseCb(s)
      <3>1. 1 \in 1 .. Len(cl) /\ cl[1] = <<s, 0>>
        BY <1>2, <1>3, <1>7, <1>9
      <3>2. CloseCb(s)
        BY <1>4, <1>9
      <3>3. QED
        BY <1>1, <3>1, <3>2 DEF Contains, Closed
    <2>2. QED
      BY <1>1, <1>4, <1>5, <1>6, <1>8, <2>1, CloseCbKeeps
  <1>10. CASE c # 0
    BY <1>1, <1>4, <1>5, <1>6, <1>8, <1>10, ConnFreeKeeps
  <1>11. QED
    BY <1>9, <1>10

\* http_serv_free_cb(): the server that is freed was not up, and no other leaves the list.
LEMMA FreeCbKeeps == ASSUME HonInv, FreeCb PROVE HonInv'
  <1>1. PICK ts \in Seq(Sevs) : ts = tims /\ ts # <<>>
    BY ServAt DEF FreeCb
  <1>2. PICK s \in Sevs : s = Head(ts) /\ s = ts[1]
    BY <1>1, HeadTailProperties
  <1>3. PICK t \in Seq(Sevs) : t = Tail(ts)
    BY <1>1, HeadTailProperties
  <1>4. \A x : Contains(t, x) => Contains(tims, x)
    BY <1>1, <1>3, ContainsLess
  <1>5. Contains(tims, s)
    <2>1. 1 \in 1 .. Len(ts)
      BY <1>1
    <2>2. QED
      BY <1>1, <1>2, <2>1 DEF Contains
  <1>6. PICK x \in Servs : x = srv[s]
    BY ServAt
  <1>7. ServInv(x, s, htp, cls, tims, nsev, vers) /\ x.h2o # "up" /\ x.hon = {} /\ ~(s > nsev)
    BY <1>5, <1>6, ServAt, SMTT(30) DEF ServInv
  <1>8. PICK y : y = [x EXCEPT !.h2o = "freed"]
    OBVIOUS
  <1>9. y \in Servs /\ y.h2o = "freed" /\ y.hon = {} /\ y.shut = x.shut
    BY <1>7, <1>8 DEF Servs
  <1>10. /\ srv' = [srv EXCEPT ![s] = y] /\ htp' = ServUnlink(htp, s) /\ tims' = t
         /\ UNCHANGED <<cls, turn, form, vers, nsev, fault, hend>>
    <2>1. /\ srv' = [srv EXCEPT ![s].h2o = "freed"] /\ htp' = ServUnlink(htp, s) /\ tims' = t
          /\ UNCHANGED <<cls, turn, form, vers, nsev, fault, hend>>
      BY <1>1, <1>2, <1>3 DEF FreeCb
    <2>2. [srv EXCEPT ![s].h2o = "freed"] = [srv EXCEPT ![s] = y]
      BY <1>6, <1>8, ServAt
    <2>3. QED
      BY <2>1, <2>2
  <1>11. /\ htp' \in Seq(Sevs) /\ \A m : Contains(htp', m) => Contains(htp, m)
         /\ \A m : m # s /\ Contains(htp, m) => Contains(htp', m)
    <2>1. PICK l \in Seq(Sevs) : l = htp
      BY ServAt
    <2>2. CASE htp' = l
      BY <2>1, <2>2
    <2>3. CASE Contains(l, s) /\ htp' = RemoveAt(l, CHOOSE i \in DOMAIN l : l[i] = s)
      <3>1. DOMAIN l = 1 .. Len(l)
        OBVIOUS
      <3>2. \E i \in DOMAIN l : l[i] = s
        BY <2>3, <3>1 DEF Contains
      <3>3. PICK i \in DOMAIN l : i = (CHOOSE j \in DOMAIN l : l[j] = s) /\ l[i] = s
        BY <3>2
      <3>4. /\ RemoveAt(l, i) \in Seq(Sevs) /\ \A m : Contains(RemoveAt(l, i), m) => Contains(l, m)
            /\ \A m : l[i] # m /\ Contains(l, m) => Contains(RemoveAt(l, i), m)
        BY ContainsLess
      <3>5. QED
        BY <2>1, <2>3, <3>3, <3>4
    <2>4. QED
      BY <1>10, <2>1, <2>2, <2>3 DEF ServUnlink
  <1>12. ASSUME NEW m \in Sevs PROVE ServInv(srv'[m], m, htp', cls, t, nsev, vers)
    <2>1. CASE m = s
      <3>1. srv'[m] = y
        BY <1>10, <2>1, ServAt
      <3>2. QED
        BY <1>7, <1>9, <2>1, <3>1 DEF ServInv
    <2>2. CASE m # s
      <3>1. srv'[m] = srv[m] /\ ServInv(srv[m], m, htp, cls, tims, nsev, vers)
        BY <1>10, <2>2, ServAt
      <3>2. QED
        BY <1>4, <1>11, <2>2, <3>1 DEF ServInv
    <2>3. QED
      BY <2>1, <2>2
  <1>13. ServTypes' /\ (turn' => cls' # <<>>)
    BY <1>9, <1>10, <1>11, ServAt DEF ServTypes
  <1>14. QED
    BY <1>10, <1>12, <1>13 DEF HonInv

\* Every step keeps the invariant of the servers.
LEMMA ServNextKeeps == HonInv /\ [ServNext]_hvars => HonInv'
  <1> SUFFICES ASSUME HonInv, [ServNext]_hvars PROVE HonInv'
    OBVIOUS
  <1>1. CASE UNCHANGED hvars
    BY <1>1 DEF hvars, HonInv, ServTypes
  <1>2. QED
    BY <1>1, EfFormKeeps, ServIdleKeeps, ClosingKeeps, FreeCbKeeps, ServAcceptKeeps, ConnCloseKeeps DEF ServNext

\* No connection outlives its server, and a server that takes connections has the newest
\* configuration, however configurations, connections, the callbacks of a turn and the
\* timers that free servers interleave (_http_serv_restart(), _http_serv_close_cb(),
\* _http_conn_free(), http_serv_free_cb()).
THEOREM ConnectionsServed == ServSpec => [](ServTypeOK /\ HonServed)
  <1>1. ServInit => HonInv
    BY ServInitInv
  <1>2. HonInv /\ [ServNext]_hvars => HonInv'
    BY ServNextKeeps
  <1>3. HonInv => ServTypeOK /\ HonServed
    BY HonInvSafe
  <1>4. QED
    BY <1>1, <1>2, <1>3, PTL DEF ServSpec

-----------------------------------------------------------------------------
(* The drivers together                                                    *)

WebInv == ReqInv /\ HonInv /\ CttpInv /\ AmesInv

\* The invariants of the drivers hold when the run starts, and every step of it is a
\* step of one of them.
LEMMA WebInvHolds ==
    /\ MCInit => WebInv
    /\ WebInv /\ [MCNext]_<<rvars, hvars, tvars, avars>> => WebInv' /\ ImpKept
  <1>1. MCInit => WebInv
    BY ReqInitInv, ServInitInv, CttpInitInv, AmesInitInv DEF MCInit, WebInv
  <1>2. ASSUME WebInv, [MCNext]_<<rvars, hvars, tvars, avars>> PROVE WebInv' /\ ImpKept
    <2>1. [ReqNext]_rvars /\ [ServNext]_hvars /\ [CttpNext]_tvars /\ [AmesNext]_avars
      BY <1>2 DEF MCNext
    <2>2. QED
      BY <1>2, <2>1, ReqNextKeeps, ServNextKeeps, CttpNextKeeps, AmesNextKeeps DEF WebInv
  <1>3. QED
    BY <1>1, <1>2

\* What the run of the network drivers checks, for every number of requests, servers,
\* connections, packets and for every bound of the queues.
THEOREM WebStaysSafe == MCSpec => [](WebSafe /\ ResponseWhole)
  <1>1. WebInv => WebSafe /\ ResponseWhole
    BY ReqInvSafe, HonInvSafe, CttpInvSafe, AmesInvSafe DEF WebInv, WebSafe, WebTypeOK
  <1>2. QED
    BY <1>1, WebInvHolds, PTL DEF MCSpec

\* What the driver knows of the galaxy's address it keeps while a lookup for it is under
\* way or fails (_ames_czar_gone(), _ames_czar_here()).
THEOREM WebAddressKept == MCSpec => AddressKept
  <1>1. MCInit => WebInv
    BY WebInvHolds
  <1>2. WebInv /\ [MCNext]_<<rvars, hvars, tvars, avars>> => WebInv'
    BY WebInvHolds
  <1>3. WebInv /\ [MCNext]_<<rvars, hvars, tvars, avars>> => [imp.ip \in Addrs => imp'.ip \in Addrs]_avars
    BY WebInvHolds DEF ImpKept
  <1>4. QED
    BY <1>1, <1>2, <1>3, PTL DEF MCSpec, AddressKept
=============================================================================
