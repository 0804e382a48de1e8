-------------------------------- MODULE Auto --------------------------------
(***************************************************************************)
(* The driver queues of the king (src/pkg/vere/auto.c).  Every i/o driver  *)
(* keeps a doubly linked list of ova; the list is modelled with its        *)
(* pointers, because ova are planned at the back, retried at the front and *)
(* dropped from the middle.  A heap h holds all of them: the fields of the *)
(* drivers (ent, ext, dep) and of the ova (pre, nex, car, try), and gone,  *)
(* the number of times an ovum was disposed of.                            *)
(***************************************************************************)
EXTENDS Naturals, Sequences, SequencesExt, FiniteSets

CONSTANTS Cars,      \* the drivers, in the order they are linked
          Cards,     \* what an ovum may be
          Eggs,      \* the ova that may exist at one time: numbers
          DepthWrap  \* dep_w is an unsigned word: it counts modulo this

ASSUME AutoAssumption ==
    /\ DepthWrap \in Nat \ {0, 1}
    /\ Eggs \subseteq Nat \ {0} /\ IsFiniteSet(Eggs)
    /\ Cars \in Seq(STRING) /\ IsInjective(Cars)

Nil == 0

NoCar == "none"
NoCard == "none"

CarSet == ToSet(Cars)

Heaps ==
    [ent : [CarSet -> Eggs \cup {Nil}], ext : [CarSet -> Eggs \cup {Nil}],
     dep : [CarSet -> 0 .. DepthWrap - 1],
     pre : [Eggs -> Eggs \cup {Nil}], nex : [Eggs -> Eggs \cup {Nil}],
     car : [Eggs -> CarSet \cup {NoCar}], cad : [Eggs -> Cards \cup {NoCard}],
     try : [Eggs -> 0 .. 2], gone : [Eggs -> 0 .. 2]]

\* No driver has an ovum; every ovum is unused, as after a disposal.
EmptyHeap ==
    [ent |-> [c \in CarSet |-> Nil], ext |-> [c \in CarSet |-> Nil],
     dep |-> [c \in CarSet |-> 0],
     pre |-> [e \in Eggs |-> Nil], nex |-> [e \in Eggs |-> Nil],
     car |-> [e \in Eggs |-> NoCar], cad |-> [e \in Eggs |-> NoCard],
     try |-> [e \in Eggs |-> 0], gone |-> [e \in Eggs |-> 1]]

Unused(h) == {e \in Eggs : h.gone[e] > 0}

\* u3_ovum_init()
Made(h, e, cad) == [h EXCEPT !.gone[e] = 0, !.cad[e] = cad]

\* u3_ovum_free(): the fields of the ovum mean nothing from here on.
Freed(h, e) ==
    [h EXCEPT !.gone[e] = IF @ = 2 THEN 2 ELSE @ + 1, !.try[e] = 0, !.pre[e] = Nil,
              !.nex[e] = Nil, !.car[e] = NoCar, !.cad[e] = NoCard]

Alone(h, c, e) ==
    [h EXCEPT !.pre[e] = Nil, !.nex[e] = Nil, !.ent[c] = e, !.ext[c] = e, !.dep[c] = 1]

\* u3_auto_plan(): at the back of the line.
AutoPlan(h0, c, e) ==
    LET h == [h0 EXCEPT !.car[e] = c] IN
    IF h.ent[c] = Nil THEN Alone(h, c, e)
    ELSE [h EXCEPT !.nex = [@ EXCEPT ![e] = Nil, ![h.ent[c]] = e],
                   !.pre[e] = h.ent[c], !.ent[c] = e,
                   !.dep[c] = (@ + 1) % DepthWrap]

\* A slip: the retried ovum is put in front without telling the one behind it.
AutoRedoOneWay(h0, e) ==
    LET c == h0.car[e]
        h == [h0 EXCEPT !.try[e] = @ + 1]
    IN  IF h.ent[c] = Nil THEN Alone(h, c, e)
        ELSE [h EXCEPT !.nex[e] = h.ext[c], !.pre[e] = Nil, !.ext[c] = e,
                       !.dep[c] = (@ + 1) % DepthWrap]

\* u3_auto_redo(): at the front of the line, with its count of tries raised.
AutoRedo(h0, e) ==
    LET c == h0.car[e]
        h == [h0 EXCEPT !.try[e] = @ + 1]
    IN  IF h.ent[c] = Nil THEN Alone(h, c, e)
        ELSE [h EXCEPT !.nex[e] = h.ext[c],
                       !.pre = [@ EXCEPT ![e] = Nil, ![h.ext[c]] = e],
                       !.ext[c] = e, !.dep[c] = (@ + 1) % DepthWrap]

\* u3_auto_drop(): unlink and dispose; nothing asks whether the ovum is linked.
AutoDrop(h, e) ==
    LET c  == h.car[e]
        h1 == IF h.pre[e] = Nil THEN [h EXCEPT !.ext[c] = h.nex[e]]
              ELSE [h EXCEPT !.nex[h.pre[e]] = h.nex[e]]
        h2 == IF h.nex[e] = Nil THEN [h1 EXCEPT !.ent[c] = h.pre[e]]
              ELSE [h1 EXCEPT !.pre[h.nex[e]] = h.pre[e]]
    IN  Freed([h2 EXCEPT !.dep[c] = (@ + DepthWrap - 1) % DepthWrap,
                         !.nex[e] = Nil, !.pre[e] = Nil], e)

\* u3_auto_next(): the first driver of the chain that has an ovum gives its oldest.
Ready(h) == {n \in DOMAIN Cars : h.ext[Cars[n]] # Nil}

Giver(h) == Cars[Min(Ready(h))]

AutoTaken(h) == h.ext[Giver(h)]

AutoNext(h) ==
    LET c == Giver(h)
        e == h.ext[c]
        n == h.nex[e]
    IN  IF n # Nil
        THEN [h EXCEPT !.pre[n] = Nil, !.ext[c] = n,
                       !.dep[c] = (@ + DepthWrap - 1) % DepthWrap, !.nex[e] = Nil]
        ELSE [h EXCEPT !.ent[c] = Nil, !.ext[c] = Nil, !.dep[c] = 0, !.nex[e] = Nil]

\* The ova met on the way from the exit of a queue, as u3_auto_exit() walks it:
\* no more than there are.
Walk(link, e) ==
    LET at[n \in 0 .. Cardinality(Eggs)] ==
            IF n = 0 THEN e ELSE LET p == at[n - 1] IN IF p = Nil THEN Nil ELSE link[p]
        met == {n \in 0 .. Cardinality(Eggs) : at[n] # Nil}
    IN  [i \in 1 .. Cardinality(met) |-> at[i - 1]]

Waiting(h, c) == Walk(h.nex, h.ext[c])

FreedAll(h, s) ==
    LET done[n \in 0 .. Len(s)] == IF n = 0 THEN h ELSE Freed(done[n - 1], s[n])
    IN  done[Len(s)]

\* u3_auto_exit(): driver by driver, the queued ova are disposed of.
AutoExit(h) ==
    LET done[n \in 0 .. Len(Cars)] ==
            IF n = 0 THEN h ELSE FreedAll(done[n - 1], Waiting(h, Cars[n]))
    IN  done[Len(Cars)]

\* Both directions of every list agree, and the depth is its length.
ListsWhole(h) ==
    \A c \in CarSet :
        /\ Reverse(Walk(h.pre, h.ent[c])) = Waiting(h, c)
        /\ h.dep[c] = Len(Waiting(h, c)) % DepthWrap
        /\ \A e \in ToSet(Waiting(h, c)) : h.car[e] = c /\ h.gone[e] = 0

=============================================================================
