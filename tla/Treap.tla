-------------------------------- MODULE Treap --------------------------------
(***************************************************************************)
(* The set and map jets, pkg/noun/jets/d: treaps ordered sideways by gor   *)
(* and downwards by mor.  A tree is Nul or <<node, left, right>>; the node *)
(* of a map is <<key, value>>.                                             *)
(*                                                                         *)
(* The orders hash: gor compares mugs and mor the mugs of mugs, and both   *)
(* fall back on dor when they collide.  The hash is a parameter, so that   *)
(* every pattern of collisions can be checked.                             *)
(***************************************************************************)
EXTENDS Integers, Sequences, Noun

CONSTANTS Mug(_), Remug(_)

Nul == <<>>

Node(n, l, r) == <<n, l, r>>

Leaf(n) == <<n, Nul, Nul>>

(* dor: atoms before cells, atoms by size, cells by their first difference. *)
RECURSIVE Dor(_, _)
Dor(a, b) ==
    CASE Sing(a, b)             -> TRUE
      [] IsAtom(a) /\ IsAtom(b) -> a[1] < b[1]
      [] IsAtom(a) # IsAtom(b)  -> IsAtom(a)
      [] OTHER -> IF Sing(a[1], b[1]) THEN Dor(a[2], b[2]) ELSE Dor(a[1], b[1])

Gor(a, b) == IF Mug(a) = Mug(b) THEN Dor(a, b) ELSE Mug(a) < Mug(b)

Mor(a, b) ==
    IF Remug(Mug(a)) = Remug(Mug(b)) THEN Dor(a, b) ELSE Remug(Mug(a)) < Remug(Mug(b))

-----------------------------------------------------------------------------
(* Sets *)

RECURSIVE InPut(_, _)
InPut(a, b) ==
    IF a = Nul THEN Leaf(b)
    ELSE LET n == a[1] l == a[2] r == a[3]
         IN IF Sing(n, b) THEN a
            ELSE IF Gor(b, n)
            THEN LET c == InPut(l, b)
                 IN IF Mor(n, c[1]) THEN Node(n, c, r)
                    ELSE Node(c[1], c[2], Node(n, c[3], r))
            ELSE LET c == InPut(r, b)
                 IN IF Mor(n, c[1]) THEN Node(n, l, c)
                    ELSE Node(c[1], Node(n, l, c[2]), c[3])

(* _rebalance(): the deleted node sinks until one side is empty. *)
RECURSIVE InSink(_)
InSink(a) ==
    LET n == a[1] l == a[2] r == a[3]
    IN CASE l = Nul -> r
         [] r = Nul -> l
         [] OTHER -> IF Mor(l[1], r[1])
                     THEN Node(l[1], l[2], InSink(Node(n, l[3], r)))
                     ELSE Node(r[1], InSink(Node(n, l, r[2])), r[3])

RECURSIVE InDel(_, _)
InDel(a, b) ==
    IF a = Nul THEN Nul
    ELSE IF Sing(a[1], b) THEN InSink(a)
    ELSE IF Gor(b, a[1]) THEN Node(a[1], InDel(a[2], b), a[3])
    ELSE Node(a[1], a[2], InDel(a[3], b))

(* _in_uni(): the root that loses by mor goes down into the other tree     *)
(* with one of its sides, its other side is merged afterwards.             *)
RECURSIVE InUniTrees(_, _)
InUniTrees(a, b) ==
    CASE a = Nul -> b
      [] b = Nul -> a
      [] a # Nul /\ b # Nul /\ Sing(a[1], b[1]) ->
            Node(b[1], InUniTrees(a[2], b[2]), InUniTrees(a[3], b[3]))
      [] OTHER ->
            IF ~Mor(a[1], b[1])
            THEN IF Gor(a[1], b[1])
                 THEN InUniTrees(a[3], Node(b[1], InUniTrees(Node(a[1], a[2], Nul), b[2]), b[3]))
                 ELSE InUniTrees(a[2], Node(b[1], b[2], InUniTrees(Node(a[1], Nul, a[3]), b[3])))
            ELSE IF Gor(b[1], a[1])
                 THEN InUniTrees(Node(a[1], InUniTrees(a[2], Node(b[1], b[2], Nul)), a[3]), b[3])
                 ELSE InUniTrees(Node(a[1], a[2], InUniTrees(a[3], Node(b[1], Nul, b[3]))), b[2])

InUni(a, b) == IF a = b THEN a ELSE InUniTrees(a, b)

(* int: the trees are exchanged so that b has the higher root. *)
RECURSIVE InInt(_, _)
InInt(aa, bb) ==
    IF aa = Nul \/ bb = Nul THEN Nul
    ELSE LET swap == Mor(aa[1], bb[1])
             a == IF swap THEN bb ELSE aa
             b == IF swap THEN aa ELSE bb
         IN IF Sing(b[1], a[1])
            THEN Node(a[1], InInt(a[2], b[2]), InInt(a[3], b[3]))
            ELSE IF Gor(b[1], a[1])
            THEN InUni(InInt(a[2], Node(b[1], b[2], Nul)), InInt(a, b[3]))
            ELSE InUni(InInt(a[3], Node(b[1], Nul, b[3])), InInt(a, b[2]))

(* _i_bif_putroot(): b is rotated up to the root, whatever mor says. *)
RECURSIVE InPutRoot(_, _)
InPutRoot(a, b) ==
    IF a = Nul THEN Leaf(b)
    ELSE IF Sing(b, a[1]) THEN a
    ELSE IF Gor(b, a[1])
    THEN LET c == InPutRoot(a[2], b) IN Node(c[1], c[2], Node(a[1], c[3], a[3]))
    ELSE LET c == InPutRoot(a[3], b) IN Node(c[1], Node(a[1], a[2], c[2]), c[3])

InBif(a, b) == LET c == InPutRoot(a, b) IN <<c[2], c[3]>>

(* _i_dif_join(): everything in d is before everything in e. *)
RECURSIVE InJoin(_, _)
InJoin(d, e) ==
    CASE d = Nul -> e
      [] e = Nul -> d
      [] OTHER -> IF Mor(d[1], e[1]) THEN Node(d[1], d[2], InJoin(d[3], e))
                  ELSE Node(e[1], InJoin(d, e[2]), e[3])

RECURSIVE InDif(_, _)
InDif(a, b) ==
    IF b = Nul THEN a
    ELSE LET c == InBif(a, b[1]) IN InJoin(InDif(c[1], b[2]), InDif(c[2], b[3]))

(* _in_apt(): lo and hi are sets of at most one bound (u3_none). *)
RECURSIVE InApt(_, _, _)
InApt(a, lo, hi) ==
    a # Nul =>
        /\ \A x \in lo : Gor(a[1], x)
        /\ \A x \in hi : Gor(x, a[1])
        /\ a[2] # Nul => Mor(a[1], a[2][1]) /\ InApt(a[2], {a[1]}, hi)
        /\ a[3] # Nul => Mor(a[1], a[3][1]) /\ InApt(a[3], lo, {a[1]})

RECURSIVE InHas(_, _)
InHas(a, b) ==
    /\ a # Nul
    /\ Sing(b, a[1]) \/ InHas(IF Gor(b, a[1]) THEN a[2] ELSE a[3], b)

RECURSIVE InWyt(_)
InWyt(a) == IF a = Nul THEN 0 ELSE 1 + InWyt(a[2]) + InWyt(a[3])

RECURSIVE InTap(_, _)
InTap(a, list) == IF a = Nul THEN list ELSE InTap(a[3], <<a[1]>> \o InTap(a[2], list))

RECURSIVE InGas(_, _)
InGas(a, list) == IF list = <<>> THEN a ELSE InGas(InPut(a, list[1]), Tail(list))

(* _in_rep(), _in_run(): the node, then the left side, then the right.     *)
RECURSIVE InRep(_, _)
InRep(a, out) == IF a = Nul THEN out ELSE InRep(a[3], InRep(a[2], Append(out, a[1])))

RECURSIVE InRun(_, _, _)
InRun(a, gate, out) ==
    IF a = Nul THEN out
    ELSE InRun(a[3], gate, InRun(a[2], gate, InPut(out, gate[a[1]])))

-----------------------------------------------------------------------------
(* Maps *)

RECURSIVE ByPut(_, _, _)
ByPut(a, k, v) ==
    IF a = Nul THEN Leaf(<<k, v>>)
    ELSE LET n == a[1] l == a[2] r == a[3]
         IN IF Sing(n[1], k)
            THEN IF n[2] = v THEN a ELSE Node(<<k, v>>, l, r)
            ELSE IF Gor(k, n[1])
            THEN LET d == ByPut(l, k, v)
                 IN IF Mor(n[1], d[1][1]) THEN Node(n, d, r)
                    ELSE Node(d[1], d[2], Node(n, d[3], r))
            ELSE LET d == ByPut(r, k, v)
                 IN IF Mor(n[1], d[1][1]) THEN Node(n, l, d)
                    ELSE Node(d[1], Node(n, l, d[2]), d[3])

(* Variant: the node sinks along the left side whatever mor says. *)
RECURSIVE BySink(_)

BySink(a) ==
    LET n == a[1] l == a[2] r == a[3]
    IN CASE l = Nul -> r
         [] r = Nul -> l
         [] OTHER -> IF Mor(l[1][1], r[1][1])
                     THEN Node(l[1], l[2], BySink(Node(n, l[3], r)))
                     ELSE Node(r[1], BySink(Node(n, l, r[2])), r[3])

RECURSIVE ByDel(_, _)
ByDel(a, k) ==
    IF a = Nul THEN Nul
    ELSE IF Sing(a[1][1], k) THEN BySink(a)
    ELSE IF Gor(k, a[1][1]) THEN Node(a[1], ByDel(a[2], k), a[3])
    ELSE Node(a[1], a[2], ByDel(a[3], k))

(* uni: where both have a key, b's value stays. *)
RECURSIVE ByUni(_, _)
ByUni(a, b) ==
    CASE b = Nul -> a
      [] a = Nul -> b
      [] OTHER ->
         LET p == a[1][1] q == b[1][1]
         IN IF Sing(p, q) THEN Node(b[1], ByUni(a[2], b[2]), ByUni(a[3], b[3]))
            ELSE IF Mor(p, q)
            THEN IF Gor(q, p)
                 THEN ByUni(Node(a[1], ByUni(a[2], Node(b[1], b[2], Nul)), a[3]), b[3])
                 ELSE ByUni(Node(a[1], a[2], ByUni(a[3], Node(b[1], Nul, b[3]))), b[2])
            ELSE IF Gor(p, q)
                 THEN ByUni(a[3], Node(b[1], ByUni(Node(a[1], a[2], Nul), b[2]), b[3]))
                 ELSE ByUni(a[2], Node(b[1], b[2], ByUni(Node(a[1], Nul, a[3]), b[3])))

RECURSIVE ByInt(_, _)
ByInt(a, b) ==
    IF a = Nul \/ b = Nul THEN Nul
    ELSE LET p == a[1][1] q == b[1][1]
         IN IF Sing(p, q) THEN Node(b[1], ByInt(a[2], b[2]), ByInt(a[3], b[3]))
            ELSE IF Mor(p, q)
            THEN IF Gor(q, p)
                 THEN ByUni(ByInt(a[2], Node(b[1], b[2], Nul)), ByInt(a, b[3]))
                 ELSE ByUni(ByInt(a[3], Node(b[1], Nul, b[3])), ByInt(a, b[2]))
            ELSE IF Gor(p, q)
                 THEN ByUni(ByInt(Node(a[1], a[2], Nul), b[2]), ByInt(a[3], b))
                 ELSE ByUni(ByInt(Node(a[1], Nul, a[3]), b[3]), ByInt(a[2], b))

RECURSIVE ByPutRoot(_, _)
ByPutRoot(a, n) ==
    IF a = Nul THEN Leaf(n)
    ELSE IF Sing(n[1], a[1][1]) THEN Node(n, a[2], a[3])
    ELSE IF Gor(n[1], a[1][1])
    THEN LET c == ByPutRoot(a[2], n) IN Node(c[1], c[2], Node(a[1], c[3], a[3]))
    ELSE LET c == ByPutRoot(a[3], n) IN Node(c[1], Node(a[1], a[2], c[2]), c[3])

ByBif(a, n) == LET c == ByPutRoot(a, n) IN <<c[2], c[3]>>

RECURSIVE ByJoin(_, _)
ByJoin(d, e) ==
    CASE d = Nul -> e
      [] e = Nul -> d
      [] OTHER -> IF Mor(d[1][1], e[1][1]) THEN Node(d[1], d[2], ByJoin(d[3], e))
                  ELSE Node(e[1], ByJoin(d, e[2]), e[3])

RECURSIVE ByDif(_, _)
ByDif(a, b) ==
    IF b = Nul THEN a
    ELSE LET c == ByBif(a, b[1]) IN ByJoin(ByDif(c[1], b[2]), ByDif(c[2], b[3]))

RECURSIVE ByApt(_, _, _)
ByApt(a, lo, hi) ==
    a # Nul =>
        LET p == a[1][1]
        IN /\ \A x \in lo : Gor(p, x) /\ ~Sing(p, x)
           /\ \A x \in hi : Gor(x, p) /\ ~Sing(x, p)
           /\ a[2] # Nul => /\ Mor(p, a[2][1][1]) /\ ~Sing(p, a[2][1][1])
                            /\ ByApt(a[2], {p}, hi)
           /\ a[3] # Nul => /\ Mor(p, a[3][1][1]) /\ ~Sing(p, a[3][1][1])
                            /\ ByApt(a[3], lo, {p})

(* get: the unit of the value. *)
RECURSIVE ByGet(_, _)
ByGet(a, k) ==
    IF a = Nul THEN {}
    ELSE IF Sing(k, a[1][1]) THEN {a[1][2]}
    ELSE ByGet(IF Gor(k, a[1][1]) THEN a[2] ELSE a[3], k)

RECURSIVE ByHas(_, _)
ByHas(a, k) ==
    /\ a # Nul
    /\ Sing(k, a[1][1]) \/ ByHas(IF Gor(k, a[1][1]) THEN a[2] ELSE a[3], k)

(* jab: a key that is not there crashes; the caller asks first. *)
RECURSIVE ByJab(_, _, _)
ByJab(a, k, gate) ==
    IF Sing(k, a[1][1]) THEN Node(<<a[1][1], gate[a[1][2]]>>, a[2], a[3])
    ELSE IF Gor(k, a[1][1]) THEN Node(a[1], ByJab(a[2], k, gate), a[3])
    ELSE Node(a[1], a[2], ByJab(a[3], k, gate))

RECURSIVE ByAll(_, _)
ByAll(a, good) == a = Nul \/ (a[1][2] \in good /\ ByAll(a[2], good) /\ ByAll(a[3], good))

RECURSIVE ByAny(_, _)
ByAny(a, good) == a # Nul /\ (a[1][2] \in good \/ ByAny(a[2], good) \/ ByAny(a[3], good))

RECURSIVE ByKey(_, _)
ByKey(a, set) == IF a = Nul THEN set ELSE ByKey(a[3], ByKey(a[2], InPut(set, a[1][1])))

RECURSIVE ByRun(_, _)
ByRun(a, gate) ==
    IF a = Nul THEN Nul
    ELSE Node(<<a[1][1], gate[a[1][2]]>>, ByRun(a[2], gate), ByRun(a[3], gate))

RECURSIVE ByUrn(_, _)
ByUrn(a, gate) ==
    IF a = Nul THEN Nul
    ELSE Node(<<a[1][1], gate[a[1]]>>, ByUrn(a[2], gate), ByUrn(a[3], gate))

RECURSIVE ByGas(_, _)
ByGas(a, list) ==
    IF list = <<>> THEN a ELSE ByGas(ByPut(a, list[1][1], list[1][2]), Tail(list))

=============================================================================
