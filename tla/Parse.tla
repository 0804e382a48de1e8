-------------------------------- MODULE Parse --------------------------------
(***************************************************************************)
(* The parser combinators, pkg/noun/jets/e/parse.c.  A nail is a place in  *)
(* the text and the text that is left; an edge is the furthest place that  *)
(* was looked at (hair) and, when the rule matched, the result and the     *)
(* nail behind it (a sequence of none or one).  A gate is data here: a     *)
(* rule is a tuple that names its combinator and holds its parts, and      *)
(* Rule() is the slam of a rule on a nail.                                 *)
(***************************************************************************)
EXTENDS Integers, Sequences, FiniteSets

Newline == 10

Edge(hair, use) == [hair |-> hair, use |-> use]

Used(result, nail) == << [res |-> result, nail |-> nail] >>

IsFail(vex) == vex.use = <<>>

Res(vex) == vex.use[1].res

After(vex) == vex.use[1].nail

(* _slip(): the line and column behind a character. *)
Slip(weq, naz) == IF weq = Newline THEN <<naz[1] + 1, 1>> ELSE <<naz[1], naz[2] + 1>>

(* _fail() *)
Fail(tub) == Edge(tub.pos, <<>>)

(* _last(): the later of two places. *)
Last2(zyc, naz) ==
    IF zyc[1] = naz[1] THEN IF zyc[2] > naz[2] THEN zyc ELSE naz
    ELSE IF zyc[1] > naz[1] THEN zyc ELSE naz

(* _next(): one character. *)
Next1(tub) ==
    IF tub.txt = <<>> THEN Fail(tub)
    ELSE LET zac == Slip(tub.txt[1], tub.pos)
         IN Edge(zac, Used(tub.txt[1], [pos |-> zac, txt |-> Tail(tub.txt)]))

-----------------------------------------------------------------------------
(* Rules on one character *)

Just(daf, tub) == IF tub.txt # <<>> /\ tub.txt[1] = daf THEN Next1(tub) ELSE Fail(tub)

Mask(bud, tub) ==
    IF tub.txt # <<>> /\ \E i \in DOMAIN bud : bud[i] = tub.txt[1] THEN Next1(tub) ELSE Fail(tub)

Shim(p, q, tub) ==
    IF tub.txt # <<>> /\ tub.txt[1] >= p /\ tub.txt[1] <= q THEN Next1(tub) ELSE Fail(tub)

Easy(huf, tub) == Edge(tub.pos, Used(huf, tub))

-----------------------------------------------------------------------------
(* Rules on results: the edge vex of the inner rule is there already.      *)

Cold(cus, vex) == IF IsFail(vex) THEN vex ELSE Edge(vex.hair, Used(cus, After(vex)))

Cook(gate, vex) == IF IsFail(vex) THEN vex ELSE Edge(vex.hair, Used(<<gate, Res(vex)>>, After(vex)))

Stag(gob, vex) == IF IsFail(vex) THEN vex ELSE Edge(vex.hair, Used(<<gob, Res(vex)>>, After(vex)))

Here(tub, vex) ==
    IF IsFail(vex) THEN vex
    ELSE Edge(vex.hair, Used(<<tub.pos, After(vex).pos, Res(vex)>>, After(vex)))

-----------------------------------------------------------------------------
(* Rules in sequence: yit is the edge of the second rule, on what the      *)
(* first one left.                                                         *)

(* bend: a second rule that fails, or whose result the gate refuses, is as *)
(* if it had not been there, but for the hair.                             *)
Bend(no, vex, yit) ==
    LET yur == Last2(vex.hair, yit.hair)
    IN IF IsFail(yit) \/ Res(yit) \in no THEN Edge(yur, vex.use)
       ELSE Edge(yur, Used(<<Res(vex), Res(yit)>>, After(yit)))

Comp(gate, vex, yit) ==
    LET yur == Last2(vex.hair, yit.hair)
    IN IF IsFail(yit) THEN Edge(yur, <<>>)
       ELSE Edge(yur, Used(<<gate, <<Res(vex), Res(yit)>> >>, After(yit)))

Plug(vex, yit) ==
    LET yur == Last2(vex.hair, yit.hair)
    IN IF IsFail(yit) THEN Edge(yur, <<>>)
       ELSE Edge(yur, Used(<<Res(vex), Res(yit)>>, After(yit)))

Pfix(vex, yit) == Edge(Last2(vex.hair, yit.hair), yit.use)

Sfix(vex, yit) ==
    LET yur == Last2(vex.hair, yit.hair)
    IN IF IsFail(yit) THEN Edge(yur, <<>>) ELSE Edge(yur, Used(Res(vex), After(yit)))

(* glue: yit is the separator's edge, wam the second rule's. *)
Glue(vex, yit, wam) ==
    LET goy == Last2(Last2(vex.hair, yit.hair), wam.hair)
    IN IF IsFail(wam) THEN Edge(goy, <<>>)
       ELSE Edge(goy, Used(<<Res(vex), Res(wam)>>, After(wam)))

Pose(vex, roq) == Edge(Last2(vex.hair, roq.hair), roq.use)

-----------------------------------------------------------------------------
(* stew: a search tree of <<first, last, rule>> nodes, ordered by their    *)
(* first characters; the rule found runs on the whole nail.                *)

RECURSIVE StewNodes(_)
StewNodes(hel) == IF hel = <<>> THEN {} ELSE {hel[1]} \union StewNodes(hel[2]) \union StewNodes(hel[3])

RECURSIVE StewFind(_, _)
StewFind(hel, c) ==
    IF hel = <<>> THEN <<>>
    ELSE LET n == hel[1]
         IN IF c >= n[1] /\ c <= n[2] THEN <<n[3]>>
            ELSE IF c < n[1] THEN StewFind(hel[2], c) ELSE StewFind(hel[3], c)

(* stir: results are pushed until the rule fails, then folded back. *)
RECURSIVE StirFold(_, _, _)
StirFold(pile, hair, res) ==
    IF pile = <<>> THEN <<hair, res>>
    ELSE LET par == pile[Len(pile)]
         IN StirFold(SubSeq(pile, 1, Len(pile) - 1), Last2(par[1], hair), <<par[2], res>>)

RECURSIVE Rule(_, _), StirPush(_, _, _, _)
StirPush(rud, fel, tub, pile) ==
    LET vex == Rule(fel, tub)
    IN IF IsFail(vex)
       THEN LET wag == StirFold(pile, vex.hair, rud) IN Edge(wag[1], Used(wag[2], tub))
       ELSE StirPush(rud, fel, After(vex), Append(pile, <<vex.hair, Res(vex)>>))

Rule(r, tub) ==
    LET vex == Rule(r[2], tub)
        yit == Rule(r[3], After(vex))
    IN CASE r[1] = "just" -> Just(r[2], tub)
         [] r[1] = "mask" -> Mask(r[2], tub)
         [] r[1] = "shim" -> Shim(r[2], r[3], tub)
         [] r[1] = "easy" -> Easy(r[2], tub)
         [] r[1] = "cold" -> Cold(r[3], vex)
         [] r[1] = "cook" -> Cook(r[3], vex)
         [] r[1] = "stag" -> Stag(r[3], vex)
         [] r[1] = "here" -> Here(tub, vex)
         [] r[1] = "bend" -> IF IsFail(vex) THEN vex ELSE Bend(r[4], vex, yit)
         [] r[1] = "comp" -> IF IsFail(vex) THEN vex ELSE Comp(r[4], vex, yit)
         [] r[1] = "plug" -> IF IsFail(vex) THEN vex ELSE Plug(vex, yit)
         [] r[1] = "pfix" -> IF IsFail(vex) THEN vex ELSE Pfix(vex, yit)
         [] r[1] = "sfix" -> IF IsFail(vex) THEN vex ELSE Sfix(vex, yit)
         [] r[1] = "glue" ->
                IF IsFail(vex) THEN vex
                ELSE LET bus == Rule(r[4], After(vex))
                     IN IF IsFail(bus) THEN Edge(Last2(vex.hair, bus.hair), <<>>)
                        ELSE Glue(vex, bus, Rule(r[3], After(bus)))
         [] r[1] = "pose" -> IF ~IsFail(vex) THEN vex ELSE Pose(vex, Rule(r[3], tub))
         [] r[1] = "stew" ->
                LET hit == IF tub.txt = <<>> THEN <<>> ELSE StewFind(r[2], tub.txt[1])
                IN IF hit = <<>> THEN Fail(tub) ELSE Rule(hit[1], tub)
         [] r[1] = "stir" -> StirPush(r[3], r[2], tub, <<>>)

=============================================================================
