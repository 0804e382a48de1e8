-------------------------------- MODULE Nouns --------------------------------
(***************************************************************************)
(* The pure part of the runtime at work: atoms, axes, lists, sets and      *)
(* maps, parser rules, jam and cue, and nock.  A behaviour picks one task; *)
(* the tasks on maps go on, so that every tree is one that the jets made.  *)
(* The properties compare what the code computes with definitions that do  *)
(* not share its algorithms.                                               *)
(***************************************************************************)
EXTENDS Integers, Sequences, FiniteSets

CONSTANTS
    WordLog,        \* words of atoms have 2^WordLog bits
    WordBits,       \* words of axes
    ByteMax,        \* bytes of nock's bytecode
    AtomTasks, WalkTasks, ListTasks, RuleTasks, JamTasks, CueTasks, NockTasks,
    Keys,           \* the keys of maps, nouns
    Puts,           \* what is put into maps: pairs of a key and a value
    Mugs,           \* the hashes they may have: functions on Keys
    Remugs          \* and the hashes of hashes

VARIABLE job

Mug(n) == job.mug[n]

Remug(h) == job.remug[h]

(* The scry handler of the nock tasks: 0 blocks, 1 has nothing. *)
Esc(ref, gof) ==
    CASE gof = <<0>> -> <<0>>
      [] gof = <<1>> -> << <<0>>, <<0>> >>
      [] OTHER -> << <<0>>, << <<0>>, gof>> >>

A == INSTANCE Words

L == INSTANCE Lists

P == INSTANCE Parse

S == INSTANCE Serial

T == INSTANCE Treap

K == INSTANCE Burn

Idle == [task |-> "idle"]

NounsInit == job = Idle

DoAtoms == job = Idle /\ \E t \in AtomTasks : job' = [task |-> "atoms", a |-> t[1], b |-> t[2]]

DoWalk == job = Idle /\ \E t \in WalkTasks : job' = [task |-> "walk", noun |-> t[1], axe |-> t[2]]

DoList == job = Idle /\ \E t \in ListTasks : job' = [task |-> "list", a |-> t]

DoRule == job = Idle /\ \E t \in RuleTasks : job' = [task |-> "rule", rule |-> t[1], text |-> t[2]]

DoJam == job = Idle /\ \E t \in JamTasks : job' = [task |-> "jam", noun |-> t]

DoCue == job = Idle /\ \E t \in CueTasks : job' = [task |-> "cue", bits |-> t]

DoNock == job = Idle /\ \E t \in NockTasks : job' = [task |-> "nock", bus |-> t[1], fol |-> t[2]]

(* Two maps m and n, how keys hash, and the pairs that should be in them. *)
NewTrees ==
    /\ job = Idle
    /\ \E m \in Mugs, r \in Remugs :
        job' = [task |-> "trees", mug |-> m, remug |-> r, m |-> T!Nul, n |-> T!Nul,
                inM |-> {}, inN |-> {}]

Trees == job.task = "trees"

Lacks(pairs, k) == {p \in pairs : p[1] # k}

HasKey(pairs, k) == \E p \in pairs : p[1] = k

PutTree ==
    Trees /\ \E p \in Puts : job' = [job EXCEPT !.m = T!ByPut(@, p[1], p[2]),
                                               !.inM = Lacks(@, p[1]) \union {p}]

DelTree ==
    Trees /\ \E k \in Keys : job' = [job EXCEPT !.m = T!ByDel(@, k), !.inM = Lacks(@, k)]

(* The second map's values win. *)
UniTree ==
    Trees /\ job' = [job EXCEPT !.m = T!ByUni(@, job.n),
                                !.inM = {p \in @ : ~HasKey(job.inN, p[1])} \union job.inN]

IntTree ==
    Trees /\ job' = [job EXCEPT !.m = T!ByInt(@, job.n),
                                !.inM = {p \in job.inN : HasKey(@, p[1])}]

DifTree ==
    Trees /\ job' = [job EXCEPT !.m = T!ByDif(@, job.n),
                                !.inM = {p \in @ : ~HasKey(job.inN, p[1])}]

SwapTree ==
    Trees /\ job' = [job EXCEPT !.m = job.n, !.n = job.m, !.inM = job.inN, !.inN = job.inM]

NounsNext ==
    \/ DoAtoms \/ DoWalk \/ DoList \/ DoRule \/ DoJam \/ DoCue \/ DoNock
    \/ NewTrees \/ PutTree \/ DelTree \/ UniTree \/ IntTree \/ DifTree \/ SwapTree

NounsSpec == NounsInit /\ [][NounsNext]_job

-----------------------------------------------------------------------------
(* Atoms, against sets of bits and integers. *)

BitsOf(x) == {i \in 0 .. Len(x) * A!W - 1 : A!Shr(x[i \div A!W + 1], i % A!W) % 2 = 1}

RECURSIVE SumBits(_, _)
SumBits(set, n) == IF n = 0 THEN 0 ELSE SumBits(set, n - 1) + (IF n - 1 \in set THEN 2 ^ (n - 1) ELSE 0)

AtomOf(set) ==
    A!Mint([i \in 1 .. 6 |-> SumBits({b - (i - 1) * A!W : b \in {c \in set : c >= (i - 1) * A!W}}, A!W)])

SizeOf(g, x) ==
    LET set == BitsOf(x)
    IN IF set = {} THEN 0 ELSE (CHOOSE i \in set : \A j \in set : j <= i) \div 2 ^ g + 1

Up(set, n) == {i + n : i \in set}

Between(set, lo, hi) == {i - lo : i \in {j \in set : j >= lo /\ j < hi}}

ShiftsRight(a, b) ==
    \A g \in 0 .. 4, n \in {0, 1, 2, 3, 7, 200} :
        /\ A!Met(g, a) = SizeOf(g, a)
        /\ n * 2 ^ g < 24 => A!Lsh(g, n, a) = AtomOf(Up(BitsOf(a), n * 2 ^ g))
        /\ A!Rsh(g, n, a) = AtomOf(Between(BitsOf(a), n * 2 ^ g, 1000))
        /\ A!End(g, n, a) = AtomOf(Between(BitsOf(a), 0, n * 2 ^ g))
        /\ g < 3 => A!Cat(g, a, b) = AtomOf(BitsOf(a) \union Up(BitsOf(b), SizeOf(g, a) * 2 ^ g))

CutsRight(a) ==
    \A g \in 0 .. 3, p \in 0 .. 5, n \in {0, 1, 2, 5, 200} :
        A!Cut(g, p, n, a) = AtomOf(Between(BitsOf(a), p * 2 ^ g, (p + n) * 2 ^ g))

BlocksRight(a, b) ==
    /\ A!Dis(a, b) = AtomOf(BitsOf(a) \intersect BitsOf(b))
    /\ A!Con(a, b) = AtomOf(BitsOf(a) \union BitsOf(b))
    /\ A!Mix(a, b) = AtomOf((BitsOf(a) \union BitsOf(b)) \ (BitsOf(a) \intersect BitsOf(b)))
    /\ \A g \in 0 .. 4 : /\ A!BlockRep(g, A!BlockRip(g, a)) = a
                         /\ A!Rev(g, A!Met(g, a), A!Rev(g, A!Met(g, a), a)) = a
    /\ \A n \in 1 .. 7 : A!BitRep(n, A!BitRip(n, a), 0) = a
    /\ LET m == A!Mat(a)
       IN m[1] < 30 => /\ A!Met(0, m[2]) <= m[1]
                       /\ A!Rub(0, m[2]) = <<m[1], a>>
                       /\ A!Rub(5, A!Lsh(0, 5, m[2])) = <<m[1], a>>

NumbersRight(a, b) ==
    LET x == A!Mp(a) y == A!Mp(b)
    IN /\ A!Add(a, b) = A!IMp(x + y)
       /\ x < 30000 \/ y < 30000 => A!Mul(a, b) = A!IMp(x * y)
       /\ A!Lth(a, b) = (x < y)
       /\ A!Gte(a, b) = (x >= y)
       /\ A!Lte(a, b) = (x <= y)
       /\ A!Gth(a, b) = (x > y)
       /\ y # 0 => A!Dvr(a, b) = <<A!IMp(x \div y), A!IMp(x % y)>>
       /\ x >= y => A!Sub(a, b) = A!IMp(x - y)
       /\ x # 0 /\ y > 1 /\ A!Met(0, a) + A!Met(0, b) < 30 =>
            A!Peg(a, b) = A!Peg(A!Peg(a, A!Cap(b)), A!Mas(b))

(* The atom jets compute what they say on every pair of atoms of up to two *)
(* words, direct or not, and with bloqs smaller and larger than a word:    *)
(* shifts, cuts and joins move bits and neither lose nor invent any, the   *)
(* bitwise and arithmetic jets agree with sets and integers, and rep, rev  *)
(* and rub undo rip, rev and mat.                                          *)
AtomsRight ==
    job.task = "atoms" =>
        /\ ShiftsRight(job.a, job.b)
        /\ CutsRight(job.a)
        /\ BlocksRight(job.a, job.b)
        /\ NumbersRight(job.a, job.b)

-----------------------------------------------------------------------------
(* Axes, by their last turn first. *)

RECURSIVE Fragment(_, _)
Fragment(axe, n) ==
    IF axe = 1 THEN n
    ELSE LET up == Fragment(axe \div 2, n)
         IN IF up = <<>> \/ Len(up) = 1 THEN <<>> ELSE up[1 + (axe % 2)]

RECURSIVE Under(_, _)
Under(axe, top) == axe >= top /\ (axe = top \/ Under(axe \div 2, top))

Mark == <<999>>

(* A walk to an axis of any depth, within one word of it or over several,  *)
(* finds the noun that the turns lead to; an edit puts the new noun there, *)
(* leaves every axis beside it alone, and bails exactly where there is no  *)
(* such axis.  Two axes matched or edited at once are as good as one by    *)
(* one.                                                                    *)
WalksRight ==
    job.task = "walk" =>
        LET n == job.noun
            a == job.axe
            e == K!Edit(n, a, Mark)
            two(b) == ~Under(a, b) /\ ~Under(b, a)
        IN /\ K!At(a, n) = Fragment(a, n)
           /\ (e = K!Bail) = (Fragment(a, n) = <<>>)
           /\ e # K!Bail =>
                /\ Fragment(a, e) = Mark
                /\ \A b \in 1 .. 40 : two(b) => Fragment(b, e) = Fragment(b, n)
           /\ \A b \in {2, 3, 7} :
                two(b) =>
                    LET order == IF K!CapOf(b) = 2 THEN <<b, a>> ELSE <<a, b>>
                        prs   == [i \in 1 .. 2 |-> <<order[i], Mark>>]
                        first == K!Edit(n, a, Mark)
                    IN /\ K!Mean(n, order) =
                            (IF \E i \in 1 .. 2 : Fragment(order[i], n) = <<>> THEN {}
                             ELSE {[i \in 1 .. 2 |-> Fragment(order[i], n)]})
                       /\ K!Molt(n, prs) =
                            (IF first = K!Bail THEN K!Bail ELSE K!Edit(first, b, Mark))

-----------------------------------------------------------------------------
(* Lists, against sequences. *)

ListItems(a) == L!Items(a)

Odd(x) == IF x[1] % 2 = 0 THEN <<0>> ELSE <<1>>

Pairs(set) == {<<x, y>> : x \in set, y \in set}

Permuted(s, t) ==
    /\ Len(s) = Len(t)
    /\ \A x \in {s[i] : i \in DOMAIN s} :
        Cardinality({i \in DOMAIN s : s[i] = x}) = Cardinality({i \in DOMAIN t : t[i] = x})

(* The list jets, on lists and on nouns that only begin like one: cutting  *)
(* a list and welding it gives it back, reversing twice and splitting by a *)
(* gate lose nothing, sort is a stable order of the same items, a search   *)
(* finds the first match, and the two folds mirror each other.  A jet      *)
(* bails on a noun that is no list exactly when it has to read its end.    *)
ListsRight ==
    job.task = "list" =>
        LET a    == job.a
            its  == ListItems(a)
            set  == {its[i] : i \in DOMAIN its}
            ok   == L!IsList(a)
            even == [x \in set |-> Odd(x)]
            leq  == [p \in Pairs(set) |-> IF p[1][1] <= p[2][1] THEN <<0>> ELSE <<1>>]
            lth  == [p \in Pairs(set) |-> IF p[1][1] < p[2][1] THEN <<0>> ELSE <<1>>]
            evens == {i \in DOMAIN its : Odd(its[i]) = <<0>>}
            odds  == DOMAIN its \ evens
            sorted == L!Sort(a, lth)
        IN /\ ok => \A n \in 0 .. Len(its) + 1 :
                /\ L!Weld(L!Scag(n, a), L!Slag(n, a)) = a
                /\ n < Len(its) => L!Snag(n, a) = its[n + 1]
           /\ ok => /\ L!Flop(L!Flop(a)) = a
                    /\ L!Skid(a, even) = <<L!Skim(a, even), L!Skip(a, even)>>
                    /\ L!Turn(a, [x \in set |-> x]) = a
                    /\ L!Zing(L!Listed(<<a, a, L!Flop(a)>>)) = L!Weld(a, L!Weld(a, L!Flop(a)))
                    /\ L!Lent(a) = <<Len(its)>>
                    /\ (L!Levy(a, even) = L!Yes) = (odds = {})
                    /\ (L!Lien(a, even) = L!Yes) = (evens # {})
                    /\ Permuted(ListItems(sorted), its)
                    /\ \A i, j \in DOMAIN its :
                        i < j => leq[<<ListItems(sorted)[i], ListItems(sorted)[j]>>] = L!Yes
                    /\ \A n \in 1 .. Len(its), k \in 0 .. 1 :
                        LET nedl == SubSeq(its, n, n + k)
                            hits == {h \in 1 .. Len(its) - Len(nedl) + 1 :
                                        SubSeq(its, h, h + Len(nedl) - 1) = nedl}
                        IN n + k <= Len(its) =>
                            L!Find(L!Listed(nedl), a) =
                                L!Unit(<<(CHOOSE h \in hits : \A g \in hits : h <= g) - 1>>)
           /\ ~ok => /\ \A r \in {L!Flop(a), L!Lent(a), L!Skid(a, even), L!Turn(a, even),
                                   L!Weld(a, a), L!Sort(a, lth)} : r = L!Bail
                     /\ (L!Levy(a, even) = L!Bail) = (odds = {})
                     /\ (L!Lien(a, even) = L!Bail) = (evens = {})
                     /\ \A n \in 0 .. Len(its) : L!Scag(n, a) # L!Bail

-----------------------------------------------------------------------------
(* Parser rules, against a parser on positions: it answers with the        *)
(* furthest position looked at and the positions behind a match.           *)

(* The line and column of a position of the text, counted from 1. *)
PlaceAt(text, i) ==
    LET ends == {j \in 1 .. i - 1 : text[j] = P!Newline}
        last == IF ends = {} THEN 0 ELSE CHOOSE j \in ends : \A k \in ends : k <= j
    IN <<1 + Cardinality(ends), i - last>>

Most(i, j) == IF i > j THEN i ELSE j

RECURSIVE Match(_, _, _)

(* The second rule on what the first left, and the furthest of both. *)
Then(r1, r2, text, i) ==
    LET v == Match(r1, text, i)
        w == Match(r2, text, v.to)
    IN IF v.to = 0 THEN v ELSE [far |-> Most(v.far, w.far), to |-> w.to]

One(ok, i) == IF ok THEN [far |-> i + 1, to |-> i + 1] ELSE [far |-> i, to |-> 0]

Match(r, text, i) ==
    LET more == i <= Len(text)
        c    == text[i]
        v    == Match(r[2], text, i)
    IN CASE r[1] = "just" -> One(more /\ c = r[2], i)
         [] r[1] = "mask" -> One(more /\ c \in {r[2][j] : j \in DOMAIN r[2]}, i)
         [] r[1] = "shim" -> One(more /\ c \in r[2] .. r[3], i)
         [] r[1] = "easy" -> [far |-> i, to |-> i]
         [] r[1] \in {"cold", "cook", "stag", "here"} -> v
         [] r[1] = "bend" ->
                LET w == Then(r[2], r[3], text, i)
                IN IF v.to = 0 THEN v ELSE [w EXCEPT !.to = IF @ = 0 THEN v.to ELSE @]
         [] r[1] \in {"comp", "plug", "pfix", "sfix"} -> Then(r[2], r[3], text, i)
         [] r[1] = "glue" -> Then(r[2], <<"plug", r[4], r[3]>>, text, i)
         [] r[1] = "pose" ->
                LET w == Match(r[3], text, i)
                IN IF v.to # 0 THEN v ELSE [far |-> Most(v.far, w.far), to |-> w.to]
         [] r[1] = "stir" ->
                LET w == Match(r, text, v.to)
                IN IF v.to = 0 THEN [far |-> v.far, to |-> i]
                   ELSE [far |-> Most(v.far, w.far), to |-> w.to]
         [] r[1] = "stew" ->
                LET hits == {n \in P!StewNodes(r[2]) : more /\ c \in n[1] .. n[2]}
                IN IF hits = {} THEN [far |-> i, to |-> 0]
                   ELSE Match((CHOOSE n \in hits : TRUE)[3], text, i)

(* A rule matches what the grammar says it matches, leaves the text behind *)
(* the match, and reports the line and column of the furthest character    *)
(* any part of it looked at, whether that part was taken or given up.      *)
RulesRight ==
    job.task = "rule" =>
        LET tub == [pos |-> <<1, 1>>, txt |-> job.text]
            vex == P!Rule(job.rule, tub)
            ref == Match(job.rule, job.text, 1)
        IN /\ vex.hair = PlaceAt(job.text, ref.far)
           /\ P!IsFail(vex) = (ref.to = 0)
           /\ ref.to # 0 => P!After(vex) = [pos |-> PlaceAt(job.text, ref.to),
                                            txt |-> SubSeq(job.text, ref.to, Len(job.text))]

-----------------------------------------------------------------------------
(* What the encoders made, what the decoders found, and the fast check. *)
JamsAgree(fib, xeno, ur) ==
    /\ \A e \in {xeno, ur} : e.set = fib.set /\ e.bits = fib.bits /\ ~e.over
    /\ 8 * xeno.fill + xeno.off = xeno.bits

CuesAgree(cues, test) ==
    /\ Cardinality(cues) = 1
    /\ test <=> \A c \in cues : c.ok


-----------------------------------------------------------------------------
(* The only treap of a set of pairs: the root is the first by mor, and the *)
(* other pairs go left or right of it by gor.                              *)
RECURSIVE Canon(_)
Canon(pairs) ==
    IF pairs = {} THEN T!Nul
    ELSE LET r == CHOOSE p \in pairs : \A q \in pairs : T!Mor(p[1], q[1])
         IN T!Node(r, Canon({q \in pairs \ {r} : T!Gor(q[1], r[1])}),
                   Canon({q \in pairs \ {r} : ~T!Gor(q[1], r[1])}))

RECURSIVE CanonSet(_)
CanonSet(keys) ==
    IF keys = {} THEN T!Nul
    ELSE LET r == CHOOSE p \in keys : \A q \in keys : T!Mor(p, q)
         IN T!Node(r, CanonSet({q \in keys \ {r} : T!Gor(q, r)}),
                   CanonSet({q \in keys \ {r} : ~T!Gor(q, r)}))

KeysOf(pairs) == {p[1] : p \in pairs}

(* The set jets, on the keys of both maps. *)
SetsRight ==
    LET a == CanonSet(KeysOf(job.inM))
        b == CanonSet(KeysOf(job.inN))
    IN /\ T!ByKey(job.m, T!Nul) = a
       /\ T!InUni(a, b) = CanonSet(KeysOf(job.inM) \union KeysOf(job.inN))
       /\ T!InInt(a, b) = CanonSet(KeysOf(job.inM) \intersect KeysOf(job.inN))
       /\ T!InDif(a, b) = CanonSet(KeysOf(job.inM) \ KeysOf(job.inN))
       /\ T!InWyt(a) = Cardinality(job.inM)
       /\ T!InGas(T!Nul, T!InTap(a, <<>>)) = a
       /\ T!InGas(b, T!InRep(a, <<>>)) = T!InUni(b, a)
       /\ T!InRun(a, [k \in Keys |-> k], T!Nul) = a
       /\ T!InApt(a, {}, {})
       /\ \A k \in Keys :
            /\ T!InHas(a, k) = (k \in KeysOf(job.inM))
            /\ T!InDel(a, k) = CanonSet(KeysOf(job.inM) \ {k})
            /\ T!InPut(a, k) = CanonSet(KeysOf(job.inM) \union {k})
            /\ LET c == T!InBif(a, k)
               IN T!InJoin(c[1], c[2]) = CanonSet(KeysOf(job.inM) \ {k})

(* However a map was made, by single puts and deletions, by unions,        *)
(* intersections and differences, and however its keys collide in the two  *)
(* hashes, its tree is the one tree of its pairs: equal maps are equal     *)
(* nouns.  A lookup finds every key and no other, the checks of apt        *)
(* accept, and the jets on sets agree.                                     *)
TreesRight ==
    Trees =>
        /\ job.m = Canon(job.inM) /\ job.n = Canon(job.inN)
        /\ T!ByApt(job.m, {}, {})
        /\ \A k \in Keys :
            /\ T!ByGet(job.m, k) = {p[2] : p \in {q \in job.inM : q[1] = k}}
            /\ T!ByHas(job.m, k) = HasKey(job.inM, k)
            /\ HasKey(job.inM, k) =>
                T!ByJab(job.m, k, [v \in {0, 1} |-> 1 - v]) =
                    Canon({IF p[1] = k THEN <<k, 1 - p[2]>> ELSE p : p \in job.inM})
        /\ T!ByAll(job.m, {0}) = (\A p \in job.inM : p[2] = 0)
        /\ T!ByAny(job.m, {1}) = (\E p \in job.inM : p[2] = 1)
        /\ T!ByRun(job.m, [v \in {0, 1} |-> 1 - v]) =
                Canon({<<p[1], 1 - p[2]>> : p \in job.inM})
        /\ T!ByUrn(job.m, [p \in Puts |-> 1 - p[2]]) = T!ByRun(job.m, [v \in {0, 1} |-> 1 - v])
        /\ T!ByGas(job.n, T!InTap(job.m, <<>>)) = T!ByUni(job.n, job.m)
        /\ SetsRight

-----------------------------------------------------------------------------
(* Nock as its definition has it: the products of a formula, one or none.  *)
RECURSIVE Tar(_, _, _)
Tar(a, f, d) ==
    LET go(s, g) == Tar(s, g, d - 1)
        arg == f[2]
        b == arg[1]
        c == arg[2]
        each(Op(_, _), p, q) == UNION {UNION {Op(x, y) : y \in go(a, q)} : x \in go(a, p)}
        op == f[1][1]
    IN IF d = 0 \/ K!IsAtom(f) THEN {}
       ELSE IF K!IsCell(f[1]) THEN each(LAMBDA x, y : {<<x, y>>}, f[1], arg)
       ELSE IF op = 1 THEN {arg}
       ELSE IF op = 0
       THEN IF K!IsAtom(arg) /\ b # 0 /\ Fragment(b, a) # <<>> THEN {Fragment(b, a)} ELSE {}
       ELSE IF K!IsAtom(arg) THEN {}
       ELSE CASE op = 2 -> each(LAMBDA x, y : go(x, y), b, c)
              [] op = 3 -> {K!Loobean(K!IsCell(x)) : x \in go(a, arg)}
              [] op = 4 -> {<<x[1] + 1>> : x \in {y \in go(a, arg) : K!IsAtom(y)}}
              [] op = 5 -> each(LAMBDA x, y : {K!Loobean(x = y)}, b, c)
              [] op = 6 -> UNION {CASE K!IsAtom(c) -> {}
                                    [] x = <<0>> -> go(a, c[1])
                                    [] x = <<1>> -> go(a, c[2])
                                    [] OTHER -> {} : x \in go(a, b)}
              [] op = 7 -> UNION {go(x, c) : x \in go(a, b)}
              [] op = 8 -> UNION {go(<<x, a>>, c) : x \in go(a, b)}
              [] op = 9 -> UNION {IF b # <<0>> /\ Fragment(b[1], x) # <<>>
                                  THEN go(x, Fragment(b[1], x)) ELSE {} : x \in go(a, c)}
              [] op = 10 -> IF K!IsAtom(b) \/ K!IsCell(b[1]) THEN {}
                            ELSE each(LAMBDA x, y : {K!Edit(y, b[1][1], x)} \ {K!Bail}, b[2], c)
              [] op = 11 -> IF K!IsAtom(b) THEN go(a, c) ELSE each(LAMBDA x, y : {y}, b[2], c)
              [] op = 12 -> each(LAMBDA x, y : IF y \in {<<0>>, <<1>>} THEN {} ELSE {y}, b, c)
              [] OTHER -> {}

Fuel == 400

(* A machine that stopped has the product tar has, and nothing else. *)
Stopped(m, tar) ==
    /\ m.out \in {"pro", "exit", "block"}
    /\ (m.out = "pro") = (tar # {})
    /\ m.out = "pro" => tar = {m.stk[1]} /\ Len(m.stk) = 1 /\ m.tax = <<>>

(* The bytecode of a formula computes what nock says, or bails where nock  *)
(* has no product: the compiler's short cuts, the long and short forms of  *)
(* instructions, tail calls, call sites that remember an arm, memos and    *)
(* hints change nothing.  When it is done the stack holds the product      *)
(* alone, a frame is never taken for a noun, and the trace is as it was.   *)
NockRight ==
    job.task = "nock" =>
        \A inner \in BOOLEAN :
            Stopped(K!NockOn(job.bus, job.fol, inner, Fuel), Tar(job.bus, job.fol, 24))


=============================================================================
