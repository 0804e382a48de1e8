------------------------------- MODULE MCNouns -------------------------------
(***************************************************************************)
(* The tasks of module Nouns: words of eight bits and bytes that hold five *)
(* values, so that two-word atoms, short and long instructions and long    *)
(* skips all turn up in small inputs.                                      *)
(***************************************************************************)
EXTENDS Nouns

C(x, y) == <<x, y>>

(* Atoms of up to two words, with words at both ends of the direct range. *)
MCAtoms == {A!Mint(s) : s \in UNION {[1 .. n -> {0, 1, 127, 128, 166, 255}] : n \in 0 .. 2}}
MCAtomTasks == {<<a, b>> : a \in MCAtoms, b \in {<<>>, <<1>>, <<128>>, <<127, 1>>, <<166, 255>>}}

(* Combs to the left and right, deeper than one word of an axis. *)
RECURSIVE Comb(_, _)
Comb(n, left) ==
    IF n = 0 THEN <<0>> ELSE IF left THEN C(Comb(n - 1, left), <<n>>) ELSE C(<<n>>, Comb(n - 1, left))
MCWalkTasks ==
    {Comb(6, TRUE), Comb(6, FALSE), C(Comb(3, TRUE), Comb(5, FALSE)), <<5>>} \X (1 .. 130)

(* Lists of up to four items, and nouns that end like none. *)
RECURSIVE ListOf(_, _)
ListOf(its, last) == IF its = <<>> THEN last ELSE C(its[1], ListOf(Tail(its), last))
MCListTasks ==
    {ListOf(its, last) : its \in UNION {[1 .. n -> {<<1>>, <<2>>, <<4>>}] : n \in 0 .. 4},
                         last \in {<<0>>, <<7>>}}

(* Rules one and two deep, on texts with lines. *)
MCRule1 ==
    {<<"just", 1>>, <<"mask", <<1, 10>> >>, <<"shim", 1, 2>>, <<"easy", 0>>,
     <<"stew", << <<1, 1, <<"just", 1>> >>, <<>>, << <<2, 9, <<"shim", 2, 3>> >>, <<>>, <<>> >> >> >>}
MCRule2 ==
    MCRule1
    \union {<<k, r, s>> : k \in {"plug", "pfix", "sfix", "pose"}, r \in MCRule1, s \in MCRule1}
    \union {<<k, r, s, {}>> : k \in {"bend", "comp"}, r \in MCRule1, s \in MCRule1}
    \union {<<"glue", r, s, <<"just", 2>> >> : r \in MCRule1, s \in MCRule1}
    \union {<<k, r, 0>> : k \in {"cold", "cook", "stag", "here"}, r \in MCRule1}
    \union {<<"stir", r, 0>> : r \in MCRule1 \ {<<"easy", 0>>}}
MCRule3 == {<<"pose", r, s>> : r \in {q \in MCRule2 : q[1] \in {"plug", "glue"}},
                               s \in {<<"stir", <<"shim", 1, 2>>, 0>>, <<"just", 2>>}}
    \union {<<k, r, <<"plug", s, <<"just", 2>> >>, {}>> : k \in {"bend", "comp"}, r \in MCRule1, s \in MCRule1}
MCTexts == UNION {[1 .. n -> {1, 2, 10}] : n \in 0 .. 3}
MCRuleTasks == (MCRule2 \union MCRule3) \X MCTexts

(* Atoms are sets of bits here, with some wider than one and two words. *)
MCBits == {<<b>> : b \in {{}, {0}, {2, 5}, {0, 31}, {32}, 0 .. 40, {62}, 0 .. 69}}
MCCells == {C(a, b) : a \in MCBits, b \in MCBits}
MCJamTasks ==
    MCBits \union MCCells \union {C(a, b) : a \in MCCells, b \in {<< {2, 5} >>, << {0} >>}}
    \union {C(a, a) : a \in MCCells} \union {C(C(a, a), << {0} >>) : a \in MCCells}
MCCueTasks ==
    {[set |-> s, len |-> 1] : s \in SUBSET (0 .. 7)}
    \union {[set |-> s, len |-> 2] :
                s \in {t \in SUBSET (0 .. 15) : 15 \in t /\ t \intersect {8, 10, 12} = {}}}

(* Keys, and hashes with and without collisions. *)
MCKeys == {<<1>>, <<2>>, C(<<1>>, <<2>>), C(<<1>>, <<3>>)}
MCPuts == {<<k, 0>> : k \in MCKeys} \union {<< <<1>>, 1>>}
Hash(a, b, c, d) ==
    [k \in MCKeys |-> CASE k = <<1>> -> a [] k = <<2>> -> b [] k = C(<<1>>, <<2>>) -> c [] OTHER -> d]
MCMugs == {Hash(0, 1, 2, 3), Hash(2, 0, 3, 1), Hash(0, 0, 0, 0), Hash(1, 0, 1, 0), Hash(2, 1, 1, 0)}
MCRemugs == {[h \in 0 .. 3 |-> 3 - h], [h \in 0 .. 3 |-> (h * 2 + 1) % 4]}

(* Formulas *)
F0 == C(<<0>>, <<0>>)
Ax(n) == C(<<0>>, <<n>>)
Lit(n) == C(<<1>>, n)
Op2(o, f, g) == C(<<o>>, C(f, g))
MCSimple ==
    {Ax(n) : n \in {0, 1, 2, 3, 4, 13, 30}}
    \union {Lit(n) : n \in {<<0>>, <<1>>, <<3>>, <<9>>, <<20>>, C(<<0>>, <<1>>)}}
    \union {C(<<3>>, Ax(1)), C(<<4>>, Ax(2)), <<5>>, C(<<13>>, <<0>>), Lit(Ax(1)), Lit(Lit(<<7>>))}
MCFew == {Ax(1), Ax(2), Ax(3), Ax(14), Lit(<<0>>), Lit(<<1>>), Lit(<<20>>), Lit(Ax(3)), <<5>>, C(<<4>>, Ax(2))}
MCTwo ==
    {Op2(o, f, g) : o \in {2, 5, 7, 8, 12}, f \in MCSimple, g \in MCSimple}
    \union {C(f, g) : f \in MCFew, g \in MCFew}
MCBranch ==
    {C(<<6>>, C(t, C(f, g))) : t \in {Lit(<<0>>), Lit(<<1>>), Ax(2), Ax(1), Op2(5, Ax(2), Lit(<<1>>))},
                               f \in MCFew, g \in MCFew}
(* The clue of a dynamic %bout is a cell, as its hint asserts. *)
MCHinted ==
    {Op2(11, <<z>>, f) : z \in {5, K!Xray, K!Bout}, f \in MCFew}
    \union {Op2(11, C(<<z>>, h), f) :
                z \in {5, K!Nara, K!Hela, K!Bout, K!Spot, K!Live, K!Slog, K!Fast, K!Memo},
                h \in {C(Ax(1), Ax(1)), F0}, f \in MCFew}
MCEdits == {Op2(10, C(<<x>>, f), g) : x \in {0, 1, 2, 3, 6, 7, 14, 30}, f \in MCFew, g \in {Ax(1), Ax(3), Lit(<<5>>)}}
MCKicks == {Op2(9, <<x>>, f) : x \in {1, 2, 4, 5, 6, 7, 26}, f \in {Ax(1), Ax(3), Lit(C(Lit(<<3>>), <<4>>))}}
(* Each of these in a place where its subject has to stay. *)
MCKept ==
    {C(f, Ax(1)) : f \in MCEdits \union MCHinted \union MCKicks}
    \union {Op2(8, f, Ax(1)) : f \in MCBranch}
    \union {C(Op2(o, f, g), Ax(1)) : o \in {5, 8, 12}, f \in MCFew, g \in MCFew}
    \union {Op2(7, C(f, f), C(Ax(3), Ax(2))) : f \in MCHinted \union MCKicks}
    \union {C(<<6>>, C(Lit(<<1>>), C(Lit(<<9>>), Op2(7, Ax(1), f)))) : f \in MCHinted \union MCEdits}
(* Two cores through one call site, with different batteries and with the  *)
(* same one but another payload.                                           *)
MCSites ==
    {Op2(8, Lit(Op2(9, <<6>>, Ax(1))),
         C(Op2(2, Lit(C(<<0>>, C(Lit(<<2>>), <<8>>))), Ax(2)),
           Op2(2, Lit(C(<<0>>, C(Lit(<<3>>), <<8>>))), Ax(2))))}
    \union
    {Op2(8, Lit(Op2(9, <<x>>, Ax(1))),
         C(Op2(2, Lit(C(C(Lit(<<1>>), Ax(3)), <<8>>)), Ax(2)),
           Op2(2, Lit(C(C(Ax(7), b), C(<<1>>, <<6>>))), Ax(2)))) :
        x \in {4, 5}, b \in {Lit(<<2>>), Ax(3)}}
(* A memo found again, with the same subject and with another. *)
MCMemos ==
    {C(C(f, f), Op2(7, Ax(3), f)) :
        f \in {Op2(11, C(<<K!Memo>>, Lit(<<0>>)), g) : g \in {Ax(1), Ax(3), C(Ax(2), Ax(3)), C(<<4>>, Ax(2))}}}
(* So many of one kind that the tables of a program outgrow a byte. *)
RECURSIVE Wide(_, _)
Wide(n, f) == IF n = 1 THEN f ELSE C(f, Wide(n - 1, f))
MCTabled ==
    {Ax(30), Lit(<<30>>), Op2(5, Ax(2), Lit(<<30>>)), Op2(9, <<4>>, Ax(1)), Op2(10, C(<<30>>, Ax(2)), Ax(1)),
     Op2(11, <<K!Hela>>, Ax(2))}
    \union {Op2(11, C(<<z>>, C(Ax(1), Ax(1))), Ax(3)) : z \in {K!Nara, K!Mean1, K!Fast, K!Memo}}
MCWide ==
    {Wide(7, f) : f \in MCTabled} \union {Wide(7, Op2(7, Ax(1), f)) : f \in MCTabled}
    \union {C(<<6>>, C(Lit(<<l>>), C(Op2(9, <<4>>, Ax(1)), Wide(7, Op2(9, <<4>>, Ax(1)))))) : l \in {0, 1}}
    \union {C(<<6>>, C(Lit(<<l>>), C(Wide(14, Ax(4)), Wide(14, Ax(30))))) : l \in {0, 1}}
MCSubjects ==
    {<<0>>, C(<<1>>, C(<<2>>, <<3>>)),
     C(C(Ax(3), Lit(<<4>>)), C(C(<<0>>, <<1>>), C(C(<<6>>, <<7>>), C(<<8>>, <<9>>))))}
MCFormulas ==
    MCSimple \union MCTwo \union MCBranch \union MCHinted \union MCEdits \union MCKicks
    \union MCKept \union MCSites \union MCMemos \union MCWide
MCNockTasks == MCSubjects \X MCFormulas

=============================================================================
