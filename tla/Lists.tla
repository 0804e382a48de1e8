-------------------------------- MODULE Lists --------------------------------
(***************************************************************************)
(* The list and unit jets, pkg/noun/jets/b.  A list is a noun: <<0>>, or a *)
(* cell of its first item and the rest.  A noun that ends in another atom  *)
(* is no list, and a loop that gets there bails (u3x_cell()); a loop that  *)
(* stops before does not.  A gate is a function on the items, and a        *)
(* loobean is <<0>> for yes and <<1>> for no.                              *)
(***************************************************************************)
EXTENDS Integers, Sequences, FiniteSets, Noun

Null == <<0>>

Yes == <<0>>

No == <<1>>

Unit(x) == <<Null, x>>

(* One turn of "while ( u3_nul != t ) { u3x_cell(t, &i, &t); ... }": the   *)
(* items, and whether the loop ended in a bail.                            *)
RECURSIVE Loop(_, _)
Loop(t, seen) ==
    IF t = Null THEN [its |-> seen, ok |-> TRUE]
    ELSE IF IsAtom(t) THEN [its |-> seen, ok |-> FALSE]
    ELSE Loop(t[2], Append(seen, t[1]))

Items(a) == Loop(a, <<>>).its

IsList(a) == Loop(a, <<>>).ok

(* u3i_defcons(): the cells of the answer are filled from the front, and   *)
(* the last tail is written when the loop is over.                         *)
RECURSIVE Defcons(_, _)
Defcons(its, last) == IF its = <<>> THEN last ELSE <<its[1], Defcons(Tail(its), last)>>

Listed(its) == Defcons(its, Null)

IsLoobean(x) == x \in {Yes, No}

Sift(its, gate, keep) == SelectSeq(its, LAMBDA i : gate[i] = keep)

-----------------------------------------------------------------------------
(* Units *)

Bind(a, gate) == IF a = Null THEN Null ELSE IF IsAtom(a) THEN Bail ELSE Unit(gate[a[2]])

Clap(a, b, gate) ==
    IF a = Null THEN b ELSE IF b = Null THEN a
    ELSE IF IsAtom(a) \/ IsAtom(b) THEN Bail ELSE Unit(gate[<<a[2], b[2]>>])

Drop(a) == IF a = Null THEN Null ELSE IF IsAtom(a) THEN Bail ELSE <<Null, a[2]>>

Need(a) == IF IsAtom(a) THEN Bail ELSE a[2]

-----------------------------------------------------------------------------
(* Lists *)

(* find: a match that runs into the end of the haystack is given up, and   *)
(* the search goes on one item further.                                    *)
Match(n, h) ==
    /\ Len(n) <= Len(h)
    /\ \A i \in DOMAIN n : Sing(n[i], h[i])

Find(nedl, hstk) ==
    LET n    == Items(nedl)
        h    == Items(hstk)
        hits == {k \in 1 .. Len(h) : Match(n, SubSeq(h, k, Len(h)))}
        at   == CHOOSE k \in hits : \A j \in hits : k <= j
    IN IF nedl = Null \/ hstk = Null THEN Null
       ELSE IF ~IsList(nedl) \/ ~IsList(hstk) THEN Bail
       ELSE IF hits = {} THEN Null ELSE Unit(<<at - 1>>)

RECURSIVE FlopLoop(_, _)
FlopLoop(its, b) == IF its = <<>> THEN b ELSE FlopLoop(Tail(its), <<its[1], b>>)

Flop(a) == IF IsList(a) THEN FlopLoop(Items(a), Null) ELSE Bail

Lent(a) == IF IsList(a) THEN <<Len(Items(a))>> ELSE Bail

(* levy and lien stop at the first no, or yes. *)
RECURSIVE Levy(_, _)
Levy(a, gate) ==
    IF a = Null THEN Yes
    ELSE IF IsAtom(a) \/ ~IsLoobean(gate[a[1]]) THEN Bail
    ELSE IF gate[a[1]] = Yes THEN Levy(a[2], gate) ELSE No

RECURSIVE Lien(_, _)
Lien(a, gate) ==
    IF a = Null THEN No
    ELSE IF IsAtom(a) \/ ~IsLoobean(gate[a[1]]) THEN Bail
    ELSE IF gate[a[1]] = Yes THEN Yes ELSE Lien(a[2], gate)

(* murn: the gate answers with units. *)
Murn(a, gate) ==
    LET some == SelectSeq(Items(a), LAMBDA i : gate[i] # Null)
    IN IF ~IsList(a) THEN Bail ELSE Listed([i \in DOMAIN some |-> gate[some[i]][2]])

RECURSIVE Reap(_, _)
Reap(n, b) == IF n = 0 THEN Null ELSE <<b, Reap(n - 1, b)>>

(* reel: the items are pushed, and slammed in the order they are popped.   *)
RECURSIVE Unwind(_, _, _)
Unwind(pile, gate, pro) ==
    IF pile = <<>> THEN pro
    ELSE Unwind(SubSeq(pile, 1, Len(pile) - 1), gate, gate[<<pile[Len(pile)], pro>>])

Reel(a, gate, bunt) == IF ~IsList(a) THEN Bail ELSE Unwind(Items(a), gate, bunt)

RECURSIVE RollLoop(_, _, _)
RollLoop(its, gate, pro) ==
    IF its = <<>> THEN pro ELSE RollLoop(Tail(its), gate, gate[<<its[1], pro>>])

Roll(a, gate, bunt) == IF ~IsList(a) THEN Bail ELSE RollLoop(Items(a), gate, bunt)

(* scag reads no further than it copies. *)
RECURSIVE Scag(_, _)
Scag(n, b) ==
    IF b = Null \/ n = 0 THEN Null
    ELSE IF IsAtom(b) THEN Bail
    ELSE LET rest == Scag(n - 1, b[2]) IN IF rest = Bail THEN Bail ELSE <<b[1], rest>>

Split(a, gate) == <<Listed(Sift(Items(a), gate, Yes)), Listed(Sift(Items(a), gate, No))>>

Judged(a, gate) == IsList(a) /\ \A i \in DOMAIN Items(a) : IsLoobean(gate[Items(a)[i]])

Skid(a, gate) == IF Judged(a, gate) THEN Split(a, gate) ELSE Bail

Skim(a, gate) == IF Judged(a, gate) THEN Listed(Sift(Items(a), gate, Yes)) ELSE Bail

Skip(a, gate) == IF Judged(a, gate) THEN Listed(Sift(Items(a), gate, No)) ELSE Bail

(* slag: a noun that is no cell counts as the end. *)
RECURSIVE Slag(_, _)
Slag(n, b) ==
    IF b = Null THEN Null ELSE IF n = 0 THEN b
    ELSE IF IsAtom(b) THEN Null ELSE Slag(n - 1, b[2])

RECURSIVE Snag(_, _)
Snag(n, b) == IF IsAtom(b) THEN Bail ELSE IF n = 0 THEN b[1] ELSE Snag(n - 1, b[2])

Turn(a, gate) ==
    IF ~IsList(a) THEN Bail
    ELSE Listed([i \in DOMAIN Items(a) |-> gate[Items(a)[i]]])

Weld(a, b) == IF ~IsList(a) THEN Bail ELSE Defcons(Items(a), b)

(* zing: all lists but the last are copied; the last is shared as it is.   *)
RECURSIVE ZingLoop(_, _)
ZingLoop(lists, its) ==
    IF Len(lists) = 1 THEN Defcons(its, lists[1])
    ELSE IF ~IsList(lists[1]) THEN Bail
    ELSE ZingLoop(Tail(lists), its \o Items(lists[1]))

Zing(a) ==
    IF a = Null THEN Null ELSE IF ~IsList(a) THEN Bail ELSE ZingLoop(Items(a), <<>>)

(* sort: the items that go before the first (any answer but yes sends one  *)
(* behind it), the first, the others.                                      *)
SplitBy(its, gate, second) ==
    << SelectSeq(its, LAMBDA i : gate[<<i, second>>] = Yes),
       SelectSeq(its, LAMBDA i : gate[<<i, second>>] # Yes) >>

RECURSIVE SortIn(_, _)
SortIn(its, gate) ==
    IF its = <<>> THEN <<>>
    ELSE LET s == SplitBy(Tail(its), gate, its[1])
         IN SortIn(s[1], gate) \o <<its[1]>> \o SortIn(s[2], gate)

Sort(a, gate) == IF IsList(a) THEN Listed(SortIn(Items(a), gate)) ELSE Bail

=============================================================================
