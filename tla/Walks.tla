-------------------------------- MODULE Walks --------------------------------
(***************************************************************************)
(* Walks to the axes of a noun: the fragment at an axis (u3r_at()), the    *)
(* match of a noun against several axes at once (u3r_mean()), the edit of  *)
(* one axis (u3i_edit()) and of several (u3i_molt()).                      *)
(*                                                                         *)
(* An axis is a number; one below 2^(WordBits-1) is direct, a larger one   *)
(* is an indirect atom of words of WordBits bits (32 in the code).         *)
(***************************************************************************)
EXTENDS Integers, Sequences, Noun

CONSTANT WordBits

None == <<>>

DirectAxis(axe) == axe < 2 ^ (WordBits - 1)

(* u3x_dep(), u3x_cap(), u3x_mas(): the depth of an axis, its first turn,  *)
(* and the axis that is left after it.                                     *)
Dep(a) == CHOOSE d \in 0 .. a : 2 ^ d <= a /\ a < 2 ^ (d + 1)

CapOf(a) == 2 + ((a \div 2 ^ (Dep(a) - 1)) % 2)

MasOf(a) == (a % 2 ^ (Dep(a) - 1)) + 2 ^ (Dep(a) - 1)

(* _frag_word(), _frag_deep(): dep turns, from the highest bit down. *)
RECURSIVE FragBits(_, _, _)
FragBits(w, dep, b) ==
    IF dep = 0 THEN b
    ELSE IF ~IsCell(b) THEN None
    ELSE FragBits(w, dep - 1, b[1 + ((w \div 2 ^ (dep - 1)) % 2)])

FragWord(w, b) == FragBits(w, Dep(w), b)

FragDeep(w, b) == IF b = None THEN None ELSE FragBits(w, WordBits, b)

(* The words of an indirect axis, the least significant first. *)
RECURSIVE AxisWords(_)
AxisWords(a) ==
    IF a = 0 THEN <<>> ELSE <<a % 2 ^ WordBits>> \o AxisWords(a \div 2 ^ WordBits)

RECURSIVE FragWords(_, _)
FragWords(ws, b) ==
    IF ws = <<>> THEN b
    ELSE FragWords(SubSeq(ws, 1, Len(ws) - 1), FragDeep(ws[Len(ws)], b))

At(a, b) ==
    IF a = 0 THEN None
    ELSE IF DirectAxis(a) THEN FragWord(a, b)
    ELSE LET ws == AxisWords(a)
         IN FragWords(SubSeq(ws, 1, Len(ws) - 1), FragWord(ws[Len(ws)], b))

-----------------------------------------------------------------------------
(* Several axes: a sequence of pairs <<axis, value>> in tree order.  The   *)
(* cut is before the first axis that goes right, and every axis loses its  *)
(* first turn.                                                             *)
MeanCut(prs) ==
    LET right == {i \in DOMAIN prs : CapOf(prs[i][1]) = 3}
    IN IF right = {} THEN Len(prs)
       ELSE (CHOOSE i \in right : \A j \in right : i <= j) - 1

MasAll(prs) == [i \in DOMAIN prs |-> <<MasOf(prs[i][1]), prs[i][2]>>]

(* _mean_extract(): the pairs with their values, or c3n as {}. *)
RECURSIVE MeanExtract(_, _)
MeanExtract(som, prs) ==
    IF prs = <<>> THEN {<<>>}
    ELSE IF Len(prs) = 1 /\ prs[1][1] = 1 THEN {<<som>>}
    ELSE IF ~IsCell(som) THEN {}
    ELSE LET cut == MeanCut(prs)
             mas == MasAll(prs)
         IN {l \o r : l \in MeanExtract(som[1], SubSeq(mas, 1, cut)),
                      r \in MeanExtract(som[2], SubSeq(mas, cut + 1, Len(mas)))}

Mean(som, axes) == MeanExtract(som, [i \in DOMAIN axes |-> <<axes[i], None>>])

(* _molt_apply(): Bail where the noun has no such axis. *)
RECURSIVE MoltApply(_, _)
MoltApply(som, prs) ==
    IF prs = <<>> THEN som
    ELSE IF Len(prs) = 1 /\ prs[1][1] = 1 THEN prs[1][2]
    ELSE IF ~IsCell(som) THEN Bail
    ELSE LET cut == MeanCut(prs)
             mas == MasAll(prs)
             l   == MoltApply(som[1], SubSeq(mas, 1, cut))
             r   == MoltApply(som[2], SubSeq(mas, cut + 1, Len(mas)))
         IN IF Bail \in {l, r} THEN Bail ELSE <<l, r>>

Molt(som, prs) == MoltApply(som, prs)

-----------------------------------------------------------------------------
(* u3i_edit(): the axis is walked turn by turn, and a cell on the way is   *)
(* made anew; a bail below is a bail of the whole.                         *)
CellOf(h, t) == IF Bail \in {h, t} THEN Bail ELSE <<h, t>>

RECURSIVE EditCat(_, _, _)
EditCat(big, axe, som) ==
    IF ~IsCell(big) THEN Bail
    ELSE CASE axe = 2 -> <<som, big[2]>>
           [] axe = 3 -> <<big[1], som>>
           [] OTHER   -> IF CapOf(axe) = 2
                         THEN CellOf(EditCat(big[1], MasOf(axe), som), big[2])
                         ELSE CellOf(big[1], EditCat(big[2], MasOf(axe), som))

RECURSIVE EditBig(_, _, _)
EditBig(big, axe, som) ==
    IF DirectAxis(axe) THEN EditCat(big, axe, som)
    ELSE IF ~IsCell(big) THEN Bail
    ELSE IF CapOf(axe) = 2
    THEN CellOf(EditBig(big[1], MasOf(axe), som), big[2])
    ELSE CellOf(big[1], EditBig(big[2], MasOf(axe), som))

Edit(big, axe, som) ==
    CASE axe = 0 -> Bail
      [] axe = 1 -> som
      [] OTHER   -> EditBig(big, axe, som)

=============================================================================
