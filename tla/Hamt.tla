-------------------------------- MODULE Hamt --------------------------------
(***************************************************************************)
(* The hash table of pkg/noun/hashtable.c: a root of slots, nodes below it *)
(* by the further digits of a key's mug, and a bucket where all digits are *)
(* used up.  A bounded table is trimmed by a clock arm that cools a warm   *)
(* entry the first time and drops it the second.                           *)
(*                                                                         *)
(* A slot is empty, an entry <<"kev", key, value, warm>>, a node <<"node", *)
(* digit -> slot>> or a bucket <<"buck", entries>>.  The mug has Deep      *)
(* digits below the root's; lef counts those not yet used.                 *)
(***************************************************************************)
EXTENDS Integers, Sequences, FiniteSets, SequencesExt

CONSTANTS
    Keys, Vals,
    Mug,        \* the mug of each key
    RootSlots,  \* slots of the root (64 in the code)
    Base,       \* slots of a node (32 in the code)
    Deep,       \* levels of nodes (5 in the code)
    MaxSizes    \* sizes a table may be bounded to; 0 is none

ASSUME HamtAssumption ==
    /\ {RootSlots, Base, Deep} \subseteq Nat \ {0} /\ MaxSizes \subseteq Nat
    /\ Mug \in [Keys -> 0 .. RootSlots * Base^Deep - 1]
    /\ Vals \subseteq Nat \ {0}

VARIABLES tab, last, want

tabvars == <<tab, last, want>>

Null == <<>>
Kev(k, v, w) == <<"kev", k, v, w>>
IsKev(s) == s # Null /\ s[1] = "kev"

(* u3h_new_cache() *)
New(max) == [sot |-> [i \in 0 .. RootSlots - 1 |-> Null], use |-> 0, max |-> max,
             arm |-> [mug |-> 0, inx |-> 0], live |-> 0]

(* _ch_two(): nodes down to where the two mugs differ, or a bucket. *)
RECURSIVE Two(_, _, _, _, _)
Two(had, add, lef, ham, mad) ==
    IF lef = 0 THEN <<"buck", <<had, add>>>>
    ELSE LET w == Base^(lef - 1)
             hop == ham \div w
             tad == mad \div w
         IN IF hop = tad
            THEN <<"node", [d \in {hop} |-> Two(had, add, lef - 1, ham % w, mad % w)]>>
            ELSE <<"node", [d \in {hop, tad} |-> IF d = hop THEN had ELSE add]>>


(* _ch_buck_add(): an equal key is replaced, and left cold. *)
BuckAdd(s, k, v) ==
    LET same == {i \in DOMAIN s : s[i][2] = k}
    IN IF same # {} THEN [s |-> <<"buck", [i \in DOMAIN s |-> IF i \in same THEN Kev(k, v, FALSE) ELSE s[i]]>>,
                          add |-> 0]
       ELSE [s |-> <<"buck", <<Kev(k, v, TRUE)>> \o s>>, add |-> 1]

(* _ch_slot_put(), _ch_some_add(), _ch_node_add() *)
RECURSIVE SlotPut(_, _, _, _, _)
SlotPut(s, k, v, lef, rem) ==
    CASE s[1] = "kev" ->
           IF s[2] = k THEN [s |-> Kev(k, v, TRUE), add |-> 0]
           ELSE [s |-> Two(s, Kev(k, v, TRUE), lef, Mug[s[2]] % Base^lef, rem), add |-> 1]
      [] s[1] = "buck" -> BuckAdd(s[2], k, v)
      [] OTHER ->
           LET w == Base^(lef - 1)
               d == rem \div w
               f == s[2]
               x == SlotPut(f[d], k, v, lef - 1, rem % w)
           IN IF d \in DOMAIN f
              THEN [s |-> <<"node", [f EXCEPT ![d] = x.s]>>, add |-> x.add]
              ELSE [s |-> <<"node", [e \in DOMAIN f \cup {d} |-> IF e = d THEN Kev(k, v, TRUE) ELSE f[e]]>>,
                    add |-> 1]

(* _ch_skip_slot(): the arm goes to the next prefix of the mug. *)
Skip(mug, lef) == ((mug \div Base^lef + 1) % (RootSlots * Base^(Deep - lef))) * Base^lef

(* _ch_trim_kev() *)
TrimKev(s) == IF s[4] THEN [s |-> Kev(s[2], s[3], FALSE), did |-> FALSE] ELSE [s |-> Null, did |-> TRUE]

(* _ch_trim_buck(): from the arm's index on; a bucket of one is an entry.  *)
RECURSIVE TrimBuck(_, _)
TrimBuck(arm, b) ==
    IF arm.inx >= Len(b)
    THEN [arm |-> [mug |-> (arm.mug + 1) % (RootSlots * Base^Deep), inx |-> 0],
          s |-> <<"buck", b>>, did |-> FALSE]
    ELSE LET i == arm.inx + 1
             x == TrimKev(b[i])
         IN IF ~x.did THEN TrimBuck([arm EXCEPT !.inx = @ + 1], [b EXCEPT ![i] = x.s])
            ELSE IF Len(b) = 2
            THEN [arm |-> [arm EXCEPT !.inx = 0], s |-> b[IF i = 1 THEN 2 ELSE 1], did |-> TRUE]
            ELSE [arm |-> [arm EXCEPT !.inx = @ + 1], s |-> <<"buck", RemoveAt(b, i)>>, did |-> TRUE]

(* _ch_trim_slot(), _ch_trim_some(), _ch_trim_node(): a node left with one *)
(* entry beside the dropped one is replaced by it; else it shrinks, to     *)
(* nothing if need be.                                                     *)
RECURSIVE TrimSlot(_, _, _, _)
TrimSlot(arm, s, lef, rem) ==
    CASE s[1] = "kev" ->
           LET x == TrimKev(s)
           IN [arm |-> [arm EXCEPT !.mug = Skip(@, lef)], s |-> x.s, did |-> x.did]
      [] s[1] = "buck" -> TrimBuck(arm, s[2])
      [] OTHER ->
           LET w == Base^(lef - 1)
               d == rem \div w
               f == s[2]
               x == TrimSlot(arm, f[d], lef - 1, rem % w)
               rest == DOMAIN f \ {d}
           IN IF d \notin DOMAIN f
              THEN [arm |-> [arm EXCEPT !.mug = Skip(@, lef - 1)], s |-> s, did |-> FALSE]
              ELSE IF x.s # Null THEN [x EXCEPT !.s = <<"node", [f EXCEPT ![d] = x.s]>>]
              ELSE IF Cardinality(rest) = 1 /\ \A e \in rest : IsKev(f[e])
              THEN [x EXCEPT !.s = f[CHOOSE e \in rest : TRUE]]
              ELSE [x EXCEPT !.s = <<"node", [e \in rest |-> f[e]]>>]

(* _ch_trim_root() *)
TrimRoot(h) ==
    LET i == h.arm.mug \div Base^Deep
        x == TrimSlot(h.arm, h.sot[i], Deep, h.arm.mug % Base^Deep)
    IN IF h.sot[i] = Null THEN [h EXCEPT !.arm.mug = Skip(@, Deep)]
       ELSE [h EXCEPT !.arm = x.arm, !.sot[i] = x.s,
                      !.use = @ - (IF x.did THEN 1 ELSE 0), !.live = @ - (IF x.did THEN 1 ELSE 0)]

(* u3h_trim_to() *)
RECURSIVE TrimTo(_, _)
TrimTo(h, n) == IF h.use <= n THEN h ELSE TrimTo(TrimRoot(h), n)

(* u3h_put(): the pair is made, what it replaces is lost, and a bounded    *)
(* table is trimmed.                                                       *)
PutKev(h, k, v) ==
    LET i == Mug[k] \div Base^Deep
        x == IF h.sot[i] = Null THEN [s |-> Kev(k, v, TRUE), add |-> 1]
             ELSE SlotPut(h.sot[i], k, v, Deep, Mug[k] % Base^Deep)
        g == [h EXCEPT !.sot[i] = x.s, !.use = @ + x.add, !.live = @ + x.add]
    IN IF h.max > 0 THEN TrimTo(g, h.max) ELSE g

(* u3h_git(): the value, 0 if there is none. *)
RECURSIVE SlotGit(_, _, _, _)
SlotGit(s, k, lef, rem) ==
    CASE s = Null -> 0
      [] IsKev(s) -> IF s[2] = k THEN s[3] ELSE 0
      [] s # Null /\ s[1] = "buck" ->
           LET same == SelectSeq(s[2], LAMBDA x: x[2] = k)
           IN IF same = <<>> THEN 0 ELSE same[1][3]
      [] OTHER ->
           LET w == Base^(lef - 1)
               d == rem \div w
           IN IF d \in DOMAIN s[2] THEN SlotGit(s[2][d], k, lef - 1, rem % w) ELSE 0

Git(h, k) == SlotGit(h.sot[Mug[k] \div Base^Deep], k, Deep, Mug[k] % Base^Deep)

(* An entry found in the root itself is made warm again. *)
Warmed(h, k) ==
    LET i == Mug[k] \div Base^Deep
        s == h.sot[i]
    IN IF IsKev(s) /\ s[2] = k THEN [h EXCEPT !.sot[i] = Kev(k, s[3], TRUE)] ELSE h

(* u3h_hum() *)
RECURSIVE SlotHum(_, _, _, _)
SlotHum(s, mug, lef, rem) ==
    CASE s = Null -> FALSE
      [] IsKev(s) -> Mug[s[2]] = mug
      [] s # Null /\ s[1] = "buck" -> \E i \in DOMAIN s[2] : Mug[s[2][i][2]] = mug
      [] OTHER ->
           LET w == Base^(lef - 1)
               d == rem \div w
           IN d \in DOMAIN s[2] /\ SlotHum(s[2][d], mug, lef - 1, rem % w)

Hum(h, mug) == SlotHum(h.sot[mug \div Base^Deep], mug, Deep, mug % Base^Deep)

(* u3h_walk_with(): the entries, in the order of the slots. *)
RECURSIVE SlotWalk(_)
SlotWalk(s) ==
    CASE s = Null -> <<>>
      [] IsKev(s) -> <<s>>
      [] s # Null /\ s[1] = "buck" -> s[2]
      [] OTHER -> FlattenSeq([d \in 1 .. Base |->
                                IF d - 1 \in DOMAIN s[2] THEN SlotWalk(s[2][d - 1]) ELSE <<>>])

Walk(h) == FlattenSeq([i \in 1 .. RootSlots |-> SlotWalk(h.sot[i - 1])])

(* u3h_take_with(): the same shape, every entry copied and cold; an empty  *)
(* slot of the root is taken for a node at word 0, whose map is empty.     *)
RECURSIVE SlotTake(_)
SlotTake(s) ==
    CASE s = Null -> <<"node", <<>>>>
      [] IsKev(s) -> Kev(s[2], s[3], FALSE)
      [] s # Null /\ s[1] = "buck" -> <<"buck", [i \in DOMAIN s[2] |-> SlotTake(s[2][i])]>>
      [] OTHER -> <<"node", [d \in DOMAIN s[2] |-> SlotTake(s[2][d])]>>

TakeTab(h) == [h EXCEPT !.sot = [i \in DOMAIN @ |-> SlotTake(@[i])]]

(* u3h_uni(): every entry of another table is put into this one. *)
RECURSIVE PutAll(_, _)
PutAll(h, s) == IF s = <<>> THEN h ELSE PutAll(PutKev(h, s[1][2], s[1][3]), Tail(s))

(* u3h_free(): every entry is lost. *)
FreeTab(h) == [h EXCEPT !.live = @ - Len(Walk(h)), !.use = 0]

-----------------------------------------------------------------------------
Has(h, k) == LET walk == Walk(h) IN \E i \in DOMAIN walk : walk[i][2] = k
Kept(l, h) == [k \in Keys |-> IF Has(h, k) THEN l[k] ELSE 0]
Bounded(n, max) == IF max > 0 /\ n > max THEN max ELSE n

Insert ==
    \E k \in Keys, v \in Vals :
        /\ tab' = PutKev(tab, k, v)
        /\ last' = Kept([last EXCEPT ![k] = v], tab')
        /\ want' = Bounded(IF Has(tab, k) THEN want ELSE want + 1, tab.max)

Lookup ==
    \E k \in Keys : tab' = Warmed(tab, k) /\ UNCHANGED <<last, want>>

Trim ==
    \E n \in 0 .. Cardinality(Keys) :
        /\ tab' = TrimTo(tab, n) /\ want' = (IF want > n THEN n ELSE want)
        /\ last' = Kept(last, tab')

Copy == tab' = TakeTab(tab) /\ UNCHANGED <<last, want>>

Unify ==
    \E k, j \in Keys, v \in Vals :
        /\ tab.max = 0 /\ k # j
        /\ LET rah == PutKev(PutKev(New(0), k, v), j, v)
           IN tab' = PutAll(tab, Walk(rah))
        /\ last' = [last EXCEPT ![k] = v, ![j] = v]
        /\ want' = want + Cardinality({x \in {k, j} : ~Has(tab, x)})

Clear ==
    /\ FreeTab(tab).live = 0
    /\ tab' = New(tab.max) /\ last' = [k \in Keys |-> 0] /\ want' = 0

HamtInit ==
    /\ \E m \in MaxSizes : tab = New(m)
    /\ last = [k \in Keys |-> 0] /\ want = 0

HamtNext == Insert \/ Lookup \/ Trim \/ Copy \/ Unify \/ Clear

HamtSpec == HamtInit /\ [][HamtNext]_tabvars


=============================================================================
