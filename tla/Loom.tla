-------------------------------- MODULE Loom --------------------------------
(***************************************************************************)
(* The loom (pkg/noun/allocate.c, the roads of manage.c and the edits of   *)
(* imprison.c): words laid out in boxes, a heap of boxes per road growing  *)
(* from rut to hat, free lists by size, a list of spare cells on the inner *)
(* roads, and reference counts that decide when a box is free.             *)
(*                                                                         *)
(* A reference is the address of a noun's box, or a negative number for a  *)
(* direct atom; 0 is the failure of an allocation.  A road also records    *)
(* the references the C code holds there (held), those of its memo cache   *)
(* (memo), its emergency buffer (mer) and its raw buffers (raw).  With     *)
(* each held reference goes the noun it stood for when it was made, which  *)
(* no operation of the code reads.  The stack pile is left out.            *)
(***************************************************************************)
EXTENDS Integers, Sequences, FiniteSets, FiniteSetsExt, SequencesExt

CONSTANTS
    FboxNo,     \* free lists per road (27 in the code)
    RoadSize,   \* words of a road's own structure
    CellBlock,  \* spare cells made at once (4096 in the code)
    Page,       \* words a cell block leaves untouched
    MerLen,     \* words of the emergency buffer
    Flux,       \* cells given back by a reflux (1024 in the code)
    MaxUse,     \* bound on the counts with which nouns are still unified
    Scenes      \* the limits of a run: the words of the loom, and those a leap leaves
                \* to the parent; the slabs made, as
                \* words asked for and words needed; the raw buffers made; the axes
                \* edited, as paths of 2 and 3; how many references each road may
                \* hold, and how many memos and buffers

ASSUME LoomAssumption ==
    /\ {FboxNo, CellBlock, MerLen, Flux, MaxUse} \subseteq Nat \ {0} /\ FboxNo >= 2
    /\ {RoadSize, Page} \subseteq Nat
    /\ \A s \in Scenes :
         /\ \A x \in s.slabs : x \in Nat \X Nat /\ x[2] <= x[1]
         /\ s.bufs \subseteq Nat \ {0} /\ s.words \in Nat \ {0}
         /\ s.held \in Seq(Nat) /\ {s.memo, s.raw, s.pad} \subseteq Nat

VARIABLES loom, state, lim

lvars == <<loom, state, lim>>

Cat == -1
Minimum == 6            \* u3a_minimum: two words of box, three of cell, one of trailer
Boxed(len) == len + 3   \* u3a_boxed()

NoRoad ==
    [rut |-> 1, mat |-> 1, hat |-> 1, cap |-> 1, ear |-> 0,
     fre |-> [s \in 0 .. FboxNo - 1 |-> <<>>], cel |-> <<>>,
     held |-> <<>>, memo |-> <<>>, mer |-> Cat, raw |-> <<>>]

(* u3R, u3a_is_north(), u3a_open(). *)
Me(h) == h.roads[Len(h.roads)]
SetMe(h, r) == [h EXCEPT !.roads[Len(h.roads)] = r]
North(r) == r.cap > r.hat
Open(r) == IF North(r) THEN r.cap - r.hat ELSE r.hat - r.cap
Heap(r) == IF North(r) THEN r.rut .. r.hat - 1 ELSE r.hat .. r.rut - 1
AtHome(h) == Len(h.roads) = 1

Senior(r, som) ==
    \/ som < 0
    \/ IF North(r) THEN som < r.rut \/ som >= r.mat ELSE som < r.mat \/ som >= r.rut

Junior(r, som) ==
    /\ som >= 0
    /\ IF North(r) THEN som >= r.cap /\ som < r.mat ELSE som < r.cap /\ som >= r.mat

Normal(r, som) == ~Senior(r, som) /\ ~Junior(r, som)

(* A failed assertion, or a %foul bail: the loom is corrupt. *)
Foul(h, why) == [h EXCEPT !.bad = why]

Drop(f, x) == [y \in DOMAIN f \ {x} |-> f[y]]
Put(f, x, v) == [y \in DOMAIN f \cup {x} |-> IF y = x THEN v ELSE f[y]]

-----------------------------------------------------------------------------
(* Boxes and free lists. *)

(* _box_slot() *)
RECURSIVE SlotFrom(_, _)
SlotFrom(siz, i) ==
    IF i = FboxNo THEN i - 1
    ELSE IF siz < 16 THEN i ELSE SlotFrom((siz + 1) \div 2, i + 1)

BoxSlot(siz) == IF siz < Minimum THEN 0 ELSE SlotFrom(siz, 1)

(* _box_make() *)
BoxMake(h, b, siz, use) ==
    IF siz < Minimum THEN Foul(h, "size")
    ELSE [h EXCEPT !.box = Put(@, b, [siz |-> siz, use |-> use])]

(* _box_attach(): at the head of the list of its size. *)
BoxAttach(h, b) ==
    LET s == BoxSlot(h.box[b].siz)
    IN SetMe(h, [Me(h) EXCEPT !.fre[s] = <<b>> \o @])

(* _box_detach(): the box must be in the list its size selects. *)
BoxDetach(h, b) ==
    LET s == BoxSlot(h.box[b].siz)
    IN IF ~Contains(Me(h).fre[s], b) THEN Foul(h, "loom: corrupt")
       ELSE SetMe(h, [Me(h) EXCEPT !.fre[s] = SelectSeq(@, LAMBDA x: x # b)])

(* The box that ends where b begins, found by the word before b. *)
Below(h, b) == CHOOSE a \in DOMAIN h.box : a + h.box[a].siz = b

(* Merge b into the free box a just below it. *)
Merge(h, a, b) ==
    LET siz == h.box[a].siz + h.box[b].siz
    IN BoxMake([h EXCEPT !.box = Drop(@, b)], a, siz, 0)

(* _box_free(): the count falls; at zero the box joins its free neighbours *)
(* and goes to the wilderness if it touches the hat, else to a free list.  *)
CoalesceBelow(h, b) ==
    LET a == Below(h, b)
    IN IF h.box[a].use = 0 THEN <<Merge(BoxDetach(h, a), a, b), a>> ELSE <<h, b>>

(* Variant: the box above is merged but stays in its free list. *)
CoalesceListed(h, b) ==
    LET n == b + h.box[b].siz IN IF h.box[n].use = 0 THEN Merge(h, b, n) ELSE h

CoalesceAbove(h, b) ==
    LET n == b + h.box[b].siz
    IN IF h.box[n].use = 0 THEN Merge(BoxDetach(h, n), b, n) ELSE h

GiveNorth(g, d) ==
    IF d + g.box[d].siz = Me(g).hat
    THEN SetMe([g EXCEPT !.box = Drop(@, d)], [Me(g) EXCEPT !.hat = d])
    ELSE BoxAttach(CoalesceAbove(g, d), d)

FreeNorth(h, b) ==
    LET At(c) == GiveNorth(c[1], c[2])
    IN IF b = Me(h).rut THEN GiveNorth(h, b) ELSE At(CoalesceBelow(h, b))

GiveSouth(g, b) ==
    LET Attach(c) == BoxAttach(c[1], c[2])
    IN IF b = Me(g).hat
       THEN SetMe([g EXCEPT !.box = Drop(@, b)], [Me(g) EXCEPT !.hat = b + g.box[b].siz])
       ELSE Attach(CoalesceBelow(g, b))

FreeSouth(h, b) ==
    GiveSouth(IF b + h.box[b].siz = Me(h).rut THEN h ELSE CoalesceAbove(h, b), b)

BoxFree(h, b) ==
    IF b \notin DOMAIN h.box \/ h.box[b].use = 0 THEN Foul(h, "freed twice")
    ELSE LET g == [h EXCEPT !.box[b].use = @ - 1]
             e == [g EXCEPT !.obj = Drop(@, b)]
         IN IF g.box[b].use # 0 THEN g
            ELSE IF North(Me(h)) THEN FreeNorth(e, b) ELSE FreeSouth(e, b)

-----------------------------------------------------------------------------
(* Allocation.  A result is the loom and the box, 0 if memory is out.      *)

(* _me_align_pad(), _me_align_dap() *)
AlignPad(pos, ald, alp) == ((pos + ald - (alp + 1)) \div ald) * ald + alp - pos
AlignDap(pos, ald, alp) == pos - (((pos - alp) \div ald) * ald + alp)

(* _ca_box_make_hat() *)
MakeHat(h, len, ald, alp) ==
    LET r == Me(h)
        low == r.hat - len
        pad == IF North(r) THEN AlignPad(r.hat, ald, alp) ELSE AlignDap(low, ald, alp)
        at == IF North(r) THEN r.hat ELSE low - pad
        hat == IF North(r) THEN r.hat + len + pad ELSE at
    IN IF len + pad >= Open(r) THEN [h |-> h, p |-> 0]
       ELSE [h |-> BoxMake(SetMe(h, [r EXCEPT !.hat = hat]), at, len + pad, 1), p |-> at]

(* u3a_reflux(): spare cells are freed into regular memory. *)
RECURSIVE Reflux(_, _)
Reflux(h, n) ==
    LET r == Me(h)
    IN IF r.cel = <<>> \/ n = 0 THEN h
       ELSE Reflux(BoxFree(SetMe(h, [r EXCEPT !.cel = Tail(@)]), Head(r.cel)), n - 1)

(* u3a_celloc() and u3a_cfree() on a road with spare cells; home has none. *)
Cfree(h, b) ==
    IF AtHome(h) THEN BoxFree(h, b)
    ELSE SetMe([h EXCEPT !.obj = Drop(@, b)], [Me(h) EXCEPT !.cel = <<b>> \o @])

(* _me_lose_north(), _me_lose_south(): the last reference frees the box,   *)
(* its head first and its tail after it.                                   *)
RECURSIVE Lose(_, _)
Lose(h, dog) ==
    IF ~Normal(Me(h), dog) \/ h.bad # "" THEN h
    ELSE IF dog \notin DOMAIN h.obj \/ h.box[dog].use = 0 THEN Foul(h, "foul")
    ELSE IF h.box[dog].use > 1 THEN [h EXCEPT !.box[dog].use = @ - 1]
    ELSE IF Len(h.obj[dog]) = 2
         THEN Lose(Cfree(Lose(h, h.obj[dog][1]), dog), h.obj[dog][2])
         ELSE BoxFree(h, dog)

(* _ca_reclaim_half(): the memo cache is trimmed to half its entries. *)
RECURSIVE TrimMemo(_, _)
TrimMemo(h, n) ==
    LET r == Me(h)
    IN IF Len(r.memo) <= n THEN h
       ELSE TrimMemo(Lose(SetMe(h, [r EXCEPT !.memo = Tail(@)]), Head(r.memo).ref), n)

(* _ca_willoc(): the first free box that fits, from the list above the one *)
(* the size selects; then the hat; then spare cells, then the memo cache,  *)
(* are given back and the search is made again.                            *)
Candidates(h, siz) ==
    LET s == BoxSlot(siz)
        sel == IF s # 0 /\ s # FboxNo - 1 THEN s + 1 ELSE s
    IN FlattenSeq([i \in 1 .. FboxNo - sel |-> Me(h).fre[sel + i - 1]])

Carve(h, b, siz) ==
    LET g == BoxDetach(h, b)
        all == h.box[b].siz
    IN IF siz + Minimum <= all
       THEN BoxMake(BoxAttach(BoxMake(g, b + siz, all - siz, 0), b + siz), b, siz, 1)
       ELSE [g EXCEPT !.box[b].use = 1]

FirstFit(h, list, siz, ald, alp) ==
    {i \in DOMAIN list : /\ siz + AlignPad(list[i], ald, alp) <= h.box[list[i]].siz
                         /\ \A j \in 1 .. i - 1 :
                              siz + AlignPad(list[j], ald, alp) > h.box[list[j]].siz}

RECURSIVE Willoc(_, _, _, _)

(* What is tried with no free box that fits. *)
Extend(h, hat, len, ald, alp) ==
    IF hat.p # 0 THEN hat
    ELSE IF Me(h).cel # <<>> THEN Willoc(Reflux(h, Flux), len, ald, alp)
    ELSE IF Me(h).memo = <<>> THEN [h |-> h, p |-> 0]
    ELSE Willoc(TrimMemo(h, Len(Me(h).memo) \div 2), len, ald, alp)

Find(h, fit, siz, len, ald, alp) ==
    IF fit = {} THEN Extend(h, MakeHat(h, siz, ald, alp), len, ald, alp)
    ELSE LET b == CHOOSE x \in fit : TRUE
         IN [h |-> Carve(h, b, siz + AlignPad(b, ald, alp)), p |-> b]

Search(h, list, siz, len, ald, alp) ==
    Find(h, {list[i] : i \in FirstFit(h, list, siz, ald, alp)}, siz, len, ald, alp)

BoxSize(len) == IF Boxed(len) > Minimum THEN Boxed(len) ELSE Minimum

(* The retry starts from the alignment that was adjusted already. *)
Willoc(h, len, ald, alp) ==
    IF h.bad # "" THEN [h |-> h, p |-> 0]
    ELSE Search(h, Candidates(h, BoxSize(len)), BoxSize(len), len, ald, (alp + 2) % ald)

Walloc(h, len) == Willoc(h, len, 1, 0)

(* u3a_wtrim(): the tail of a box becomes a box of its own, and stays      *)
(* apart from a free box or the wilderness after it.                       *)
Wtrim(h, b, old, len) ==
    IF old - len < Minimum THEN h
    ELSE LET asz == 2 + len + 1
             g == BoxMake(h, b + asz, h.box[b].siz - asz, 0)
         IN [BoxAttach(g, b + asz) EXCEPT !.box[b].siz = asz]

(* u3a_cellblock(): a run of boxes, each in use, linked as spare cells. *)
MakeCells(h) ==
    LET r == Me(h)
        span == CellBlock * Minimum
        at == [i \in 1 .. CellBlock |->
                 IF North(r) THEN r.hat + (i - 1) * Minimum ELSE r.hat - i * Minimum]
        new == {at[i] : i \in 1 .. CellBlock}
        box == [b \in DOMAIN h.box \cup new |->
                  IF b \in new THEN [siz |-> Minimum, use |-> 1] ELSE h.box[b]]
    IN SetMe([h EXCEPT !.box = box],
             [r EXCEPT !.hat = IF North(r) THEN @ + span ELSE @ - span,
                       !.cel = Reverse(at) \o @])

CellRoom(h) ==
    LET r == Me(h)
        need == CellBlock * Minimum + Page
    IN IF North(r) THEN r.cap > r.hat + need ELSE r.cap + need < r.hat

(* u3a_celloc() *)
Celloc(h) ==
    LET Take1(g) == LET r == Me(g)
                    IN [h |-> SetMe([g EXCEPT !.box[Head(r.cel)].use = 1],
                                    [r EXCEPT !.cel = Tail(@)]),
                        p |-> Head(r.cel)]
    IN IF Me(h).cel # <<>> THEN Take1(h)
       ELSE IF AtHome(h) \/ ~CellRoom(h) THEN Walloc(h, 3)
       ELSE Take1(MakeCells(h))

(* u3a_malloc(): words aligned to four, behind a word that holds the pad.  *)
(* The buffer runs over if it ends past the box's last word of data.       *)
Buffer(a, len) ==
    LET ptr == a.p + 2
        last == ptr + AlignPad(ptr, 4, 3) + len
    IN IF a.p = 0 THEN a
       ELSE [a EXCEPT !.h.over = @ \/ last >= a.p + a.h.box[a.p].siz - 1]

Malloc(h, len) == Buffer(Willoc(h, len + 1, 4, 3), len)

-----------------------------------------------------------------------------
(* Nouns. *)

(* _me_gain_use(), _me_gain_north(), _me_gain_south() *)
GainUse(h, dog) ==
    IF dog \notin DOMAIN h.obj \/ h.box[dog].use = 0 THEN Foul(h, "foul")
    ELSE [h EXCEPT !.box[dog].use = @ + 1]

Gain(h, som) ==
    IF Senior(Me(h), som) THEN h
    ELSE IF Junior(Me(h), som) THEN Foul(h, "junior") ELSE GainUse(h, som)

Filled(a, noun) == IF a.p = 0 THEN a ELSE [a EXCEPT !.h.obj = Put(@, a.p, noun)]

(* u3i_cell(): the references move into the new cell. *)
Cell(h, hed, tel) == Filled(Celloc(h), <<hed, tel>>)

IsPom(h, som) == som > 0 /\ som \in DOMAIN h.obj /\ Len(h.obj[som]) = 2

(* _ci_atom_mint() of a slab of len words that turned out to need only fin:*)
(* none at all gives a direct atom and the slab is freed.                  *)
Minted(a, len, fin) ==
    IF a.p = 0 THEN a
    ELSE IF fin = 0 THEN [h |-> BoxFree(a.h, a.p), p |-> Cat]
    ELSE Filled([a EXCEPT !.h = Wtrim(@, a.p, len + 2, fin + 2)], <<fin>>)

Mint(h, len, fin) == Minted(Walloc(h, len + 2), len, fin)

(* _ca_take_next_north(), _ca_take_north() and their mirrors: senior nouns *)
(* stay, normal ones are gained, junior ones are copied once, the old one  *)
(* keeping the new reference in its mug slot.                              *)
RECURSIVE Take(_, _)

Copied(a, veb, noun) ==
    IF a.p = 0 THEN a ELSE [Filled(a, noun) EXCEPT !.h.fwd = Put(@, veb, a.p)]

TakeCell(hed, y, veb) ==
    IF y.p = 0 THEN y ELSE Copied(Walloc(y.h, 3), veb, <<hed, y.p>>)

TakeTail(x, veb) ==
    IF x.p = 0 THEN x ELSE TakeCell(x.p, Take(x.h, x.h.obj[veb][2]), veb)

Take(h, veb) ==
    LET r == Me(h)
    IN IF Senior(r, veb) THEN [h |-> h, p |-> veb]
       ELSE IF ~Junior(r, veb) THEN [h |-> GainUse(h, veb), p |-> veb]
       ELSE IF veb \in DOMAIN h.fwd
       THEN IF ~Normal(r, h.fwd[veb]) THEN [h |-> Foul(h, "taken"), p |-> 0]
            ELSE [h |-> GainUse(h, h.fwd[veb]), p |-> h.fwd[veb]]
       ELSE IF Len(h.obj[veb]) = 1 THEN Copied(Walloc(h, h.obj[veb][1] + 2), veb, h.obj[veb])
       ELSE TakeTail(Take(h, h.obj[veb][1]), veb)

(* Variant: the count is not looked at. *)
MutableShared(h, som) == IsPom(h, som) /\ Normal(Me(h), som)

(* u3a_is_mutable() *)
Mutable(h, som) == IsPom(h, som) /\ Normal(Me(h), som) /\ h.box[som].use = 1

(* _edit_cat(): cells along the path are made anew. *)
RECURSIVE EditCat(_, _, _, _)

Edited(a, big) == IF a.p = 0 THEN a ELSE [a EXCEPT !.h = Lose(@, big)]

EditCell(x, big, left, keep) ==
    IF x.p = 0 THEN x
    ELSE Edited(Cell(Gain(x.h, keep), IF left THEN x.p ELSE keep, IF left THEN keep ELSE x.p), big)

EditCat(h, big, path, som) ==
    LET left == path[1] = 2
        keep == h.obj[big][IF left THEN 2 ELSE 1]
        goes == h.obj[big][IF left THEN 1 ELSE 2]
    IN IF ~IsPom(h, big) THEN [h |-> h, p |-> 0]
       ELSE EditCell(IF Len(path) = 1 THEN [h |-> h, p |-> som]
                     ELSE EditCat(Gain(h, goes), goes, Tail(path), som), big, left, keep)

(* _edit_or_mutate_cat(), _mutate_cat(): a cell nobody else can see is     *)
(* changed where it lies.                                                  *)
RECURSIVE Edit(_, _, _, _)

Mutated(x, big, side) ==
    IF x.p = 0 THEN x ELSE [h |-> [x.h EXCEPT !.obj[big][side] = x.p], p |-> big]

Edit(h, big, path, som) ==
    LET old == h.obj[big][path[1] - 1]
    IN IF ~Mutable(h, big) THEN EditCat(h, big, path, som)
       ELSE Mutated(IF Len(path) = 1 THEN [h |-> Lose(h, old), p |-> som]
                    ELSE Edit(h, old, Tail(path), som), big, path[1] - 1)

(* _ca_wed_who(), u3a_wed(): side s of the cells a and b hold equal nouns; *)
(* both are made the one on the senior road, or the deeper in the heap.    *)
(* On a road that is not ours what is given up keeps its count.            *)
WedOn(h, i, a, b, s) ==
    LET rod == h.roads[i]
        x == h.obj[a][s]
        y == h.obj[b][s]
        asr == Senior(rod, x)
        bsr == Senior(rod, y)
        keepA == IF ~asr /\ ~bsr THEN (x > y) = North(rod) ELSE asr
        keep == IF keepA THEN x ELSE y
        lost == IF keepA THEN y ELSE x
        slot == IF keepA THEN b ELSE a
        g == IF ~asr /\ ~bsr THEN GainUse(h, keep) ELSE h
        z == IF i = Len(h.roads) THEN Lose(g, lost) ELSE g
    IN [z EXCEPT !.obj[slot][s] = keep]

RECURSIVE WedFrom(_, _, _, _, _)
WedFrom(h, i, a, b, s) ==
    IF i = 1 THEN h
    ELSE IF Senior(h.roads[i], h.obj[a][s]) /\ Senior(h.roads[i], h.obj[b][s])
         THEN WedFrom(h, i - 1, a, b, s)
         ELSE WedOn(h, i, a, b, s)

Wed(h, a, b, s) ==
    IF h.obj[a][s] = h.obj[b][s] THEN h ELSE WedFrom(h, Len(h.roads), a, b, s)

(* _cr_sing(): equal heads are unified before the tails are compared. *)
RECURSIVE SingWed(_, _, _)

SingEnd(y, a, b) == IF y.eq THEN [h |-> Wed(y.h, a, b, 2), eq |-> TRUE] ELSE y

SingTails(h, a, b) == SingEnd(SingWed(h, h.obj[a][2], h.obj[b][2]), a, b)

SingHeads(x, a, b) == IF x.eq THEN SingTails(Wed(x.h, a, b, 1), a, b) ELSE x

SingWed(h, a, b) ==
    IF a = b THEN [h |-> h, eq |-> TRUE]
    ELSE IF IsPom(h, a) /\ IsPom(h, b)
    THEN SingHeads(SingWed(h, h.obj[a][1], h.obj[b][1]), a, b)
    ELSE [h |-> h, eq |-> a > 0 /\ b > 0 /\ ~IsPom(h, a) /\ ~IsPom(h, b) /\ h.obj[a] = h.obj[b]]

-----------------------------------------------------------------------------
(* Roads, collection and compaction. *)

(* u3m_leap(): a road of the other direction on what is free of this one,  *)
(* but for the pad.                                                        *)
LeapRoom(h) == lim.pad + RoadSize < Open(Me(h))

LeapRoad(h) ==
    LET r == Me(h)
        len == Open(r) - (lim.pad + RoadSize)
        cap == IF North(r) THEN r.cap - len ELSE r.cap + len
        kid == IF North(r)
               THEN [NoRoad EXCEPT !.rut = r.cap, !.hat = r.cap, !.mat = cap,
                                   !.cap = cap + RoadSize]
               ELSE [NoRoad EXCEPT !.rut = r.cap, !.hat = r.cap, !.mat = cap - RoadSize,
                                   !.cap = cap - RoadSize]
    IN [SetMe(h, [r EXCEPT !.cap = cap]) EXCEPT !.roads = Append(@, kid)]

(* u3m_hate(): the leap, and the emergency buffer of the new road. *)
HateRoad(h) ==
    LET Guarded(a) == [a EXCEPT !.h = SetMe(@, [Me(@) EXCEPT !.mer = a.p])]
    IN Guarded(Mint(LeapRoad(SetMe(h, [Me(h) EXCEPT !.ear = @ + Me(h).cap])), MerLen, MerLen))

(* u3m_fall(): the heap of the inner road becomes stack of its parent. *)
FallRoad(h) ==
    LET n == Len(h.roads)
    IN [h EXCEPT !.roads = [Front(@) EXCEPT ![n - 1].cap = h.roads[n].hat]]

(* The end of u3m_love(): the stack is popped and what lay on it is gone.  *)
PopStack(h) ==
    LET g == SetMe(h, [Me(h) EXCEPT !.cap = Me(h).ear, !.ear = 0])
        live == UNION {Heap(g.roads[i]) : i \in DOMAIN g.roads}
    IN [g EXCEPT !.box = [b \in DOMAIN @ \cap live |-> @[b]],
                 !.obj = [b \in DOMAIN @ \cap live |-> @[b]],
                 !.fwd = <<>>]

RootsOf(r) ==
    [i \in DOMAIN r.held |-> r.held[i].ref] \o [i \in DOMAIN r.memo |-> r.memo[i].ref] \o <<r.mer>>

(* u3a_mark_noun(): how often each box is met; a cell's sides are followed *)
(* the first time.                                                         *)
RECURSIVE MarkFrom(_, _, _)
MarkFrom(h, todo, mark) ==
    IF todo = <<>> THEN mark
    ELSE LET som == Head(todo)
         IN IF Senior(Me(h), som) THEN MarkFrom(h, Tail(todo), mark)
            ELSE MarkFrom(h, (IF mark[som] = 0 /\ IsPom(h, som) THEN h.obj[som] ELSE <<>>) \o Tail(todo),
                          [mark EXCEPT ![som] = @ + 1])

Marks(h) ==
    LET r == Me(h)
        none == [b \in DOMAIN h.box |-> IF Contains(r.raw, b) THEN 1 ELSE 0]
    IN MarkFrom(h, RootsOf(r), none)

(* u3a_sweep(): the boxes met, and no others, are in use, and the free     *)
(* lists hold the rest of the heap.                                        *)
SweepRoad(h) ==
    LET r == Me(h)
        mark == Marks(h)
        own == {b \in DOMAIN h.box : b \in Heap(r)}
        Siz(S) == MapThenSumSet(LAMBDA b: h.box[b].siz, S)
        idle == Siz(UNION {ToSet(r.fre[s]) : s \in DOMAIN r.fre} \cup ToSet(r.cel))
        pos == {b \in own : mark[b] > 0}
        leak == {b \in own : mark[b] = 0 /\ h.box[b].use > 0}
    IN IF leak # {} \/ Siz(pos) # Cardinality(Heap(r)) - idle THEN Foul(h, "leaked")
       ELSE [h EXCEPT !.box = [b \in DOMAIN @ |->
                IF b \in pos THEN [@[b] EXCEPT !.use = mark[b]] ELSE @[b]]]

(* u3a_pack_seek(): the new address of every box in use, lowest first. *)
PackSeek(h) ==
    LET used == {b \in DOMAIN h.box : h.box[b].use > 0}
        Siz(b) == h.box[b].siz
    IN [b \in used |-> Me(h).rut + MapThenSumSet(Siz, {c \in used : c < b})]

(* u3a_rewrite_noun() of every root, then u3a_pack_move(): the cells a     *)
(* root reaches name the new addresses, every box in use moves there, and  *)
(* the free lists and the spare cells are dropped.                         *)
PackRoad(h) ==
    LET r == Me(h)
        new == PackSeek(h)
        met == {b \in DOMAIN h.box : Marks(h)[b] > 0}
        To(som) == IF som < 0 THEN som ELSE new[som]
        old == [a \in {new[b] : b \in DOMAIN new} |-> CHOOSE b \in DOMAIN new : new[b] = a]
        Moved(b) == IF IsPom(h, b) /\ b \in met
                    THEN <<To(h.obj[b][1]), To(h.obj[b][2])>> ELSE h.obj[b]
        Roots(s) == [i \in DOMAIN s |-> [s[i] EXCEPT !.ref = To(@)]]
        top == r.rut + MapThenSumSet(LAMBDA b: h.box[b].siz, DOMAIN new)
    IN SetMe([h EXCEPT !.box = [a \in DOMAIN old |-> h.box[old[a]]],
                       !.obj = [a \in {new[b] : b \in DOMAIN h.obj} |-> Moved(old[a])]],
             [r EXCEPT !.hat = top, !.fre = NoRoad.fre, !.cel = <<>>,
                       !.held = Roots(@), !.memo = Roots(@), !.raw = [i \in DOMAIN @ |-> new[@[i]]]])

-----------------------------------------------------------------------------
(* The operations of the program.                                          *)

Held == Me(loom).held
Ref(i) == IF i = 0 THEN Cat ELSE Held[i].ref
Val(i) == IF i = 0 THEN <<0>> ELSE Held[i].val
Hold(h, s) == SetMe(h, [Me(h) EXCEPT !.held = SortSeq(s, LAMBDA x, y: x.ref < y.ref)])
Without(S) == LET keep == SelectSeq([i \in DOMAIN Held |-> i], LAMBDA i: i \notin S)
              IN [k \in DOMAIN keep |-> Held[keep[k]]]

HeldMax(h) == lim.held[Len(h.roads)]

Step ==
    state = "run" /\ loom.bad = "" /\ ~loom.over /\ UNCHANGED lim

(* A bail on an inner road returns to the parent with nothing but what the *)
(* parent had; at home it ends the process.                                *)
Settle(a, s) ==
    IF a.p # 0 \/ a.h.bad # ""
    THEN loom' = Hold(a.h, s) /\ state' = state
    ELSE IF AtHome(a.h) THEN loom' = a.h /\ state' = "dead"
    ELSE loom' = PopStack(FallRoad(a.h)) /\ state' = state

(* A new reference joins those kept. *)
Keep(a, rest, val) == Settle(a, Append(rest, [ref |-> a.p, val |-> val]))

MakeAtom ==
    \E x \in lim.slabs :
        /\ Step /\ Len(Held) < HeldMax(loom)
        /\ Keep(Mint(loom, x[1], x[2]), Held, <<x[2]>>)

MakeCell ==
    \E i, j \in 0 .. Len(Held) :
        /\ Step /\ i # j /\ Len(Without({i, j})) < HeldMax(loom)
        /\ Keep(Cell(loom, Ref(i), Ref(j)), Without({i, j}), <<Val(i), Val(j)>>)

(* u3a_gain() of a reference held on this road or on a senior one. *)
GainRef ==
    \E k \in DOMAIN loom.roads : \E i \in DOMAIN loom.roads[k].held :
        /\ Step /\ Len(Held) < HeldMax(loom)
        /\ LET x == loom.roads[k].held[i]
           IN Settle([h |-> Gain(loom, x.ref), p |-> x.ref], Append(Held, x))

LoseRef ==
    \E i \in DOMAIN Held :
        Step /\ Settle([h |-> Lose(loom, Ref(i)), p |-> Cat], Without({i}))

RECURSIVE ValAt(_, _, _)
ValAt(v, path, w) ==
    IF path = <<>> THEN w
    ELSE IF path[1] = 2 THEN <<ValAt(v[1], Tail(path), w), v[2]>>
    ELSE <<v[1], ValAt(v[2], Tail(path), w)>>

RECURSIVE HasPath(_, _)
HasPath(v, path) == path = <<>> \/ (Len(v) = 2 /\ HasPath(v[path[1] - 1], Tail(path)))

EditNoun ==
    \E i \in DOMAIN Held, j \in 0 .. Len(Held), path \in lim.paths :
        /\ Step /\ i # j
        /\ Keep(Edit(loom, Ref(i), path, Ref(j)), Without({i, j}),
                IF HasPath(Val(i), path) THEN ValAt(Val(i), path, Val(j)) ELSE <<0>>)

(* u3r_sing() *)
CompareNouns ==
    \E i, j \in DOMAIN Held :
        /\ Step /\ i < j /\ \A b \in DOMAIN loom.box : loom.box[b].use <= MaxUse
        /\ \E x \in {SingWed(loom, Ref(i), Ref(j))} :
            Settle([h |-> IF x.eq = (Val(i) = Val(j)) THEN x.h ELSE Foul(x.h, "sing"),
                    p |-> Cat], Held)

(* u3z_save(): the key and the product go to the memo cache as a cell. *)
Saved(a, val, front) ==
    LET new == [ref |-> a.p, val |-> val]
        put == IF front THEN <<new>> \o Me(a.h).memo ELSE Append(Me(a.h).memo, new)
    IN IF a.p = 0 THEN a ELSE [a EXCEPT !.h = SetMe(@, [Me(@) EXCEPT !.memo = put])]

SaveMemo ==
    \E i \in DOMAIN Held, front \in BOOLEAN :
        /\ Step /\ Len(Me(loom).memo) < lim.memo
        /\ Settle(Saved(Cell(Gain(loom, Ref(i)), Ref(i), Cat), <<Val(i), <<0>>>>, front), Held)

LeapIn ==
    /\ Step /\ Len(loom.roads) < Len(lim.held)
    /\ IF LeapRoom(loom) THEN Settle(HateRoad(loom), <<>>)
       ELSE Settle([h |-> loom, p |-> 0], <<>>)

(* u3m_love(): the product, and the jet state with it, are taken over. *)
LoveOut ==
    \E i, j \in 0 .. Len(Held) :
        /\ Step /\ ~AtHome(loom) /\ (i <= j \/ j = 0)
        /\ \E g \in {FallRoad(loom)} : \E x \in {Take(g, Ref(i))} :
            IF x.p = 0 THEN Settle(x, <<>>)
            ELSE \E y \in {Take(x.h, Ref(j))} :
                 LET more == (IF i = 0 THEN <<>> ELSE <<[ref |-> x.p, val |-> Val(i)]>>)
                             \o (IF j = 0 THEN <<>> ELSE <<[ref |-> y.p, val |-> Val(j)]>>)
                 IN IF y.p = 0 THEN Settle(y, <<>>)
                    ELSE /\ Len(Me(g).held \o more) <= HeldMax(g)
                         /\ Settle([h |-> PopStack(y.h), p |-> Cat], Me(g).held \o more)

(* u3m_bail() and the return from u3m_soft(): the inner road is left. *)
BailOut == Step /\ ~AtHome(loom) /\ Settle([h |-> loom, p |-> 0], <<>>)

(* u3m_pack(): the memo cache is cleared first. *)
Pack ==
    /\ Step /\ AtHome(loom)
    /\ \E h \in {PackRoad(TrimMemo(loom, 0))} : Settle([h |-> h, p |-> Cat], Me(h).held)

Grab == Step /\ AtHome(loom) /\ Settle([h |-> SweepRoad(loom), p |-> Cat], Held)

Owned(a) == IF a.p = 0 THEN a ELSE [a EXCEPT !.h = SetMe(@, [Me(@) EXCEPT !.raw = Append(@, a.p)])]

MakeRaw ==
    \E len \in lim.bufs :
        Step /\ Len(Me(loom).raw) < lim.raw /\ Settle(Owned(Malloc(loom, len)), Held)

Disowned(h, k) == SetMe(h, [Me(h) EXCEPT !.raw = RemoveAt(@, k)])

FreeRaw ==
    \E k \in DOMAIN Me(loom).raw :
        Step /\ Settle([h |-> Disowned(BoxFree(loom, Me(loom).raw[k]), k), p |-> Cat], Held)

(* u3a_realloc(): a new buffer, the words copied, the old one freed. *)
Replaced(a, k) ==
    IF a.p = 0 THEN a
    ELSE [a EXCEPT !.h = BoxFree(SetMe(@, [Me(@) EXCEPT !.raw[k] = a.p]), Me(@).raw[k])]

ReallocRaw ==
    \E k \in DOMAIN Me(loom).raw, len \in lim.bufs :
        Step /\ Settle(Replaced(Malloc(loom, len), k), Held)

LoomInit ==
    /\ lim \in Scenes
    /\ loom = [box |-> <<>>, obj |-> <<>>, fwd |-> <<>>, bad |-> "", over |-> FALSE,
               roads |-> <<[NoRoad EXCEPT !.mat = lim.words + 1, !.cap = lim.words + 1]>>]
    /\ state = "run"

LoomNext ==
    \/ MakeAtom \/ MakeCell \/ GainRef \/ LoseRef \/ EditNoun \/ CompareNouns \/ SaveMemo
    \/ LeapIn \/ LoveOut \/ BailOut \/ Pack \/ Grab \/ MakeRaw \/ FreeRaw \/ ReallocRaw

LoomSpec == LoomInit /\ [][LoomNext]_lvars

-----------------------------------------------------------------------------
(* Properties. *)

Boxes(r) == {b \in DOMAIN loom.box : b \in Heap(r)}

Tiled(r) ==
    LET bs == Boxes(r)
        low == IF North(r) THEN r.rut ELSE r.hat
        high == IF North(r) THEN r.hat ELSE r.rut
        ends == {b + loom.box[b].siz : b \in bs}
    IN bs \cup {high} = ends \cup {low}

FreeListed(r) ==
    LET free == {b \in Boxes(r) : loom.box[b].use = 0}
        lists == FlattenSeq([s \in 1 .. FboxNo |-> r.fre[s - 1]])
    IN /\ \A s \in DOMAIN r.fre : \A b \in ToSet(r.fre[s]) :
             b \in free /\ BoxSlot(loom.box[b].siz) = s
       /\ ToSet(lists) = free /\ Len(lists) = Cardinality(free)
       /\ Len(r.cel) = Cardinality(ToSet(r.cel)) /\ ToSet(r.cel) \subseteq Boxes(r) \ DOMAIN loom.obj

(* The references to b from the nouns of its own road and from its roots.  *)
Refs(r, b) ==
    LET in == {c \in DOMAIN loom.obj \cap Heap(r) : Len(loom.obj[c]) = 2}
        roots == RootsOf(r) \o r.raw
    IN MapThenSumSet(LAMBDA c: (IF loom.obj[c][1] = b THEN 1 ELSE 0)
                               + (IF loom.obj[c][2] = b THEN 1 ELSE 0), in)
       + Cardinality({i \in DOMAIN roots : roots[i] = b})

\* The count of every box is the number of references to it; only a road
\* inside home may count too many, after two nouns of a senior road were
\* unified (the comment of _ca_wed_who()).
CountsRight ==
    state = "run" => \A i \in DOMAIN loom.roads :
        LET r == loom.roads[i]
        IN \A b \in Boxes(r) :
            IF Contains(r.cel, b) \/ loom.box[b].use = 0 THEN Refs(r, b) = 0
            ELSE \/ loom.box[b].use = Refs(r, b)
                 \/ i > 1 /\ loom.box[b].use > Refs(r, b)

\* The boxes of every road tile its heap from rut to hat, the free lists
\* hold each free box exactly once, in the list of its size, and no
\* assertion of the allocator ("loom: corrupt", a double free, a junior
\* reference, a leak found by the sweep) ever fails; and counts are right.
HeapWhole ==
    /\ CountsRight
    /\ state # "parked" => loom.bad = ""
    /\ state = "run" => \A i \in DOMAIN loom.roads :
                           Tiled(loom.roads[i]) /\ FreeListed(loom.roads[i])

RECURSIVE Standing(_)
Standing(som) ==
    IF som < 0 THEN <<0>>
    ELSE IF som \notin DOMAIN loom.obj THEN <<>>
    ELSE IF Len(loom.obj[som]) = 1 THEN loom.obj[som]
    ELSE <<Standing(loom.obj[som][1]), Standing(loom.obj[som][2])>>

\* A reference stands for the same noun from the moment it is made: no
\* free, edit in place, unification, return from a road or compaction
\* changes or frees what another reference, on any road, still sees.
NounsKept ==
    state = "run" => \A i \in DOMAIN loom.roads :
        LET r == loom.roads[i]
        IN \A k \in DOMAIN (r.held \o r.memo) :
            LET x == (r.held \o r.memo)[k] IN Standing(x.ref) = x.val

\* A buffer of u3a_malloc() lies within its box ("aligned storage measured
\* in bytes").
MallocFits == state = "parked" \/ ~loom.over

=============================================================================
