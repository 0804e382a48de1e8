--------------------------- MODULE SnapshotProofs ---------------------------
(***************************************************************************)
(* Proofs about Snapshot, for any number of pages, of saves and of         *)
(* crashes.                                                                *)
(*                                                                         *)
(* A patch c leads the images q to the content t when what c does not      *)
(* write is there already (Fits) and what it writes is what t has          *)
(* (PatchFor).  The heart of the invariant is Recoverable: at any time the *)
(* files lead to the last content saved, or to the one being saved.        *)
(***************************************************************************)
EXTENDS Snapshot, ListingProofs

-----------------------------------------------------------------------------
(* Images, patches and contents *)

Now == [s \in Side |-> img[s].now]
Syn == [s \in Side |-> img[s].syn]

(* The contents of files that count: after a kill, what the process saw. *)
Faces == IF "kill" \in Crashes THEN {Now} ELSE {Now, Syn}

(* The page p in the images q, when the heap has n pages. *)
At(q, p, n) == q[SideOf(p, n)][Place(p, SideOf(p, n))]
In(q, p, n) == Place(p, SideOf(p, n)) <= Len(q[SideOf(p, n)])

SizeOf(c, s) == IF s = "north" THEN c.nor ELSE c.sou
Inner(c, s) == IF s = "north" THEN c.nor - 1 ELSE Pages - c.sou
PagesOf(c) == {c.mem[i].pag : i \in 1 .. Len(c.mem)}

(* A value that only the page of the home road may have. *)
HomeOnly(p, v) == p # Pages - 1 => v \notin {Pages - 1} \X Nat

Homes(q) ==
  \A s \in Side : \A p \in Page :
    Place(p, s) <= Len(q[s]) => HomeOnly(p, q[s][Place(p, s)])

(* A control block that _ce_patch_compose() makes: of pages in use, one    *)
(* line for each page, one of them for the home road.                      *)
WellFormed(c) ==
  /\ c \in Controls
  /\ c.nor + c.sou < Pages
  /\ Len(c.mem) <= Pages
  /\ Pages - 1 \in PagesOf(c)
  /\ \A i \in 1 .. Len(c.mem) :
       /\ c.mem[i].pag < c.nor \/ c.mem[i].pag >= Pages - c.sou
       /\ HomeOnly(c.mem[i].pag, c.mem[i].mug)
  /\ \A i, j \in 1 .. Len(c.mem) :
       c.mem[i].pag = c.mem[j].pag => c.mem[i].mug = c.mem[j].mug

(* The home road in the patch c was written by a run up to r. *)
HomeBy(c, r) ==
  \A i \in 1 .. Len(c.mem) :
    c.mem[i].pag = Pages - 1 => c.mem[i].mug \in {Pages - 1} \X (0 .. r)

(* A content as the mutator makes it. *)
Sound(t) ==
  /\ t = [wat |-> t.wat, mem |-> t.mem]
  /\ t.wat \in [north : 0 .. Pages, south : 0 .. Pages]
  /\ t.wat.north + t.wat.south < Pages
  /\ t.mem \in [DOMAIN t.mem -> Value]
  /\ DOMAIN t.mem \subseteq InUse(t.wat)

(* The images hold the content. *)
Holds(q, t) ==
  /\ Len(q["north"]) = t.wat.north
  /\ Len(q["south"]) = t.wat.south
  /\ \A p \in DOMAIN t.mem : At(q, p, t.wat.north) = t.mem[p]

(* The patch is part of the content, and the rest is in the images. *)
PatchFor(c, t) ==
  /\ c.nor = t.wat.north /\ c.sou = t.wat.south
  /\ \A i \in 1 .. Len(c.mem) :
       c.mem[i].pag \in DOMAIN t.mem => c.mem[i].mug = t.mem[c.mem[i].pag]

Fits(q, c, t) ==
  /\ \A s \in Side : SizeOf(c, s) <= Len(q[s]) \/ Inner(c, s) \in PagesOf(c)
  /\ \A p \in DOMAIN t.mem \ PagesOf(c) : In(q, p, c.nor) /\ At(q, p, c.nor) = t.mem[p]

(* The first k pages of the patch are in the images, and nothing beyond. *)
Progress(q, c, k) ==
  /\ \A s \in Side : Len(q[s]) <= SizeOf(c, s)
  /\ \A i \in 1 .. k : In(q, c.mem[i].pag, c.nor) /\ At(q, c.mem[i].pag, c.nor) = c.mem[i].mug

Done(q, c) ==
  /\ \A s \in Side : Len(q[s]) = SizeOf(c, s)
  /\ \A i \in 1 .. Len(c.mem) : At(q, c.mem[i].pag, c.nor) = c.mem[i].mug

Valid(c, m) == c \in Controls /\ m \in Seq(Value) /\ Verify(c, m)

(* The page of the home road in the patch is not among the pages m. *)
Foreign(c, m) ==
  \E i \in 1 .. Len(c.mem) :
    c.mem[i].pag = Pages - 1 /\ \A j \in 1 .. Len(m) : m[j] # c.mem[i].mug

-----------------------------------------------------------------------------
(* The invariant *)

Targets == {old} \cup IF new = Empty THEN {} ELSE {new}

Leads(c, t) == PatchFor(c, t) /\ \A q \in Faces : Fits(q, c, t)

Saving == {"memory", "pages", "sync control", "sync memory"}
Applying == {"resize north", "resize south", "apply", "sync south"}

(* Values and types, whatever crashes there are. *)
HomesInv ==
  /\ \A p \in Page : HomeOnly(p, loom[p])
  /\ Homes(Now) /\ Homes(Syn)

ControlsInv ==
  /\ \A c \in {ctl.now, ctl.syn} \cap Controls : WellFormed(c) /\ HomeBy(c, cnt.run)
  /\ pc \in Saving => /\ WellFormed(pat.con) /\ HomeBy(pat.con, cnt.run)
                      /\ ~pat.rec
  /\ pc \in Applying => ctl.now = pat.con /\ Valid(pat.con, mem.now)
  /\ pc = "memory" => ctl.now = Partial
  /\ pc = "pages" => ctl.now = Partial /\ mem.now \in Seq(Value)
  /\ pc \in {"sync control", "sync memory"} => ctl.now = pat.con /\ mem.now \in Seq(Value)
  /\ pc \in {"delete memory", "blit", "up", "save"} => ctl.now = None
  /\ pc \in {"save", "memory", "pages", "sync control"} =>
       /\ loom[Pages - 1] = <<Pages - 1, cnt.run>>
       /\ cnt.run > 0
       /\ ctl.syn \in Controls => HomeBy(ctl.syn, cnt.run - 1)

ContentsInv ==
  /\ Sound(old) /\ Sound(new)
  /\ pc = "save" =>
       /\ wat.north + wat.south < Pages /\ wat.south > 0 /\ Pages - 1 \in dit
       /\ wrt \subseteq InUse(wat)

BaseInv == SnapTypeOK /\ HomesInv /\ ControlsInv /\ ContentsInv

(* The files lead to one of the contents. *)
Recoverable ==
  IF Valid(ctl.now, mem.now)
  THEN \E t \in Targets : Leads(ctl.now, t)
  ELSE \E t \in Targets : Holds(Now, t)

UpInv ==
  pc = "up" =>
    /\ Holds(Now, old) /\ new = Empty
    /\ wat = old.wat /\ wrt = DOMAIN old.mem
    /\ \A p \in wrt : loom[p] = old.mem[p]

SaveInv ==
  pc = "save" =>
    /\ Holds(Now, old) /\ new = Empty
    /\ \A p \in wrt \ dit : In(Now, p, wat.north) /\ At(Now, p, wat.north) = loom[p]
    /\ wat.north <= Len(Now["north"]) \/ wat.north - 1 \in dit
    /\ wat.south <= Len(Now["south"]) \/ Pages - wat.south \in dit

PatchInv ==
  /\ pc \in Saving \cup Applying \cup {"delete control", "delete memory"} /\ ~pat.rec =>
       new # Empty /\ new = Content(loom, wat, wrt)
  /\ pc \in Saving => Holds(Now, old) /\ PatchFor(pat.con, new) /\ Fits(Now, pat.con, new)
  /\ pc \in Applying => \E t \in Targets : (~pat.rec => t = new) /\ Leads(pat.con, t)
  /\ pc = "resize south" => Len(img["north"].now) <= pat.con.nor
  /\ pc = "apply" => Progress(Now, pat.con, pat.done)
  /\ pc = "sync south" => Done(Now, pat.con)
  /\ pc = "delete control" => (Valid(ctl.now, mem.now) => Done(Now, ctl.now))
  /\ pc \in {"delete control", "delete memory"} =>
       \E t \in Targets : (~pat.rec => t = new) /\ Holds(Now, t)

(* What is on the disk, when the process is not killed alone. *)
PowerInv ==
  /\ pc \in Applying => ctl.syn = pat.con /\ mem.syn = mem.now
  /\ pc = "sync memory" => ctl.syn = ctl.now
  /\ Now # Syn =>
       /\ pc \in Applying \cup {"down", "patch", "corrupt"}
       /\ ctl.now = ctl.syn /\ mem.now = mem.syn /\ Valid(ctl.now, mem.now)
  /\ pc = "sync south" => img["north"].now = img["north"].syn
  /\ ctl.now \in {None, Partial, ctl.syn} \/ pc = "sync control"
  /\ ctl.now # ctl.syn /\ Valid(ctl.syn, mem.syn) => Done(Now, ctl.syn)
  /\ ctl.now = ctl.syn /\ ctl.syn \in Controls =>
       mem.now = mem.syn \/ pc \in {"sync control", "sync memory"}
  /\ (mem.now \notin {None, mem.syn} \/ pc \in {"pages", "sync control"})
       /\ ctl.syn \in Controls /\ ctl.now # ctl.syn => Foreign(ctl.syn, mem.now)

Synchronous == "kill" \notin Crashes => PowerInv

SInv == BaseInv /\ Recoverable /\ UpInv /\ SaveInv /\ PatchInv /\ Synchronous

-----------------------------------------------------------------------------
(* Patches and images *)

(* The size of an image, and the page at the end of it, of a control block *)
(* as _ce_patch_compose() makes it.                                        *)
LEMMA ControlFacts ==
  ASSUME NEW c, WellFormed(c)
  PROVE  /\ c.nor \in Nat /\ c.sou \in Nat /\ c.nor + c.sou < Pages
         /\ c.mem \in Seq(Lines) /\ Len(c.mem) \in Nat /\ Len(c.mem) <= Pages
         /\ \A s \in Side : SizeOf(c, s) \in Nat /\ SizeOf(c, s) <= Pages
         /\ \A i \in 1 .. Len(c.mem) :
              /\ c.mem[i] \in Lines /\ c.mem[i].pag \in Page /\ c.mem[i].mug \in Value
              /\ c.mem[i].pag < c.nor \/ c.mem[i].pag >= Pages - c.sou
         /\ \A p \in PagesOf(c) : p \in Page /\ (p < c.nor \/ p >= Pages - c.sou)
<1>1. c.nor \in Nat /\ c.sou \in Nat /\ c.mem \in Seq(Lines) /\ c.nor + c.sou < Pages
  BY DEF WellFormed, Controls
<1>2. Len(c.mem) \in Nat /\ Len(c.mem) <= Pages
  BY <1>1 DEF WellFormed
<1>3. \A i \in 1 .. Len(c.mem) : c.mem[i] \in Lines
  BY <1>1
<1>4. \A i \in 1 .. Len(c.mem) :
        /\ c.mem[i].pag \in Page /\ c.mem[i].mug \in Value
        /\ c.mem[i].pag < c.nor \/ c.mem[i].pag >= Pages - c.sou
  BY <1>3 DEF Lines, WellFormed
<1>5. \A s \in Side : SizeOf(c, s) \in Nat /\ SizeOf(c, s) <= Pages
  BY <1>1, SnapshotAssumption DEF SizeOf
<1> QED BY <1>1, <1>2, <1>3, <1>4, <1>5 DEF PagesOf

(* Where the page of a patch is: in its image, at most at the end of it.   *)
LEMMA PlaceFacts ==
  ASSUME NEW n \in Nat, NEW m \in Nat, n + m < Pages, NEW p \in Page,
         p < n \/ p >= Pages - m
  PROVE  /\ SideOf(p, n) \in Side
         /\ Place(p, SideOf(p, n)) \in Nat
         /\ Place(p, SideOf(p, n)) >= 1
         /\ Place(p, SideOf(p, n)) <= IF SideOf(p, n) = "north" THEN n ELSE m
BY SnapshotAssumption DEF SideOf, Side, Place, Page

(* Two pages in use have two places. *)
LEMMA PlacesDiffer ==
  ASSUME NEW n \in Nat, NEW p \in Page, NEW r \in Page,
         SideOf(p, n) = SideOf(r, n),
         Place(p, SideOf(p, n)) = Place(r, SideOf(r, n))
  PROVE  p = r
BY SnapshotAssumption DEF SideOf, Place, Page

(* When all pages of the patch are in the images, so is the content. *)
LEMMA DoneHolds ==
  ASSUME NEW q, NEW c, NEW t, WellFormed(c), Sound(t), PatchFor(c, t),
         Fits(q, c, t), Done(q, c)
  PROVE  Holds(q, t)
<1>1. Len(q["north"]) = t.wat.north /\ Len(q["south"]) = t.wat.south
  BY DEF Done, PatchFor, SizeOf, Side
<1>2. ASSUME NEW p \in DOMAIN t.mem
      PROVE  At(q, p, t.wat.north) = t.mem[p]
  <2>1. CASE p \in PagesOf(c)
    BY <2>1 DEF PagesOf, Done, PatchFor
  <2>2. CASE p \notin PagesOf(c)
    BY <2>2 DEF Fits, PatchFor
  <2> QED BY <2>1, <2>2
<1> QED BY <1>1, <1>2 DEF Holds

(* A patch that changes nothing in the images leads to what they hold. *)
LEMMA HoldsDone ==
  ASSUME NEW q, NEW c, NEW t, WellFormed(c), Sound(t), Holds(q, t), Done(q, c)
  PROVE  PatchFor(c, t) /\ Fits(q, c, t)
<1>1. c.nor = t.wat.north /\ c.sou = t.wat.south
  BY DEF Done, Holds, SizeOf, Side
<1>2. PatchFor(c, t)
  BY <1>1 DEF PatchFor, Done, Holds
<1>3. \A s \in Side : SizeOf(c, s) <= Len(q[s])
  BY ControlFacts DEF Done
<1>4. ASSUME NEW p \in DOMAIN t.mem
      PROVE  In(q, p, c.nor) /\ At(q, p, c.nor) = t.mem[p]
  <2>1. p \in Page /\ (p < c.nor \/ p >= Pages - c.sou)
    BY <1>1 DEF Sound, InUse
  <2>2. c.nor \in Nat /\ c.sou \in Nat /\ c.nor + c.sou < Pages
    BY ControlFacts
  <2>3. In(q, p, c.nor)
    BY <2>1, <2>2, <1>1, PlaceFacts, ZenonT(60) DEF In, Holds, Side
  <2> QED BY <2>3, <1>1 DEF Holds
<1> QED BY <1>2, <1>3, <1>4 DEF Fits

(* After the last page, the patch is done. *)
LEMMA ProgressDone ==
  ASSUME NEW q \in [Side -> Seq(Value)], NEW c, NEW t, WellFormed(c),
         Fits(q, c, t), Progress(q, c, Len(c.mem))
  PROVE  Done(q, c)
<1>1. ASSUME NEW s \in Side PROVE Len(q[s]) = SizeOf(c, s)
  <2>1. Len(q[s]) \in Nat /\ Len(q[s]) <= SizeOf(c, s) /\ SizeOf(c, s) \in Nat
    BY ControlFacts DEF Progress
  <2>2. CASE Inner(c, s) \in PagesOf(c)
    <3>1. PICK i \in 1 .. Len(c.mem) : c.mem[i].pag = Inner(c, s)
      BY <2>2 DEF PagesOf
    <3>2. In(q, Inner(c, s), c.nor)
      BY <3>1 DEF Progress
    <3>3. Inner(c, s) \in Page /\ (Inner(c, s) < c.nor \/ Inner(c, s) >= Pages - c.sou)
      BY <3>1, ControlFacts
    <3>4. c.nor \in Nat /\ c.sou \in Nat /\ c.nor + c.sou < Pages
      BY ControlFacts
    <3>5. SideOf(Inner(c, s), c.nor) = s /\ Place(Inner(c, s), s) = SizeOf(c, s)
      BY <3>3, <3>4, SnapshotAssumption, SMTT(30) DEF Inner, SideOf, Place, SizeOf, Side, Page
    <3> QED BY <2>1, <3>2, <3>5 DEF In
  <2>3. CASE SizeOf(c, s) <= Len(q[s])
    BY <2>1, <2>3
  <2> QED BY <2>2, <2>3 DEF Fits
<1> QED BY <1>1 DEF Done, Progress

(* A write of a page to a file. *)
LEMMA PutFacts ==
  ASSUME NEW f \in Seq(Value), NEW k \in Nat, k >= 1, NEW x \in Value
  PROVE  /\ Put(f, k, x) \in Seq(Value)
         /\ Len(Put(f, k, x)) = IF k > Len(f) THEN k ELSE Len(f)
         /\ Put(f, k, x)[k] = x
         /\ \A i \in 1 .. Len(f) : i # k => Put(f, k, x)[i] = f[i]
         /\ \A i \in 1 .. Len(Put(f, k, x)) :
              Put(f, k, x)[i] \in {x, Zero} \/ (i <= Len(f) /\ Put(f, k, x)[i] = f[i])
<1> DEFINE h == IF k > Len(f) THEN k ELSE Len(f)
<1> DEFINE g == Put(f, k, x)
<1>1. h \in Nat /\ k <= h /\ Len(f) <= h /\ Len(f) \in Nat
  OBVIOUS
<1>2. g = [i \in 1 .. h |-> IF i = k THEN x ELSE IF i <= Len(f) THEN f[i] ELSE Zero]
  BY DEF Put
<1>3. \A i \in 1 .. h :
        (IF i = k THEN x ELSE IF i <= Len(f) THEN f[i] ELSE Zero) \in Value
  BY <1>1 DEF Value
<1> HIDE DEF h
<1>4. g \in [1 .. h -> Value]
  BY <1>2, <1>3
<1>5. g \in Seq(Value) /\ Len(g) = h
  BY <1>4, <1>1
<1>6. g[k] = x
  BY <1>1, <1>2
<1>7. \A i \in 1 .. Len(f) : i # k => g[i] = f[i]
  BY <1>1, <1>2
<1>8. \A i \in 1 .. h : g[i] \in {x, Zero} \/ (i <= Len(f) /\ g[i] = f[i])
  BY <1>1, <1>2
<1> QED BY <1>5, <1>6, <1>7, <1>8 DEF h

(* The size of an image, of n and m pages north and south. *)
Limit(n, m, s) == IF s = "north" THEN n ELSE m

(* The images q with page p written, when the heap has n pages. *)
Written(q, p, n, x) ==
  [q EXCEPT ![SideOf(p, n)] = Put(@, Place(p, SideOf(p, n)), x)]

(* A write puts its page in place and leaves the others alone. *)
LEMMA WrittenFacts ==
  ASSUME NEW q \in [Side -> Seq(Value)], NEW n \in Nat, NEW m \in Nat, n + m < Pages,
         NEW p \in Page, p < n \/ p >= Pages - m, NEW x \in Value
  PROVE  /\ Written(q, p, n, x) \in [Side -> Seq(Value)]
         /\ In(Written(q, p, n, x), p, n) /\ At(Written(q, p, n, x), p, n) = x
         /\ \A s \in Side : Len(q[s]) <= Len(Written(q, p, n, x)[s])
         /\ \A s \in Side : \/ Len(Written(q, p, n, x)[s]) <= Limit(n, m, s)
                            \/ Len(Written(q, p, n, x)[s]) = Len(q[s])
         /\ \A r \in Page : r # p /\ (r < n \/ r >= Pages - m) /\ In(q, r, n) =>
              In(Written(q, p, n, x), r, n) /\ At(Written(q, p, n, x), r, n) = At(q, r, n)
<1> DEFINE s == SideOf(p, n)
<1> DEFINE k == Place(p, s)
<1> DEFINE w == Written(q, p, n, x)
<1>1. s \in Side /\ k \in Nat /\ k >= 1 /\ k <= IF s = "north" THEN n ELSE m
  BY PlaceFacts
<1>2. q[s] \in Seq(Value) /\ \A z \in Side : q[z] \in Seq(Value) /\ Len(q[z]) \in Nat
  BY <1>1
<1>3. /\ Put(q[s], k, x) \in Seq(Value)
      /\ Len(Put(q[s], k, x)) = IF k > Len(q[s]) THEN k ELSE Len(q[s])
      /\ Put(q[s], k, x)[k] = x
      /\ \A i \in 1 .. Len(q[s]) : i # k => Put(q[s], k, x)[i] = q[s][i]
  <2>1. PICK f \in Seq(Value) : f = q[s]
    BY <1>2
  <2>2. PICK i \in Nat : i = k /\ i >= 1
    BY <1>1
  <2>3. /\ Put(f, i, x) \in Seq(Value)
        /\ Len(Put(f, i, x)) = IF i > Len(f) THEN i ELSE Len(f)
        /\ Put(f, i, x)[i] = x
        /\ \A j \in 1 .. Len(f) : j # i => Put(f, i, x)[j] = f[j]
    BY <2>2, PutFacts, SMTT(30)
  <2> HIDE DEF s, k, w
  <2> QED BY <2>1, <2>2, <2>3
<1>4. w = [q EXCEPT ![s] = Put(q[s], k, x)]
  BY DEF Written
<1> HIDE DEF s, k, w
<1>5. w \in [Side -> Seq(Value)] /\ w[s] = Put(q[s], k, x)
      /\ \A z \in Side : z # s => w[z] = q[z]
  BY <1>1, <1>3, <1>4
<1>6. In(w, p, n) /\ At(w, p, n) = x
  BY <1>1, <1>2, <1>3, <1>5 DEF In, At, s, k
<1>7. ASSUME NEW z \in Side PROVE Len(q[z]) <= Len(w[z])
  <2>1. CASE z = s
    BY <2>1, <1>1, <1>2, <1>3, <1>5
  <2>2. CASE z # s
    BY <2>2, <1>2, <1>5
  <2> QED BY <2>1, <2>2
<1>8. ASSUME NEW z \in Side
      PROVE  Len(w[z]) <= Limit(n, m, z) \/ Len(w[z]) = Len(q[z])
  <2>1. CASE z = s
    BY <2>1, <1>1, <1>2, <1>3, <1>5 DEF Limit
  <2>2. CASE z # s
    BY <2>2, <1>5
  <2> QED BY <2>1, <2>2
<1>9. ASSUME NEW r \in Page, r # p, r < n \/ r >= Pages - m, In(q, r, n)
      PROVE  In(w, r, n) /\ At(w, r, n) = At(q, r, n)
  <2> DEFINE z == SideOf(r, n)
  <2> DEFINE j == Place(r, z)
  <2>1. z \in Side /\ j \in Nat /\ j >= 1 /\ j <= Len(q[z])
    BY <1>9, PlaceFacts DEF In
  <2>2. z = s => j # k
    BY <1>9, PlacesDiffer DEF s, k
  <2> HIDE DEF z, j
  <2>3. j <= Len(w[z]) /\ w[z][j] = q[z][j]
    BY <2>1, <2>2, <1>1, <1>2, <1>3, <1>5
  <2> QED BY <2>3 DEF In, At, z, j
<1> QED BY <1>5, <1>6, <1>7, <1>8, <1>9 DEF w

(* Whatever is written of a page of the patch, the rest of the content is  *)
(* there.                                                                  *)
LEMMA WrittenFits ==
  ASSUME NEW q \in [Side -> Seq(Value)], NEW c, NEW t, WellFormed(c), Sound(t),
         PatchFor(c, t), Fits(q, c, t), NEW p \in PagesOf(c), NEW x \in Value
  PROVE  Fits(Written(q, p, c.nor, x), c, t)
<1> DEFINE w == Written(q, p, c.nor, x)
<1>1. /\ c.nor \in Nat /\ c.sou \in Nat /\ c.nor + c.sou < Pages
      /\ p \in Page /\ (p < c.nor \/ p >= Pages - c.sou)
  BY ControlFacts
<1>2. \A s \in Side : Len(q[s]) \in Nat /\ Len(w[s]) \in Nat /\ Len(q[s]) <= Len(w[s])
  BY <1>1, WrittenFacts
<1>3. \A r \in Page : r # p /\ (r < c.nor \/ r >= Pages - c.sou) /\ In(q, r, c.nor) =>
        In(w, r, c.nor) /\ At(w, r, c.nor) = At(q, r, c.nor)
  BY <1>1, WrittenFacts
<1> HIDE DEF w
<1>4. \A s \in Side : SizeOf(c, s) \in Nat
  BY ControlFacts
<1>5. \A s \in Side : SizeOf(c, s) <= Len(w[s]) \/ Inner(c, s) \in PagesOf(c)
  BY <1>2, <1>4 DEF Fits
<1>6. ASSUME NEW r \in DOMAIN t.mem \ PagesOf(c)
      PROVE  In(w, r, c.nor) /\ At(w, r, c.nor) = t.mem[r]
  <2>1. r \in Page /\ (r < c.nor \/ r >= Pages - c.sou) /\ r # p
    BY DEF Sound, InUse, PatchFor
  <2>2. In(q, r, c.nor) /\ At(q, r, c.nor) = t.mem[r]
    BY DEF Fits
  <2> QED BY <2>1, <2>2, <1>3
<1>7. Fits(w, c, t)
  BY <1>5, <1>6 DEF Fits
<1> QED BY <1>7 DEF w

(* One more page of the patch is in place. *)
LEMMA WrittenProgress ==
  ASSUME NEW q \in [Side -> Seq(Value)], NEW c, WellFormed(c),
         NEW k \in Nat, k < Len(c.mem), Progress(q, c, k)
  PROVE  Progress(Written(q, c.mem[k + 1].pag, c.nor, c.mem[k + 1].mug), c, k + 1)
<1> DEFINE p == c.mem[k + 1].pag
<1> DEFINE x == c.mem[k + 1].mug
<1> DEFINE w == Written(q, p, c.nor, x)
<1>1. /\ c.nor \in Nat /\ c.sou \in Nat /\ c.nor + c.sou < Pages /\ Len(c.mem) \in Nat
      /\ p \in Page /\ (p < c.nor \/ p >= Pages - c.sou) /\ x \in Value
  BY ControlFacts
<1>. HIDE DEF p, x
<1>a. In(w, p, c.nor) /\ At(w, p, c.nor) = x
  BY <1>1, WrittenFacts
<1>b. \A s \in Side : Len(w[s]) <= Limit(c.nor, c.sou, s) \/ Len(w[s]) = Len(q[s])
  BY <1>1, WrittenFacts, SMTT(30)
<1>2. \A r \in Page : r # p /\ (r < c.nor \/ r >= Pages - c.sou) /\ In(q, r, c.nor) =>
           In(w, r, c.nor) /\ At(w, r, c.nor) = At(q, r, c.nor)
  BY <1>1, WrittenFacts
<1>c. k + 1 \in 1 .. Len(c.mem)
  BY <1>1
<1>d. \A i, j \in 1 .. Len(c.mem) : c.mem[i].pag = c.mem[j].pag => c.mem[i].mug = c.mem[j].mug
  BY DEF WellFormed
<1>3. \A i \in 1 .. Len(c.mem) : c.mem[i].pag = p => c.mem[i].mug = x
  BY <1>c, <1>d DEF p, x
<1>4. \A i \in 1 .. Len(c.mem) : 
        c.mem[i].pag \in Page /\ (c.mem[i].pag < c.nor \/ c.mem[i].pag >= Pages - c.sou)
  BY ControlFacts
<1>5. \A i \in 1 .. k + 1 : i = k + 1 \/ i \in 1 .. k
  OBVIOUS
<1>6. k + 1 \in 1 .. Len(c.mem) /\ \A i \in 1 .. k : i \in 1 .. Len(c.mem)
  BY <1>1
<1> HIDE DEF w
<1>7. ASSUME NEW i \in 1 .. k + 1
      PROVE  In(w, c.mem[i].pag, c.nor) /\ At(w, c.mem[i].pag, c.nor) = c.mem[i].mug
  <2>1. CASE c.mem[i].pag = p
    BY <2>1, <1>a, <1>3, <1>5, <1>6 DEF p, x
  <2>2. CASE c.mem[i].pag # p
    <3>1. i \in 1 .. k
      BY <2>2, <1>5 DEF p
    <3>2. In(q, c.mem[i].pag, c.nor) /\ At(q, c.mem[i].pag, c.nor) = c.mem[i].mug
      BY <3>1 DEF Progress
    <3> QED BY <2>2, <3>1, <3>2, <1>2, <1>4, <1>6
  <2> QED BY <2>1, <2>2
<1>8. \A s \in Side : Len(w[s]) <= SizeOf(c, s)
  BY <1>b DEF Progress, SizeOf, Limit
<1>9. Progress(w, c, k + 1)
  BY <1>7, <1>8 DEF Progress
<1> QED BY <1>9 DEF w, p, x

(* Truncation, as _ce_image_resize() does it. *)
Cut(f, n) == IF Len(f) > n THEN SubSeq(f, 1, n) ELSE f

(* A file that is cut keeps what is left of the cut. *)
LEMMA CutFacts ==
  ASSUME NEW f \in Seq(Value), NEW n \in Nat
  PROVE  /\ Cut(f, n) \in Seq(Value)
         /\ Len(Cut(f, n)) \in Nat /\ Len(Cut(f, n)) <= n /\ Len(Cut(f, n)) <= Len(f)
         /\ n <= Len(f) => n <= Len(Cut(f, n))
         /\ \A i \in 1 .. Len(f) : i <= n => i <= Len(Cut(f, n)) /\ Cut(f, n)[i] = f[i]
         /\ \A i \in 1 .. Len(Cut(f, n)) : i \in 1 .. Len(f) /\ Cut(f, n)[i] = f[i]
<1>1. CASE Len(f) > n
  <2>1. Cut(f, n) = SubSeq(f, 1, n)
    BY <1>1 DEF Cut
  <2>2. SubSeq(f, 1, n) \in Seq(Value) /\ Len(SubSeq(f, 1, n)) = n
        /\ \A i \in 1 .. n : SubSeq(f, 1, n)[i] = f[i]
    BY <1>1
  <2> QED BY <1>1, <2>1, <2>2
<1>2. CASE ~(Len(f) > n)
  BY <1>2 DEF Cut
<1> QED BY <1>1, <1>2

(* What the patch leaves is not cut. *)
LEMMA CutFits ==
  ASSUME NEW q \in [Side -> Seq(Value)], NEW c, NEW t, WellFormed(c), Sound(t),
         PatchFor(c, t), Fits(q, c, t), NEW s \in Side
  PROVE  Fits([q EXCEPT ![s] = Cut(@, SizeOf(c, s))], c, t)
<1> DEFINE n == SizeOf(c, s)
<1> DEFINE w == [q EXCEPT ![s] = Cut(q[s], n)]
<1>1. n \in Nat /\ q[s] \in Seq(Value)
  BY ControlFacts
<1> HIDE DEF n
<1>2. /\ Cut(q[s], n) \in Seq(Value)
      /\ Len(Cut(q[s], n)) \in Nat
      /\ n <= Len(q[s]) => n <= Len(Cut(q[s], n))
      /\ \A i \in 1 .. Len(q[s]) : i <= n => i <= Len(Cut(q[s], n)) /\ Cut(q[s], n)[i] = q[s][i]
  BY <1>1, CutFacts
<1>3. w[s] = Cut(q[s], n) /\ \A z \in Side : z # s => w[z] = q[z]
  OBVIOUS
<1> HIDE DEF w
<1>4. ASSUME NEW z \in Side
      PROVE  SizeOf(c, z) <= Len(w[z]) \/ Inner(c, z) \in PagesOf(c)
  <2>1. CASE z = s
    BY <2>1, <1>2, <1>3 DEF Fits, n
  <2>2. CASE z # s
    BY <2>2, <1>3 DEF Fits
  <2> QED BY <2>1, <2>2
<1>5. ASSUME NEW p \in DOMAIN t.mem \ PagesOf(c)
      PROVE  In(w, p, c.nor) /\ At(w, p, c.nor) = t.mem[p]
  <2> DEFINE z == SideOf(p, c.nor)
  <2> DEFINE j == Place(p, z)
  <2>1. c.nor \in Nat /\ c.sou \in Nat /\ c.nor + c.sou < Pages
    BY ControlFacts
  <2>2. p \in Page /\ (p < c.nor \/ p >= Pages - c.sou)
    BY DEF Sound, InUse, PatchFor
  <2>3. z \in Side /\ j \in Nat /\ j >= 1 /\ j <= SizeOf(c, z)
    BY <2>1, <2>2, PlaceFacts DEF SizeOf
  <2>4. j <= Len(q[z]) /\ q[z][j] = t.mem[p]
    BY DEF Fits, In, At
  <2> HIDE DEF z, j
  <2>5. j \in 1 .. Len(q[z])
    BY <2>3, <2>4
  <2>6. j <= Len(w[z]) /\ w[z][j] = q[z][j]
    <3>1. CASE z = s
      BY <3>1, <2>3, <2>5, <1>2, <1>3 DEF n
    <3>2. CASE z # s
      BY <3>2, <2>3, <2>4, <1>3
    <3> QED BY <3>1, <3>2
  <2> QED BY <2>4, <2>6 DEF In, At, z, j
<1>6. Fits(w, c, t)
  BY <1>4, <1>5 DEF Fits
<1> QED BY <1>6 DEF w, n

(* The file r has what the files a and b agree on, and is as long as one.  *)
Mixes(r, a, b) ==
  /\ Len(a) <= Len(r) \/ Len(b) <= Len(r)
  /\ \A i \in 1 .. Len(a) :
       i <= Len(b) /\ a[i] = b[i] => i <= Len(r) /\ r[i] = a[i]

(* A loss of power keeps what the disk and the process agree on, and       *)
(* invents nothing.                                                        *)
LEMMA SurvivorFacts ==
  ASSUME NEW f \in [now : Seq(Value), syn : Seq(Value)], NEW r \in Survivors(f)
  PROVE  /\ r \in Seq(Value)
         /\ Len(r) <= Len(f.now) \/ Len(r) <= Len(f.syn)
         /\ Mixes(r, f.now, f.syn)
         /\ \A i \in 1 .. Len(r) : \/ r[i] \in {Zero, Torn}
                                   \/ i <= Len(f.now) /\ r[i] = f.now[i]
                                   \/ i <= Len(f.syn) /\ r[i] = f.syn[i]
<1> DEFINE a == f.now
           b == f.syn
<1>0. a \in Seq(Value) /\ b \in Seq(Value) /\ Len(a) \in Nat /\ Len(b) \in Nat
  OBVIOUS
<1>1. CASE a = b
  <2>1. r = a
    BY <1>1 DEF Survivors
  <2> QED BY <2>1, <1>0, <1>1 DEF Mixes
<1>2. CASE a # b
  <2> DEFINE lo == IF Len(a) < Len(b) THEN Len(a) ELSE Len(b)
             hi == IF Len(a) < Len(b) THEN Len(b) ELSE Len(a)
             K(i) == IF i > lo THEN {IF i <= Len(a) THEN a[i] ELSE b[i], Zero, Torn}
                     ELSE IF a[i] = b[i] THEN {a[i]} ELSE {a[i], b[i], Torn}
  <2>1. PICK n \in lo .. hi : /\ r \in [1 .. n -> UNION {K(i) : i \in 1 .. n}]
                              /\ \A i \in 1 .. n : r[i] \in K(i)
    BY <1>2 DEF Survivors, Between
  <2>2. /\ lo \in Nat /\ hi \in Nat /\ n \in Nat /\ lo <= n /\ n <= hi
        /\ lo <= Len(a) /\ lo <= Len(b) /\ (hi = Len(a) \/ hi = Len(b))
        /\ (lo = Len(a) \/ lo = Len(b))
        /\ \A i \in Nat : i <= Len(a) /\ i <= Len(b) => i <= lo
        /\ \A i \in Nat : i <= hi => i <= Len(a) \/ i <= Len(b)
    BY <1>0, <2>1
  <2>3. ASSUME NEW i \in 1 .. n
        PROVE  /\ r[i] \in Value
               /\ \/ r[i] \in {Zero, Torn}
                  \/ i <= Len(a) /\ r[i] = a[i]
                  \/ i <= Len(b) /\ r[i] = b[i]
               /\ i <= Len(a) /\ i <= Len(b) /\ a[i] = b[i] => r[i] = a[i]
    <3>1. r[i] \in K(i) /\ i <= hi
      BY <2>1, <2>2
    <3>2. i <= Len(a) => a[i] \in Value
      BY <1>0, <2>2
    <3>3. i <= Len(b) => b[i] \in Value
      BY <1>0, <2>2
    <3>4. Zero \in Value /\ Torn \in Value
      BY DEF Value
    <3>5. CASE i > lo
      <4>1. r[i] \in {IF i <= Len(a) THEN a[i] ELSE b[i], Zero, Torn}
        BY <3>1, <3>5
      <4>2. ~(i <= Len(a) /\ i <= Len(b)) /\ (i <= Len(a) \/ i <= Len(b))
        BY <2>2, <3>1, <3>5
      <4> QED BY <4>1, <4>2, <3>2, <3>3, <3>4
    <3>6. CASE ~(i > lo)
      <4>1. i <= Len(a) /\ i <= Len(b)
        BY <2>2, <3>6
      <4>2. r[i] \in IF a[i] = b[i] THEN {a[i]} ELSE {a[i], b[i], Torn}
        BY <3>1, <3>6
      <4> QED BY <4>1, <4>2, <3>2, <3>3, <3>4
    <3> QED BY <3>5, <3>6
  <2> HIDE DEF lo, hi, K
  <2>4. r \in [1 .. n -> Value]
    BY <2>1, <2>3
  <2>5. r \in Seq(Value) /\ Len(r) = n
    BY <2>2, <2>4
  <2>6. Mixes(r, a, b)
    BY <2>2, <2>3, <2>5, <1>0 DEF Mixes
  <2> QED BY <2>2, <2>3, <2>5, <2>6
<1> QED BY <1>1, <1>2

(* What both the disk and the process have of the content is still there.  *)
LEMMA MixedFits ==
  ASSUME NEW a \in [Side -> Seq(Value)], NEW b \in [Side -> Seq(Value)],
         NEW r \in [Side -> Seq(Value)], NEW c, NEW t, WellFormed(c), Sound(t),
         PatchFor(c, t), Fits(a, c, t), Fits(b, c, t),
         \A s \in Side : Mixes(r[s], a[s], b[s])
  PROVE  Fits(r, c, t)
<1>1. ASSUME NEW s \in Side
      PROVE  SizeOf(c, s) <= Len(r[s]) \/ Inner(c, s) \in PagesOf(c)
  <2>1. SizeOf(c, s) \in Nat /\ Len(r[s]) \in Nat /\ Len(a[s]) \in Nat /\ Len(b[s]) \in Nat
    BY ControlFacts
  <2>2. Len(a[s]) <= Len(r[s]) \/ Len(b[s]) <= Len(r[s])
    BY DEF Mixes
  <2> QED BY <2>1, <2>2 DEF Fits
<1>2. ASSUME NEW p \in DOMAIN t.mem \ PagesOf(c)
      PROVE  In(r, p, c.nor) /\ At(r, p, c.nor) = t.mem[p]
  <2> DEFINE z == SideOf(p, c.nor)
  <2> DEFINE j == Place(p, z)
  <2>1. c.nor \in Nat /\ c.sou \in Nat /\ c.nor + c.sou < Pages
    BY ControlFacts
  <2>2. p \in Page /\ (p < c.nor \/ p >= Pages - c.sou)
    BY DEF Sound, InUse, PatchFor
  <2>3. z \in Side /\ j \in Nat /\ j >= 1
    BY <2>1, <2>2, PlaceFacts
  <2>4. j <= Len(a[z]) /\ a[z][j] = t.mem[p] /\ j <= Len(b[z]) /\ b[z][j] = t.mem[p]
    BY DEF Fits, In, At
  <2> HIDE DEF z, j
  <2>5. j <= Len(r[z]) /\ r[z][j] = a[z][j]
    <3>1. Len(a[z]) \in Nat /\ j \in 1 .. Len(a[z])
      BY <2>3, <2>4
    <3>2. Mixes(r[z], a[z], b[z])
      BY <2>3
    <3> QED BY <2>4, <3>1, <3>2, SMTT(30) DEF Mixes
  <2> QED BY <2>4, <2>5 DEF In, At, z, j
<1> QED BY <1>1, <1>2 DEF Fits

-----------------------------------------------------------------------------
(* The pages of a patch, in order *)

(* The dirty pages in use, listed once each. *)
LEMMA DirtyFacts ==
  ASSUME dit \subseteq Page, wat \in [north : 0 .. Pages, south : 0 .. Pages],
         wat.north + wat.south < Pages
  PROVE  /\ Dirty \in Seq(Page) /\ Len(Dirty) \in Nat /\ Len(Dirty) <= Pages
         /\ \A i \in 1 .. Len(Dirty) : Dirty[i] \in dit \cap InUse(wat)
         /\ \A p \in dit \cap InUse(wat) : \E i \in 1 .. Len(Dirty) : Dirty[i] = p
<1> DEFINE D == dit \cap InUse(wat)
<1> DEFINE R == [p \in D |-> Rank(p)]
<1>1. D \in SUBSET (0 .. Pages - 1) /\ Pages \in Nat /\ Pages > 3
  BY SnapshotAssumption DEF Page
<1>2. IsFiniteSet(0 .. Pages - 1) /\ Cardinality(0 .. Pages - 1) = Pages
  BY <1>1, FS_Interval
<1>3. IsFiniteSet(D) /\ Cardinality(D) <= Pages
  BY <1>1, <1>2, FS_Subset
<1>4. Cardinality(D) \in Nat
  BY <1>3, FS_CardinalityType
<1>5. /\ \A p \in D : Rank(p) \in Nat
      /\ \A p, q \in D : Rank(p) = Rank(q) => p = q
  BY <1>1 DEF Rank, InUse, Page
<1>6. R \in [D -> Nat] /\ \A p, q \in D : R[p] = R[q] => p = q
  BY <1>5
<1> HIDE DEF D
<1>7. PICK s : Lists(s, D, R)
  BY <1>3, <1>6, Listing
<1>8. /\ s \in [1 .. Cardinality(D) -> D] /\ Range(s) = D
      /\ \A i, j \in DOMAIN s : i < j => Rank(s[i]) < Rank(s[j])
  BY <1>7 DEF Lists
<1>9. Dirty \in [1 .. Cardinality(D) -> D] /\ Range(Dirty) = D
  BY <1>8 DEF Dirty, D
<1>10. Dirty \in Seq(Page) /\ Len(Dirty) = Cardinality(D)
  <2>1. D \subseteq Page
    BY DEF D, InUse
  <2>2. Dirty \in [1 .. Cardinality(D) -> Page]
    BY <1>9, <2>1
  <2> HIDE DEF Dirty
  <2> DEFINE n == Cardinality(D)
  <2>3. n \in Nat /\ Dirty \in [1 .. n -> Page]
    BY <2>2, <1>4
  <2> HIDE DEF n
  <2>4. Dirty \in Seq(Page) /\ Len(Dirty) = n
    BY <2>3
  <2> QED BY <2>4 DEF n
<1> QED BY <1>3, <1>4, <1>9, <1>10 DEF D, Range

-----------------------------------------------------------------------------
(* Types, and the home road *)

(* A page of zeroes, a torn one and a short one are of no road. *)
LEMMA JunkHomes ==
  ASSUME NEW p
  PROVE  HomeOnly(p, Zero) /\ HomeOnly(p, Torn) /\ HomeOnly(p, Short)
BY SnapshotAssumption DEF HomeOnly, Page

(* What the process sees and what is on the disk, as files. *)
LEMMA ImageTypes ==
  ASSUME SnapTypeOK
  PROVE  /\ Now \in [Side -> Seq(Value)] /\ Syn \in [Side -> Seq(Value)]
         /\ \A s \in Side : Now[s] = img[s].now /\ Syn[s] = img[s].syn
         /\ \A s \in Side : /\ Len(Now[s]) \in Nat /\ Len(Now[s]) <= Pages
                            /\ Len(Syn[s]) \in Nat /\ Len(Syn[s]) <= Pages
<1>1. \A s \in Side : Now[s] = img[s].now /\ Syn[s] = img[s].syn
  BY DEF Now, Syn
<1>2. \A s \in Side : img[s].now \in Seq(Value) /\ img[s].syn \in Seq(Value)
  BY DEF SnapTypeOK
<1>3. Now \in [Side -> Seq(Value)] /\ Syn \in [Side -> Seq(Value)]
  BY <1>1, <1>2 DEF Now, Syn
<1>4. \A s \in Side : Len(img[s].now) <= Pages /\ Len(img[s].syn) <= Pages
  BY DEF SnapTypeOK
<1> HIDE DEF Now, Syn
<1>5. ASSUME NEW s \in Side
      PROVE  /\ Len(Now[s]) \in Nat /\ Len(Now[s]) <= Pages
             /\ Len(Syn[s]) \in Nat /\ Len(Syn[s]) <= Pages
  BY <1>1, <1>2, <1>4
<1> QED BY <1>1, <1>3, <1>5

(* A page of a patch, written in its place, leaves the home road alone. *)
LEMMA WrittenHomes ==
  ASSUME NEW q \in [Side -> Seq(Value)], Homes(q), NEW n \in Nat, NEW m \in Nat,
         n + m < Pages, NEW p \in Page, p < n \/ p >= Pages - m,
         NEW x \in Value, HomeOnly(p, x), \A s \in Side : Len(q[s]) <= Pages
  PROVE  /\ Homes(Written(q, p, n, x))
         /\ \A s \in Side : Len(Written(q, p, n, x)[s]) <= Pages
<1> DEFINE s == SideOf(p, n)
           k == Place(p, s)
           w == Written(q, p, n, x)
<1>1. s \in Side /\ k \in Nat /\ k >= 1 /\ k <= Pages /\ q[s] \in Seq(Value)
  <2>1. s \in Side /\ k \in Nat /\ k >= 1 /\ k <= IF s = "north" THEN n ELSE m
    BY PlaceFacts
  <2> QED BY <2>1, SnapshotAssumption
<1>2. w[s] = Put(q[s], k, x) /\ \A z \in Side : z # s => w[z] = q[z]
  BY <1>1 DEF Written
<1> HIDE DEF w
<1>3. ASSUME NEW z \in Side, NEW r \in Page, Place(r, z) <= Len(w[z])
      PROVE  HomeOnly(r, w[z][Place(r, z)])
  <2>1. CASE z # s
    BY <2>1, <1>2, <1>3 DEF Homes
  <2>2. CASE z = s /\ r = p
    BY <2>2, <1>1, <1>2, PutFacts, SMTT(30)
  <2>3. CASE z = s /\ r # p
    <3> DEFINE j == Place(r, s)
    <3>1. j \in Nat /\ j >= 1 /\ j # k
      BY <2>3, <1>1, SnapshotAssumption DEF Place, Page, Side
    <3>2. j \in 1 .. Len(Put(q[s], k, x)) /\ Len(q[s]) \in Nat
      BY <3>1, <2>3, <1>1, <1>2, <1>3, PutFacts
    <3> HIDE DEF j, s, k
    <3>3. CASE j <= Len(q[s])
      <4>1. Put(q[s], k, x)[j] = q[s][j]
        BY <3>1, <3>3, <1>1, PutFacts
      <4>2. HomeOnly(r, q[s][j])
        BY <3>3, <1>1 DEF Homes, j
      <4> QED BY <4>1, <4>2, <2>3, <1>2 DEF j
    <3>4. CASE ~(j <= Len(q[s]))
      <4>1. Put(q[s], k, x)[j] = Zero
        BY <3>1, <3>2, <3>4, <1>1 DEF Put
      <4> QED BY <4>1, <2>3, <1>2, JunkHomes DEF j
    <3> QED BY <3>3, <3>4
  <2> QED BY <2>1, <2>2, <2>3
<1>4. ASSUME NEW z \in Side PROVE Len(w[z]) <= Pages
  <2>1. CASE z # s
    BY <2>1, <1>2
  <2>2. CASE z = s
    <3>1. Len(w[s]) = IF k > Len(q[s]) THEN k ELSE Len(q[s])
      BY <1>1, <1>2, PutFacts
    <3> QED BY <2>2, <3>1, <1>1
  <2> QED BY <2>1, <2>2
<1>5. Homes(w)
  BY <1>3 DEF Homes
<1> QED BY <1>4, <1>5 DEF w

(* So does cutting an image. *)
LEMMA CutHomes ==
  ASSUME NEW q \in [Side -> Seq(Value)], Homes(q), NEW z \in Side, NEW n \in Nat
  PROVE  Homes([q EXCEPT ![z] = Cut(@, n)])
<1> DEFINE w == [q EXCEPT ![z] = Cut(q[z], n)]
<1>1. \A s \in Side : w[s] = q[s] \/ w[s] = Cut(q[s], n)
  OBVIOUS
<1> HIDE DEF w
<1>2. ASSUME NEW s \in Side, NEW p \in Page, Place(p, s) <= Len(w[s])
      PROVE  HomeOnly(p, w[s][Place(p, s)])
  <2>1. CASE w[s] = q[s]
    BY <2>1, <1>2 DEF Homes
  <2>2. CASE w[s] = Cut(q[s], n)
    <3>1. q[s] \in Seq(Value) /\ Place(p, s) \in Nat /\ Place(p, s) >= 1
      BY SnapshotAssumption DEF Place, Page, Side
    <3>2. Place(p, s) \in 1 .. Len(Cut(q[s], n))
      BY <3>1, <2>2, <1>2, CutFacts
    <3>3. Place(p, s) \in 1 .. Len(q[s]) /\ w[s][Place(p, s)] = q[s][Place(p, s)]
      BY <3>1, <3>2, <2>2, CutFacts
    <3> QED BY <3>3 DEF Homes
  <2> QED BY <2>1, <2>2, <1>1
<1> QED BY <1>2 DEF w, Homes

(* And so does a loss of power. *)
LEMMA SurvivorHomes ==
  ASSUME SnapTypeOK, Homes(Now), Homes(Syn), NEW r \in [Side -> Seq(Value)],
         \A s \in Side : r[s] \in Survivors(img[s])
  PROVE  Homes(r) /\ \A s \in Side : Len(r[s]) <= Pages
<1>1. \A s \in Side : img[s] \in [now : Seq(Value), syn : Seq(Value)]
  BY DEF SnapTypeOK
<1>2. ASSUME NEW s \in Side, NEW p \in Page, Place(p, s) <= Len(r[s])
      PROVE  HomeOnly(p, r[s][Place(p, s)])
  <2> DEFINE j == Place(p, s)
  <2>1. j \in Nat /\ j >= 1 /\ Len(r[s]) \in Nat
    BY SnapshotAssumption DEF Place, Page, Side
  <2>2. \/ r[s][j] \in {Zero, Torn}
        \/ j <= Len(Now[s]) /\ r[s][j] = Now[s][j]
        \/ j <= Len(Syn[s]) /\ r[s][j] = Syn[s][j]
    <3>1. j \in 1 .. Len(r[s]) /\ r[s] \in Survivors(img[s])
      BY <1>2, <2>1
    <3>2. \/ r[s][j] \in {Zero, Torn}
          \/ j <= Len(img[s].now) /\ r[s][j] = img[s].now[j]
          \/ j <= Len(img[s].syn) /\ r[s][j] = img[s].syn[j]
      BY <1>1, <3>1, SurvivorFacts
    <3>3. Now[s] = img[s].now /\ Syn[s] = img[s].syn
      BY ImageTypes
    <3> HIDE DEF j
    <3> QED BY <3>2, <3>3
  <2> QED BY <2>2, JunkHomes DEF Homes
<1>3. ASSUME NEW s \in Side PROVE Len(r[s]) <= Pages
  <2>1. Len(r[s]) <= Len(Now[s]) \/ Len(r[s]) <= Len(Syn[s])
    BY <1>1, SurvivorFacts, ImageTypes
  <2> QED BY <2>1, ImageTypes, SnapshotAssumption
<1> QED BY <1>2, <1>3 DEF Homes

-----------------------------------------------------------------------------
(* BaseInv is inductive *)

(* Nothing is saved at first, and there are no files. *)
LEMMA InitBase == Init => BaseInv
<1> SUFFICES ASSUME Init PROVE BaseInv
  OBVIOUS
<1>1. Now = [s \in Side |-> <<>>] /\ Syn = [s \in Side |-> <<>>]
  BY DEF Init, Now, Syn, Synced
<1>2. Empty = [wat |-> [north |-> 0, south |-> 0], mem |-> [p \in {} |-> [x \in {} |-> Zero][p]]]
  BY DEF Empty, Content
<1>3. SnapTypeOK
  <2>1. <<>> \in Seq(Value) /\ Len(<<>>) = 0 /\ <<>> \in Seq(Lines)
    OBVIOUS
  <2>2. NoControl \in Controls /\ Len(NoControl.mem) = 0
    BY <2>1 DEF NoControl, Controls
  <2>3. Zero \in Value
    BY DEF Value
  <2> QED BY <2>1, <2>2, <2>3, SnapshotAssumption DEF Init, SnapTypeOK, Synced
<1>4. HomesInv
  <2>1. \A s \in Side : \A p \in Page : ~(Place(p, s) <= Len(<<>>))
    BY SnapshotAssumption DEF Place, Side, Page
  <2>2. Homes(Now) /\ Homes(Syn)
    BY <1>1, <2>1 DEF Homes
  <2> QED BY <2>2, JunkHomes DEF HomesInv, Init
<1>5. ControlsInv
  BY SnapshotAssumption DEF Init, ControlsInv, Synced, Saving, Applying
<1>6. ContentsInv
  <2>1. Sound(Empty)
    BY <1>2, SnapshotAssumption DEF Sound
  <2> QED BY <2>1 DEF Init, ContentsInv
<1> QED BY <1>3, <1>4, <1>5, <1>6 DEF BaseInv

(* The steps that change neither the loom nor the images keep the homes. *)
LEMMA SameHomes ==
  ASSUME HomesInv, UNCHANGED <<loom, img>>
  PROVE  HomesInv'
BY DEF HomesInv, Homes, Now, Syn

(* u3e_foul() *)
LEMMA FoulBase == BaseInv /\ Foul => BaseInv'
<1> SUFFICES ASSUME BaseInv, Foul PROVE BaseInv'
  OBVIOUS
<1>1. SnapTypeOK'
  BY DEF BaseInv, SnapTypeOK, Foul
<1>2. HomesInv'
  BY SameHomes DEF BaseInv, Foul
<1>3. ControlsInv'
  BY DEF BaseInv, ControlsInv, Foul
<1>4. ContentsInv'
  <2>1. Pages - 1 \in Page
    BY SnapshotAssumption DEF Page
  <2> QED BY <2>1 DEF BaseInv, ContentsInv, Foul
<1> QED BY <1>1, <1>2, <1>3, <1>4 DEF BaseInv

(* _ce_patch_create() of memory.bin *)
LEMMA CreateMemoryBase == BaseInv /\ CreateMemory => BaseInv'
<1> SUFFICES ASSUME BaseInv, CreateMemory PROVE BaseInv'
  OBVIOUS
<1>0. <<>> \in Seq(Value)
  OBVIOUS
<1>1. SnapTypeOK'
  BY <1>0, ZenonT(60) DEF BaseInv, SnapTypeOK, CreateMemory, Write
<1>2. HomesInv'
  BY SameHomes DEF BaseInv, CreateMemory
<1>3. ControlsInv'
  <2>1. mem'.now = <<>> \/ pc' = "down"
    BY DEF BaseInv, SnapTypeOK, CreateMemory, Write
  <2> QED BY <1>0, <2>1 DEF BaseInv, ControlsInv, CreateMemory, Saving, Applying
<1>4. ContentsInv'
  BY DEF BaseInv, ContentsInv, CreateMemory
<1> QED BY <1>1, <1>2, <1>3, <1>4 DEF BaseInv

(* The page that is saved next. *)
LEMMA SavedPage ==
  ASSUME SnapTypeOK, ControlsInv, SavePage
  PROVE  /\ pat.con.mem[pat.done + 1].pag \in Page
         /\ pat.done \in Nat /\ pat.done + 1 <= Len(pat.con.mem)
<1>1. pc = "pages" /\ pat.done < Len(pat.con.mem)
  BY DEF SavePage
<1>2. WellFormed(pat.con)
  BY <1>1 DEF ControlsInv, Saving
<1>3. /\ Len(pat.con.mem) \in Nat
      /\ \A i \in 1 .. Len(pat.con.mem) : pat.con.mem[i].pag \in Page
  BY <1>2, ControlFacts
<1>4. pat.done \in Nat
  BY DEF SnapTypeOK
<1>5. pat.done + 1 \in 1 .. Len(pat.con.mem)
  BY <1>1, <1>3, <1>4
<1> QED BY <1>3, <1>4, <1>5

(* _ce_patch_save_page() *)
LEMMA SavePageBase == BaseInv /\ SavePage => BaseInv'
<1> SUFFICES ASSUME BaseInv, SavePage PROVE BaseInv'
  OBVIOUS
<1> DEFINE p == pat.con.mem[pat.done + 1].pag
<1>1. p \in Page /\ pat.done \in Nat /\ pat.done + 1 <= Len(pat.con.mem)
  BY SavedPage DEF BaseInv
<1>2. mem.now \in Seq(Value) /\ mem' = [mem EXCEPT !.now = Append(mem.now, loom[p])]
  BY DEF BaseInv, ControlsInv, SavePage, Write
<1> HIDE DEF p
<1>3. Append(mem.now, loom[p]) \in Seq(Value)
  <2>1. loom[p] \in Value
    BY <1>1 DEF BaseInv, SnapTypeOK
  <2> QED BY <1>2, <2>1
<1>a. /\ pat' \in [con : Controls, done : Nat, rec : BOOLEAN]
      /\ pat'.con = pat.con /\ pat'.done = pat.done + 1 /\ pat'.rec = pat.rec
  <2>1. pat \in [con : Controls, done : Nat, rec : BOOLEAN]
    BY DEF BaseInv, SnapTypeOK
  <2>2. pat' = [pat EXCEPT !.done = pat.done + 1]
    BY DEF SavePage
  <2>3. pat.done + 1 \in Nat
    BY <1>1
  <2> QED BY <2>1, <2>2, <2>3
<1>4. mem' \in [now : Seq(Value) \cup {None}, syn : Seq(Value) \cup {None}] /\ mem'.now \in Seq(Value)
  BY <1>2, <1>3, ZenonT(60) DEF BaseInv, SnapTypeOK
<1>5. SnapTypeOK'
  BY <1>1, <1>4, <1>a, ZenonT(60) DEF BaseInv, SnapTypeOK, SavePage
<1>6. HomesInv'
  BY SameHomes, SMTT(30) DEF BaseInv, SavePage
<1>7. ControlsInv'
  <2>1. /\ pc = "pages" /\ pc' = pc /\ ctl' = ctl /\ cnt' = cnt /\ loom' = loom
        /\ pat'.con = pat.con /\ pat'.rec = pat.rec
    BY <1>a DEF SavePage
  <2>2. ControlsInv
    BY DEF BaseInv
  <2>3. /\ \A c \in {ctl'.now, ctl'.syn} \cap Controls : WellFormed(c) /\ HomeBy(c, cnt'.run)
        /\ pc' \in Saving => /\ WellFormed(pat'.con) /\ HomeBy(pat'.con, cnt'.run)
                             /\ ~pat'.rec
    BY <2>1, <2>2 DEF ControlsInv
  <2>4. /\ ctl'.now = Partial /\ loom'[Pages - 1] = <<Pages - 1, cnt'.run>> /\ cnt'.run > 0
        /\ ctl'.syn \in Controls => HomeBy(ctl'.syn, cnt'.run - 1)
    BY <2>1, <2>2, SMTT(30) DEF ControlsInv
  <2> QED BY <1>4, <2>1, <2>3, <2>4 DEF ControlsInv, Applying
<1>8. ContentsInv'
  BY DEF BaseInv, ContentsInv, SavePage
<1> QED BY <1>5, <1>6, <1>7, <1>8 DEF BaseInv

(* _ce_patch_write_control() *)
LEMMA WriteControlBase == BaseInv /\ WriteControl => BaseInv'
<1> SUFFICES ASSUME BaseInv, WriteControl PROVE BaseInv'
  OBVIOUS
<1>1. /\ ctl'.now = pat.con /\ ctl'.syn = ctl.syn /\ pat.con \in Controls
      /\ ctl' \in [now : Controls \cup {None, Partial}, syn : Controls \cup {None, Partial}]
  BY DEF BaseInv, SnapTypeOK, WriteControl, Write
<1>2. SnapTypeOK'
  BY <1>1 DEF BaseInv, SnapTypeOK, WriteControl
<1>3. HomesInv'
  BY SameHomes DEF BaseInv, WriteControl
<1>4. ControlsInv'
  BY <1>1 DEF BaseInv, ControlsInv, WriteControl, Saving, Applying
<1>5. ContentsInv'
  BY DEF BaseInv, ContentsInv, WriteControl
<1> QED BY <1>2, <1>3, <1>4, <1>5 DEF BaseInv

(* _ce_patch_sync() *)
LEMMA SyncControlBase == BaseInv /\ SyncControl => BaseInv'
<1> SUFFICES ASSUME BaseInv, SyncControl PROVE BaseInv'
  OBVIOUS
<1>1. /\ ctl'.now = ctl.now /\ ctl'.syn = ctl.now
      /\ ctl' \in [now : Controls \cup {None, Partial}, syn : Controls \cup {None, Partial}]
  BY DEF BaseInv, SnapTypeOK, SyncControl, Sync
<1>2. SnapTypeOK'
  BY <1>1 DEF BaseInv, SnapTypeOK, SyncControl
<1>3. HomesInv'
  BY SameHomes DEF BaseInv, SyncControl
<1>4. ControlsInv'
  BY <1>1 DEF BaseInv, ControlsInv, SyncControl, Saving, Applying
<1>5. ContentsInv'
  BY DEF BaseInv, ContentsInv, SyncControl
<1> QED BY <1>2, <1>3, <1>4, <1>5 DEF BaseInv

(* The sync of the pages, and _ce_patch_verify() *)
LEMMA SyncMemoryBase == BaseInv /\ SyncMemory => BaseInv'
<1> SUFFICES ASSUME BaseInv, SyncMemory PROVE BaseInv'
  OBVIOUS
<1>1. /\ mem'.now = mem.now /\ mem'.syn = mem.now
      /\ mem' \in [now : Seq(Value) \cup {None}, syn : Seq(Value) \cup {None}]
  BY DEF BaseInv, SnapTypeOK, SyncMemory, Sync
<1>2. SnapTypeOK'
  BY <1>1 DEF BaseInv, SnapTypeOK, SyncMemory
<1>3. HomesInv'
  BY SameHomes DEF BaseInv, SyncMemory
<1>4. ControlsInv'
  <2>1. pat.con \in Controls
    BY DEF BaseInv, SnapTypeOK
  <2> QED BY <1>1, <2>1 DEF BaseInv, ControlsInv, SyncMemory, Saving, Applying, Valid
<1>5. ContentsInv'
  BY DEF BaseInv, ContentsInv, SyncMemory
<1> QED BY <1>2, <1>3, <1>4, <1>5 DEF BaseInv

(* The images after a page of the patch, or part of one, is written. *)
LEMMA AppliedFacts ==
  ASSUME SnapTypeOK, HomesInv, WellFormed(pat.con), NEW i \in 1 .. Len(pat.con.mem),
         NEW x \in Value, HomeOnly(pat.con.mem[i].pag, x), img' = Applied(i, x)
  PROVE  /\ img' \in [Side -> [now : Seq(Value), syn : Seq(Value)]]
         /\ \A s \in Side : Len(img'[s].now) <= Pages /\ Len(img'[s].syn) <= Pages
         /\ Now' = Written(Now, pat.con.mem[i].pag, pat.con.nor, x)
         /\ Syn' = Syn /\ Homes(Now') /\ Homes(Syn')
<1> DEFINE p == pat.con.mem[i].pag
           n == pat.con.nor
           s == SideOf(p, n)
           k == Place(p, s)
<1>1. /\ n \in Nat /\ pat.con.sou \in Nat /\ n + pat.con.sou < Pages
      /\ p \in Page /\ (p < n \/ p >= Pages - pat.con.sou)
  BY ControlFacts
<1>2. s \in Side /\ k \in Nat /\ k >= 1
  BY <1>1, PlaceFacts, SMTT(30)
<1>3. img \in [Side -> [now : Seq(Value), syn : Seq(Value)]]
  BY DEF SnapTypeOK
<1>4. img' = [img EXCEPT ![s] = [img[s] EXCEPT !.now = Put(img[s].now, k, x)]]
  BY DEF Applied, Write
<1>5. Now \in [Side -> Seq(Value)] /\ (\A z \in Side : Now[z] = img[z].now /\ Len(Now[z]) <= Pages)
      /\ \A z \in Side : Syn[z] = img[z].syn /\ Len(Syn[z]) <= Pages
  BY ImageTypes
<1>6. Put(img[s].now, k, x) \in Seq(Value)
  BY <1>2, <1>3, PutFacts
<1> HIDE DEF p, n, s, k
<1>7. /\ img'[s] = [now |-> Put(img[s].now, k, x), syn |-> img[s].syn]
      /\ \A z \in Side : z # s => img'[z] = img[z]
      /\ img' \in [Side -> [now : Seq(Value), syn : Seq(Value)]]
  <2>1. img[s] \in [now : Seq(Value), syn : Seq(Value)]
    BY <1>2, <1>3
  <2>2. [img[s] EXCEPT !.now = Put(img[s].now, k, x)]
          = [now |-> Put(img[s].now, k, x), syn |-> img[s].syn]
    BY <2>1
  <2>3. [now |-> Put(img[s].now, k, x), syn |-> img[s].syn] \in [now : Seq(Value), syn : Seq(Value)]
    BY <2>1, <1>6
  <2> QED BY <2>2, <2>3, <1>2, <1>3, <1>4
<1>8. Syn' = Syn
  <2>1. ASSUME NEW z \in Side PROVE img'[z].syn = img[z].syn
    <3>1. CASE z = s
      BY <3>1, <1>7
    <3>2. CASE z # s
      BY <3>2, <1>7
    <3> QED BY <3>1, <3>2
  <2> QED BY <2>1 DEF Syn
<1>9. Now' = Written(Now, p, n, x)
  <2>1. Written(Now, p, n, x) = [Now EXCEPT ![s] = Put(Now[s], k, x)]
    BY DEF Written, s, k
  <2>2. Now' = [z \in Side |-> img'[z].now]
    BY DEF Now
  <2>3. \A z \in Side : img'[z].now = [Now EXCEPT ![s] = Put(Now[s], k, x)][z]
    BY <1>2, <1>5, <1>7
  <2> QED BY <2>1, <2>2, <2>3, <1>5
<1>10. Homes(Written(Now, p, n, x)) /\ \A z \in Side : Len(Written(Now, p, n, x)[z]) <= Pages
  BY <1>1, <1>5, WrittenHomes DEF HomesInv, p
<1>11. \A z \in Side : img'[z].now = Now'[z] /\ img'[z].syn = Syn'[z]
  BY DEF Now, Syn
<1>12. \A z \in Side : Len(img'[z].now) <= Pages /\ Len(img'[z].syn) <= Pages
  BY <1>5, <1>8, <1>9, <1>10, <1>11
<1>13. Homes(Now') /\ Homes(Syn')
  BY <1>8, <1>9, <1>10 DEF HomesInv
<1> QED BY <1>7, <1>8, <1>9, <1>12, <1>13 DEF p, n

(* The images after one of them is cut. *)
LEMMA ResizedFacts ==
  ASSUME SnapTypeOK, HomesInv, NEW z \in Side, NEW n \in Nat,
         img' = [img EXCEPT ![z] = Resized(@, n)]
  PROVE  /\ img' \in [Side -> [now : Seq(Value), syn : Seq(Value)]]
         /\ \A s \in Side : Len(img'[s].now) <= Pages /\ Len(img'[s].syn) <= Pages
         /\ Now' = [Now EXCEPT ![z] = Cut(@, n)]
         /\ Syn' = Syn /\ Homes(Now') /\ Homes(Syn')
<1>1. img \in [Side -> [now : Seq(Value), syn : Seq(Value)]]
  BY DEF SnapTypeOK
<1>2. /\ Now \in [Side -> Seq(Value)]
      /\ \A s \in Side : Now[s] = img[s].now /\ Syn[s] = img[s].syn
      /\ \A s \in Side : Len(Now[s]) \in Nat /\ Len(Now[s]) <= Pages /\ Len(Syn[s]) <= Pages
  BY ImageTypes
<1>3. img[z] \in [now : Seq(Value), syn : Seq(Value)] /\ img[z].now \in Seq(Value)
  BY <1>1
<1>4. Resized(img[z], n) = [now |-> Cut(img[z].now, n), syn |-> img[z].syn]
  BY <1>3 DEF Resized, Write, Cut
<1>5. /\ Cut(img[z].now, n) \in Seq(Value)
      /\ Len(Cut(img[z].now, n)) \in Nat /\ Len(Cut(img[z].now, n)) <= Len(img[z].now)
  BY <1>3, CutFacts
<1>6. [now |-> Cut(img[z].now, n), syn |-> img[z].syn] \in [now : Seq(Value), syn : Seq(Value)]
  BY <1>3, <1>5
<1>7. /\ img'[z] = [now |-> Cut(img[z].now, n), syn |-> img[z].syn]
      /\ \A s \in Side : s # z => img'[s] = img[s]
      /\ img' \in [Side -> [now : Seq(Value), syn : Seq(Value)]]
  BY <1>1, <1>4, <1>6
<1>8. Syn' = Syn
  BY <1>7 DEF Syn
<1>9. Now' = [Now EXCEPT ![z] = Cut(Now[z], n)]
  <2>1. Now' = [s \in Side |-> img'[s].now]
    BY DEF Now
  <2>2. \A s \in Side : img'[s].now = [Now EXCEPT ![z] = Cut(Now[z], n)][s]
    BY <1>2, <1>7
  <2> QED BY <2>1, <2>2, <1>2
<1>10. Homes(Now') /\ Homes(Syn')
  BY <1>2, <1>8, <1>9, CutHomes DEF HomesInv
<1>11. ASSUME NEW s \in Side
       PROVE  Len(img'[s].now) <= Pages /\ Len(img'[s].syn) <= Pages
  <2>1. CASE s = z
    <3>1. img'[s].now = Cut(img[z].now, n) /\ img'[s].syn = Syn[z] /\ img[z].now = Now[z]
      BY <2>1, <1>2, <1>7
    <3> QED BY <3>1, <1>2, <1>5, SnapshotAssumption, SMTT(30)
  <2>2. CASE s # z
    BY <2>2, <1>2, <1>7
  <2> QED BY <2>1, <2>2
<1> QED BY <1>7, <1>8, <1>9, <1>10, <1>11

(* The images after one of them is synced. *)
LEMMA SyncedFacts ==
  ASSUME SnapTypeOK, HomesInv, NEW z \in Side, img' = [img EXCEPT ![z] = Sync(@)]
  PROVE  /\ img' \in [Side -> [now : Seq(Value), syn : Seq(Value)]]
         /\ \A s \in Side : Len(img'[s].now) <= Pages /\ Len(img'[s].syn) <= Pages
         /\ Now' = Now /\ Syn' = [Syn EXCEPT ![z] = Now[z]]
         /\ Homes(Now') /\ Homes(Syn')
<1>1. img \in [Side -> [now : Seq(Value), syn : Seq(Value)]]
  BY DEF SnapTypeOK
<1>2. /\ Now \in [Side -> Seq(Value)] /\ Syn \in [Side -> Seq(Value)]
      /\ \A s \in Side : Now[s] = img[s].now /\ Syn[s] = img[s].syn
      /\ \A s \in Side : Len(Now[s]) <= Pages /\ Len(Syn[s]) <= Pages
  BY ImageTypes
<1>3. img[z] \in [now : Seq(Value), syn : Seq(Value)]
  BY <1>1
<1>4. Sync(img[z]) = [now |-> img[z].now, syn |-> img[z].now]
  BY <1>3, SMTT(30) DEF Sync
<1>5. /\ img'[z] = [now |-> img[z].now, syn |-> img[z].now]
      /\ \A s \in Side : s # z => img'[s] = img[s]
      /\ img' \in [Side -> [now : Seq(Value), syn : Seq(Value)]]
  BY <1>1, <1>3, <1>4
<1>6. Now' = Now
  BY <1>5 DEF Now
<1>7. Syn' = [Syn EXCEPT ![z] = Now[z]]
  <2>1. Syn' = [s \in Side |-> img'[s].syn]
    BY DEF Syn
  <2>2. \A s \in Side : img'[s].syn = [Syn EXCEPT ![z] = Now[z]][s]
    BY <1>2, <1>5
  <2> QED BY <2>1, <2>2, <1>2
<1>8. \A s \in Side : Syn'[s] = Syn[s] \/ Syn'[s] = Now[s]
  BY <1>2, <1>7
<1>9. Homes(Now') /\ Homes(Syn')
  BY <1>6, <1>8 DEF HomesInv, Homes
<1>10. \A s \in Side : Len(img'[s].now) <= Pages /\ Len(img'[s].syn) <= Pages
  BY <1>2, <1>5
<1> QED BY <1>5, <1>6, <1>7, <1>9, <1>10

(* _ce_image_resize() *)
LEMMA ResizeBase == BaseInv /\ Resize => BaseInv'
<1> SUFFICES ASSUME BaseInv, Resize PROVE BaseInv'
  OBVIOUS
<1>0. WellFormed(pat.con) /\ pat.con.nor \in Nat /\ pat.con.sou \in Nat
  <2>1. pc \in Applying
    BY DEF Resize, Applying
  <2>2. WellFormed(pat.con)
    BY <2>1 DEF BaseInv, ControlsInv, Valid
  <2> QED BY <2>2, ControlFacts
<1>1. /\ img' \in [Side -> [now : Seq(Value), syn : Seq(Value)]]
      /\ \A s \in Side : Len(img'[s].now) <= Pages /\ Len(img'[s].syn) <= Pages
      /\ Homes(Now') /\ Homes(Syn')
  <2>1. "north" \in Side /\ "south" \in Side
    BY DEF Side
  <2>2. CASE img' = [img EXCEPT !["north"] = Resized(@, pat.con.nor)]
    BY <2>1, <2>2, <1>0, ResizedFacts DEF BaseInv
  <2>3. CASE img' = [img EXCEPT !["south"] = Resized(@, pat.con.sou)]
    BY <2>1, <2>3, <1>0, ResizedFacts DEF BaseInv
  <2> QED BY <2>2, <2>3 DEF Resize
<1>2. /\ pat' \in [con : Controls, done : Nat, rec : BOOLEAN]
      /\ pat'.con = pat.con /\ pat'.done <= Len(pat.con.mem)
  <2>1. pat \in [con : Controls, done : Nat, rec : BOOLEAN] /\ pat.done <= Len(pat.con.mem)
    BY DEF BaseInv, SnapTypeOK
  <2>2. pat' = pat \/ pat' = [pat EXCEPT !.done = 0]
    BY DEF Resize
  <2>3. 0 <= Len(pat.con.mem)
    BY <1>0, ControlFacts
  <2> QED BY <2>1, <2>2, <2>3
<1>3. SnapTypeOK'
  BY <1>1, <1>2, ZenonT(60) DEF BaseInv, SnapTypeOK, Resize
<1>4. HomesInv'
  BY <1>1 DEF BaseInv, HomesInv, Resize
<1>5. ControlsInv'
  BY <1>2 DEF BaseInv, ControlsInv, Resize, Saving, Applying
<1>6. ContentsInv'
  BY DEF BaseInv, ContentsInv, Resize
<1> QED BY <1>3, <1>4, <1>5, <1>6 DEF BaseInv

(* The loop of _ce_patch_apply() *)
LEMMA ApplyBase == BaseInv /\ Apply => BaseInv'
<1> SUFFICES ASSUME BaseInv, Apply PROVE BaseInv'
  OBVIOUS
<1> DEFINE i == pat.done + 1
<1>0. WellFormed(pat.con) /\ Verify(pat.con, mem.now) /\ mem.now \in Seq(Value)
  BY DEF BaseInv, ControlsInv, Apply, Applying, Valid
<1>1. i \in 1 .. Len(pat.con.mem) /\ pat.done \in Nat /\ Len(pat.con.mem) \in Nat
  BY <1>0, ControlFacts, SMTT(30) DEF BaseInv, SnapTypeOK, Apply
<1>2. mem.now[i] = pat.con.mem[i].mug
  BY <1>0, <1>1, SMTT(30) DEF Verify
<1>3. mem.now[i] \in Value /\ HomeOnly(pat.con.mem[i].pag, mem.now[i])
  BY <1>0, <1>1, <1>2, ControlFacts DEF WellFormed
<1>4. img' = Applied(i, mem.now[i])
  BY DEF Apply
<1> HIDE DEF i
<1>5. /\ img' \in [Side -> [now : Seq(Value), syn : Seq(Value)]]
      /\ \A s \in Side : Len(img'[s].now) <= Pages /\ Len(img'[s].syn) <= Pages
      /\ Homes(Now') /\ Homes(Syn')
  BY <1>0, <1>1, <1>3, <1>4, AppliedFacts DEF BaseInv
<1>6. /\ pat' \in [con : Controls, done : Nat, rec : BOOLEAN]
      /\ pat'.con = pat.con /\ pat'.done <= Len(pat.con.mem)
  <2>1. pat \in [con : Controls, done : Nat, rec : BOOLEAN]
    BY DEF BaseInv, SnapTypeOK
  <2>2. pat' = [pat EXCEPT !.done = i] /\ i \in Nat /\ i <= Len(pat.con.mem)
    BY <1>1, SMTT(30) DEF Apply, i
  <2> QED BY <2>1, <2>2
<1>7. SnapTypeOK'
  BY <1>5, <1>6, SMTT(30) DEF BaseInv, SnapTypeOK, Apply
<1>8. HomesInv'
  BY <1>5 DEF BaseInv, HomesInv, Apply
<1>9. ControlsInv'
  BY <1>6 DEF BaseInv, ControlsInv, Apply, Saving, Applying
<1>10. ContentsInv'
  BY DEF BaseInv, ContentsInv, Apply
<1> QED BY <1>7, <1>8, <1>9, <1>10 DEF BaseInv

(* _ce_image_sync() *)
LEMMA SyncImageBase == BaseInv /\ (SyncNorth \/ SyncSouth) => BaseInv'
<1> SUFFICES ASSUME BaseInv, SyncNorth \/ SyncSouth PROVE BaseInv'
  OBVIOUS
<1>1. /\ img' \in [Side -> [now : Seq(Value), syn : Seq(Value)]]
      /\ \A s \in Side : Len(img'[s].now) <= Pages /\ Len(img'[s].syn) <= Pages
      /\ Homes(Now') /\ Homes(Syn')
  <2>1. "north" \in Side /\ "south" \in Side
    BY DEF Side
  <2> QED BY <2>1, SyncedFacts DEF BaseInv, SyncNorth, SyncSouth
<1>2. SnapTypeOK'
  BY <1>1, ZenonT(60) DEF BaseInv, SnapTypeOK, SyncNorth, SyncSouth
<1>3. HomesInv'
  BY <1>1 DEF BaseInv, HomesInv, SyncNorth, SyncSouth
<1>4. ControlsInv'
  BY DEF BaseInv, ControlsInv, SyncNorth, SyncSouth, Saving, Applying
<1>5. ContentsInv'
  BY DEF BaseInv, ContentsInv, SyncNorth, SyncSouth
<1> QED BY <1>2, <1>3, <1>4, <1>5 DEF BaseInv

(* _ce_patch_delete() *)
LEMMA DeleteControlBase == BaseInv /\ DeleteControl => BaseInv'
<1> SUFFICES ASSUME BaseInv, DeleteControl PROVE BaseInv'
  OBVIOUS
<1>1. /\ ctl'.now = None /\ ctl'.syn = ctl.syn
      /\ ctl' \in [now : Controls \cup {None, Partial}, syn : Controls \cup {None, Partial}]
  BY DEF BaseInv, SnapTypeOK, DeleteControl, Write
<1>2. SnapTypeOK'
  BY <1>1 DEF BaseInv, SnapTypeOK, DeleteControl
<1>3. HomesInv'
  BY SameHomes DEF BaseInv, DeleteControl
<1>4. ControlsInv'
  <2>1. None \notin Controls
    BY SnapshotAssumption
  <2> QED BY <1>1, <2>1 DEF BaseInv, ControlsInv, DeleteControl, Saving, Applying
<1>5. ContentsInv'
  BY DEF BaseInv, ContentsInv, DeleteControl
<1> QED BY <1>2, <1>3, <1>4, <1>5 DEF BaseInv

(* Nothing saved, in the first place. *)
LEMMA EmptySound == Sound(Empty)
BY SnapshotAssumption DEF Sound, Empty, Content

(* The second unlink *)
LEMMA DeleteMemoryBase == BaseInv /\ DeleteMemory => BaseInv'
<1> SUFFICES ASSUME BaseInv, DeleteMemory PROVE BaseInv'
  OBVIOUS
<1>1. mem' \in [now : Seq(Value) \cup {None}, syn : Seq(Value) \cup {None}]
  BY DEF BaseInv, SnapTypeOK, DeleteMemory, Write
<1>2. SnapTypeOK'
  BY <1>1 DEF BaseInv, SnapTypeOK, DeleteMemory
<1>3. HomesInv'
  BY SameHomes DEF BaseInv, DeleteMemory
<1>4. ControlsInv'
  BY DEF BaseInv, ControlsInv, DeleteMemory, Saving, Applying
<1>5. ContentsInv'
  BY EmptySound DEF BaseInv, ContentsInv, DeleteMemory
<1> QED BY <1>2, <1>3, <1>4, <1>5 DEF BaseInv

(* _ce_image_open() *)
LEMMA OpenBase == BaseInv /\ Open => BaseInv'
<1> SUFFICES ASSUME BaseInv, Open PROVE BaseInv'
  OBVIOUS
<1>1. pc' \in {"corrupt", "patch"} /\ UNCHANGED <<loom, wat, dit, img, ctl, mem, pat, wrt, old, new, cnt>>
  BY DEF Open
<1>2. SnapTypeOK'
  BY <1>1, ZenonT(60) DEF BaseInv, SnapTypeOK
<1>3. HomesInv'
  BY <1>1, SameHomes DEF BaseInv
<1>4. ControlsInv'
  BY <1>1 DEF BaseInv, ControlsInv, Saving, Applying
<1>5. ContentsInv'
  BY <1>1 DEF BaseInv, ContentsInv
<1> QED BY <1>2, <1>3, <1>4, <1>5 DEF BaseInv

(* _ce_patch_open() *)
LEMMA PatchOpenBase == BaseInv /\ PatchOpen => BaseInv'
<1> SUFFICES ASSUME BaseInv, PatchOpen PROVE BaseInv'
  OBVIOUS
<1>1. pat \in [con : Controls, done : Nat, rec : BOOLEAN] /\ pat.done <= Len(pat.con.mem)
      /\ Len(pat.con.mem) <= Pages /\ ctl.now \in Controls \cup {None, Partial}
      /\ mem.now \in Seq(Value) \cup {None}
  BY DEF BaseInv, SnapTypeOK
<1>2. \/ pat' = pat /\ pc' = "blit" /\ ctl.now = None
      \/ pat' = [pat EXCEPT !.rec = TRUE] /\ pc' = "delete control"
      \/ /\ pat' = [con |-> ctl.now, done |-> 0, rec |-> TRUE]
         /\ ctl.now \in Controls /\ mem.now \in Seq(Value)
         /\ pc' \in {"resize north", "delete control"}
         /\ pc' = "resize north" => Verify(ctl.now, mem.now)
  BY <1>1 DEF PatchOpen
<1>3. ctl.now \in Controls => Len(ctl.now.mem) \in Nat /\ Len(ctl.now.mem) <= Pages
  BY ControlFacts DEF BaseInv, ControlsInv
<1>4. /\ pat' \in [con : Controls, done : Nat, rec : BOOLEAN]
      /\ pat'.done <= Len(pat'.con.mem) /\ Len(pat'.con.mem) <= Pages
  <2>1. CASE pat' = pat
    BY <2>1, <1>1
  <2>2. CASE pat' = [pat EXCEPT !.rec = TRUE]
    BY <2>2, <1>1
  <2>3. CASE pat' = [con |-> ctl.now, done |-> 0, rec |-> TRUE] /\ ctl.now \in Controls
    BY <2>3, <1>3
  <2> QED BY <2>1, <2>2, <2>3, <1>2
<1>5. UNCHANGED <<loom, wat, dit, img, ctl, mem, wrt, old, new, cnt>>
  BY DEF PatchOpen
<1>6. pc' \in {"blit", "delete control", "resize north"}
  BY <1>2
<1>7. SnapTypeOK'
  BY <1>4, <1>5, <1>6, ZenonT(60) DEF BaseInv, SnapTypeOK
<1>8. HomesInv'
  BY <1>5, SameHomes DEF BaseInv
<1>9. ControlsInv'
  <2>1. ASSUME pc' = "resize north" PROVE pat'.con = ctl.now /\ Valid(ctl.now, mem.now)
    <3>1. /\ pat' = [con |-> ctl.now, done |-> 0, rec |-> TRUE]
          /\ ctl.now \in Controls /\ mem.now \in Seq(Value) /\ Verify(ctl.now, mem.now)
      BY <2>1, <1>2
    <3> QED BY <3>1 DEF Valid
  <2>2. pc' = "blit" => ctl.now = None
    BY <1>2
  <2> QED BY <2>1, <2>2, <1>5, <1>6 DEF BaseInv, ControlsInv, Saving, Applying
<1>10. ContentsInv'
  BY <1>5, <1>6 DEF BaseInv, ContentsInv
<1> QED BY <1>7, <1>8, <1>9, <1>10 DEF BaseInv

(* What _ce_image_blit() loads. *)
LEMMA LoadedFacts ==
  ASSUME SnapTypeOK
  PROVE  /\ Loaded.wat \in [north : 0 .. Pages, south : 0 .. Pages]
         /\ Loaded.wat.north = Len(Now["north"]) /\ Loaded.wat.south = Len(Now["south"])
         /\ DOMAIN Loaded.mem = InUse(Loaded.wat)
         /\ \A p \in InUse(Loaded.wat) :
              /\ In(Now, p, Loaded.wat.north)
              /\ Loaded.mem[p] = At(Now, p, Loaded.wat.north) /\ Loaded.mem[p] \in Value
<1> DEFINE w == [north |-> Len(img["north"].now), south |-> Len(img["south"].now)]
<1>1. /\ Now \in [Side -> Seq(Value)] /\ "north" \in Side /\ "south" \in Side
      /\ Now["north"] = img["north"].now /\ Now["south"] = img["south"].now
      /\ Len(Now["north"]) \in Nat /\ Len(Now["north"]) <= Pages
      /\ Len(Now["south"]) \in Nat /\ Len(Now["south"]) <= Pages
  BY ImageTypes DEF Side
<1>2. w \in [north : 0 .. Pages, south : 0 .. Pages]
      /\ w.north = Len(Now["north"]) /\ w.south = Len(Now["south"])
  BY <1>1, SnapshotAssumption
<1>3. Loaded = [wat |-> w, mem |-> [p \in InUse(w) |->
                  img[SideOf(p, w.north)].now[Place(p, SideOf(p, w.north))]]]
  BY DEF Loaded
<1> HIDE DEF w
<1>4. /\ Loaded.wat = w /\ DOMAIN Loaded.mem = InUse(w)
      /\ \A p \in InUse(w) : Loaded.mem[p] = img[SideOf(p, w.north)].now[Place(p, SideOf(p, w.north))]
  BY <1>3
<1>5. ASSUME NEW p \in InUse(w)
      PROVE  /\ In(Now, p, w.north)
             /\ Loaded.mem[p] = At(Now, p, w.north) /\ Loaded.mem[p] \in Value
  <2> DEFINE s == SideOf(p, w.north)
             j == Place(p, s)
  <2>1. s \in Side /\ j \in Nat /\ j >= 1 /\ j <= Len(Now[s])
    BY <1>1, <1>2, SnapshotAssumption DEF InUse, SideOf, Side, Place, Page
  <2>2. Loaded.mem[p] = img[s].now[j] /\ img[s].now = Now[s]
    BY <1>4, <2>1, ImageTypes
  <2>3. Now[s] \in Seq(Value)
    BY <2>1, <1>1
  <2> HIDE DEF s, j
  <2>4. Now[s][j] \in Value
    BY <2>1, <2>3
  <2> QED BY <2>1, <2>2, <2>4 DEF In, At, s, j
<1> QED BY <1>2, <1>4, <1>5

(* u3e_live(), the end of it *)
LEMMA BlitBase == BaseInv /\ Blit => BaseInv'
<1> SUFFICES ASSUME BaseInv, Blit PROVE BaseInv'
  OBVIOUS
<1>0. SnapTypeOK
  BY DEF BaseInv
<1>1. CASE TooBig(Loaded.wat)
  <2>1. pc' = "too big" /\ UNCHANGED <<loom, wat, dit, wrt, old, new, img, ctl, mem, pat, cnt>>
    BY <1>1 DEF Blit
  <2>2. SnapTypeOK'
    BY <2>1 DEF BaseInv, SnapTypeOK
  <2>3. HomesInv'
    BY <2>1, SameHomes DEF BaseInv
  <2>4. ControlsInv'
    BY <2>1 DEF BaseInv, ControlsInv, Saving, Applying
  <2>5. ContentsInv'
    BY <2>1 DEF BaseInv, ContentsInv
  <2> QED BY <2>2, <2>3, <2>4, <2>5 DEF BaseInv
<1>2. CASE ~TooBig(Loaded.wat)
  <2>1. /\ wat' = Loaded.wat
        /\ loom' = [p \in Page |-> IF p \in DOMAIN Loaded.mem THEN Loaded.mem[p] ELSE Zero]
        /\ dit' = Page \ DOMAIN Loaded.mem
        /\ old' \in {old, new} /\ wrt' = DOMAIN old'.mem /\ new' = Empty
        /\ pc' = "up" /\ pc = "blit"
        /\ UNCHANGED <<img, ctl, mem, pat, cnt>>
    BY <1>2 DEF Blit
  <2>2. Sound(old')
    BY <2>1 DEF BaseInv, ContentsInv
  <2>3. wrt' \subseteq Page
    BY <2>1, <2>2 DEF Sound, InUse
  <2>4. \A p \in Page : loom'[p] \in Value /\ HomeOnly(p, loom'[p])
    <3> SUFFICES ASSUME NEW p \in Page PROVE loom'[p] \in Value /\ HomeOnly(p, loom'[p])
      OBVIOUS
    <3>1. CASE p \notin DOMAIN Loaded.mem
      BY <3>1, <2>1, JunkHomes DEF Value
    <3>2. CASE p \in DOMAIN Loaded.mem
      <4>1. /\ loom'[p] = At(Now, p, Loaded.wat.north) /\ loom'[p] \in Value
            /\ In(Now, p, Loaded.wat.north)
        BY <3>2, <2>1, <1>0, LoadedFacts
      <4>2. SideOf(p, Loaded.wat.north) \in Side
        BY DEF SideOf, Side
      <4> QED BY <4>1, <4>2 DEF BaseInv, HomesInv, Homes, In, At
    <3> QED BY <3>1, <3>2
  <2>5. SnapTypeOK'
    <3>1. loom' \in [Page -> Value]
      BY <2>1, <2>4
    <3>2. wat' \in [north : 0 .. Pages, south : 0 .. Pages]
      BY <2>1, <1>0, LoadedFacts
    <3> QED BY <2>1, <2>3, <3>1, <3>2, SMTT(30) DEF BaseInv, SnapTypeOK
  <2>6. HomesInv'
    <3>1. Homes(Now') /\ Homes(Syn')
      BY <2>1 DEF BaseInv, HomesInv, Now, Syn
    <3> QED BY <2>4, <3>1 DEF HomesInv
  <2>7. ControlsInv'
    BY <2>1 DEF BaseInv, ControlsInv, Saving, Applying
  <2>8. ContentsInv'
    BY <2>1, <2>2, EmptySound DEF ContentsInv
  <2> QED BY <2>5, <2>6, <2>7, <2>8 DEF BaseInv
<1> QED BY <1>1, <1>2

(* A run of the mutator that leaves n and s pages in use and writes w. *)
Ran(n, s, w) ==
  /\ wat' = [north |-> n, south |-> s]
  /\ loom' = [p \in Page |-> IF p \in w THEN <<p, cnt.run + 1>> ELSE loom[p]]
  /\ dit' = dit \cup w
  /\ wrt' = {p \in wrt : Stays(p, n, s)} \cup w

(* The mutator *)
LEMMA RunBase == BaseInv /\ Run => BaseInv'
<1> SUFFICES ASSUME BaseInv, Run PROVE BaseInv'
  OBVIOUS
<1>1. PICK n \in 1 .. Pages - 2 : \E s \in 1 .. Pages - 1 - n : \E w \in Writes(n, s) : Ran(n, s, w)
  BY DEF Run, Ran
<1>2. PICK s \in 1 .. Pages - 1 - n : \E w \in Writes(n, s) : Ran(n, s, w)
  BY <1>1
<1>3. PICK w \in Writes(n, s) :
        /\ wat' = [north |-> n, south |-> s]
        /\ loom' = [p \in Page |-> IF p \in w THEN <<p, cnt.run + 1>> ELSE loom[p]]
        /\ dit' = dit \cup w
        /\ wrt' = {p \in wrt : Stays(p, n, s)} \cup w
  BY <1>2 DEF Ran
<1>4. /\ n \in Nat /\ s \in Nat /\ n >= 1 /\ s >= 1 /\ n + s < Pages /\ Pages - 1 \in Page
      /\ wat'.north = n /\ wat'.south = s
  BY <1>3, SnapshotAssumption DEF Page
<1>5. w \subseteq InUse(wat') /\ w \subseteq Page /\ Pages - 1 \in w
  BY <1>3 DEF Writes, InUse
<1>6. /\ cnt \in [run : 0 .. MaxRun, crash : 0 .. MaxCrash] /\ cnt.run < MaxRun
      /\ MaxRun \in Nat /\ cnt' = [cnt EXCEPT !.run = cnt.run + 1]
  BY SnapshotAssumption DEF BaseInv, SnapTypeOK, Run
<1>7. /\ cnt' \in [run : 0 .. MaxRun, crash : 0 .. MaxCrash]
      /\ cnt'.run = cnt.run + 1 /\ cnt.run \in Nat /\ cnt'.run \in 1 .. MaxRun
  BY <1>6
<1>8. UNCHANGED <<img, ctl, mem, pat, old, new>> /\ pc = "up" /\ pc' = "save"
  BY DEF Run
<1>9. ASSUME NEW p \in Page PROVE loom'[p] \in Value /\ HomeOnly(p, loom'[p])
  <2>1. CASE p \in w
    <3>1. loom'[p] = <<p, cnt'.run>>
      BY <2>1, <1>3, <1>7
    <3>2. <<p, cnt'.run>> \in Value
      BY <1>7 DEF Value
    <3> QED BY <3>1, <3>2 DEF HomeOnly
  <2>2. CASE p \notin w
    BY <2>2, <1>3 DEF BaseInv, SnapTypeOK, HomesInv
  <2> QED BY <2>1, <2>2
<1>10. SnapTypeOK'
  <2>1. loom' \in [Page -> Value]
    BY <1>3, <1>9
  <2>2. wat' \in [north : 0 .. Pages, south : 0 .. Pages]
    BY <1>3, <1>4, SnapshotAssumption
  <2>3. dit' \subseteq Page /\ wrt' \subseteq Page
    BY <1>3, <1>5 DEF BaseInv, SnapTypeOK
  <2> QED BY <2>1, <2>2, <2>3, <1>7, <1>8 DEF BaseInv, SnapTypeOK
<1>11. HomesInv'
  <2>1. Homes(Now') /\ Homes(Syn')
    BY <1>8 DEF BaseInv, HomesInv, Now, Syn
  <2> QED BY <2>1, <1>9 DEF HomesInv
<1>12. ControlsInv'
  <2>1. loom'[Pages - 1] = <<Pages - 1, cnt'.run>>
    BY <1>3, <1>4, <1>5, <1>7
  <2>2. cnt'.run > 0 /\ cnt'.run - 1 = cnt.run
    BY <1>7
  <2>3. \A c \in {ctl.now, ctl.syn} \cap Controls : WellFormed(c) /\ HomeBy(c, cnt.run)
    BY DEF BaseInv, ControlsInv
  <2>4. \A c : HomeBy(c, cnt.run) => HomeBy(c, cnt'.run)
    BY <1>7, SMTT(30) DEF HomeBy
  <2>5. ctl.now = None
    BY <1>8 DEF BaseInv, ControlsInv
  <2> QED BY <2>1, <2>2, <2>3, <2>4, <2>5, <1>8 DEF ControlsInv, Saving, Applying
<1>13. ContentsInv'
  <2>1. wrt' \subseteq InUse(wat')
    BY <1>3, <1>4, <1>5 DEF Stays, InUse, BaseInv, SnapTypeOK
  <2> QED BY <2>1, <1>3, <1>4, <1>5, <1>8 DEF BaseInv, ContentsInv
<1> QED BY <1>10, <1>11, <1>12, <1>13 DEF BaseInv

(* The patch that _ce_patch_compose() makes. *)
LEMMA ComposedFacts ==
  ASSUME BaseInv, CreateControl
  PROVE  /\ pat'.con \in Controls /\ pat'.done = 0 /\ pat'.rec = FALSE
         /\ WellFormed(pat'.con) /\ HomeBy(pat'.con, cnt.run)
         /\ pat'.con.nor = wat.north /\ pat'.con.sou = wat.south
         /\ \A i \in 1 .. Len(pat'.con.mem) : pat'.con.mem[i].mug = loom[pat'.con.mem[i].pag]
         /\ PagesOf(pat'.con) = dit \cap InUse(wat)
         /\ pat' \in [con : Controls, done : Nat, rec : BOOLEAN]
<1> DEFINE D == Dirty
           m == [i \in 1 .. Len(D) |-> [pag |-> D[i], mug |-> loom[D[i]]]]
           c == [nor |-> wat.north, sou |-> wat.south, mem |-> m]
<1>1. /\ loom \in [Page -> Value] /\ dit \subseteq Page
      /\ wat \in [north : 0 .. Pages, south : 0 .. Pages]
      /\ wat.north + wat.south < Pages /\ wat.south > 0 /\ Pages - 1 \in dit
      /\ loom[Pages - 1] = <<Pages - 1, cnt.run>> /\ cnt.run \in Nat
      /\ \A p \in Page : HomeOnly(p, loom[p])
  BY SMTT(30) DEF BaseInv, SnapTypeOK, ContentsInv, ControlsInv, HomesInv, CreateControl
<1>2. /\ D \in Seq(Page) /\ Len(D) \in Nat /\ Len(D) <= Pages
      /\ \A i \in 1 .. Len(D) : D[i] \in dit \cap InUse(wat)
      /\ \A p \in dit \cap InUse(wat) : \E i \in 1 .. Len(D) : D[i] = p
  BY <1>1, DirtyFacts
<1>3. pat' = [con |-> c, done |-> 0, rec |-> FALSE]
  BY DEF CreateControl
<1> HIDE DEF D
<1>4. \A i \in 1 .. Len(D) : [pag |-> D[i], mug |-> loom[D[i]]] \in Lines
  BY <1>1, <1>2 DEF Lines
<1>5. m \in Seq(Lines) /\ Len(m) = Len(D)
  BY <1>2, <1>4
<1>6. \A i \in 1 .. Len(m) : m[i].pag = D[i] /\ m[i].mug = loom[D[i]]
  BY <1>5
<1> HIDE DEF m
<1>7. c \in Controls /\ c.mem = m /\ c.nor = wat.north /\ c.sou = wat.south
  BY <1>1, <1>5 DEF Controls
<1> HIDE DEF c
<1>8. PagesOf(c) = dit \cap InUse(wat)
  BY <1>2, <1>5, <1>6, <1>7 DEF PagesOf
<1>9. Pages - 1 \in PagesOf(c)
  BY <1>1, <1>8, SnapshotAssumption DEF InUse, Page
<1>10. \A i \in 1 .. Len(c.mem) : /\ c.mem[i].mug = loom[c.mem[i].pag]
                                  /\ c.mem[i].pag \in dit \cap InUse(wat)
  BY <1>2, <1>5, <1>6, <1>7
<1>11. \A i \in 1 .. Len(c.mem) : /\ c.mem[i].pag < c.nor \/ c.mem[i].pag >= Pages - c.sou
                                  /\ HomeOnly(c.mem[i].pag, c.mem[i].mug)
  BY <1>1, <1>7, <1>10 DEF InUse
<1>12. WellFormed(c)
  BY <1>1, <1>2, <1>5, <1>7, <1>9, <1>10, <1>11, SMTT(30) DEF WellFormed
<1>13. HomeBy(c, cnt.run)
  <2>1. <<Pages - 1, cnt.run>> \in {Pages - 1} \X (0 .. cnt.run)
    BY <1>1
  <2> QED BY <2>1, <1>1, <1>10 DEF HomeBy
<1> QED BY <1>3, <1>7, <1>8, <1>10, <1>12, <1>13

(* _ce_patch_compose(), and _ce_patch_create() of control.bin *)
LEMMA CreateControlBase == BaseInv /\ CreateControl => BaseInv'
<1> SUFFICES ASSUME BaseInv, CreateControl PROVE BaseInv'
  OBVIOUS
<1>1. /\ pat'.con \in Controls /\ pat'.done = 0 /\ pat'.rec = FALSE
      /\ WellFormed(pat'.con) /\ HomeBy(pat'.con, cnt.run)
      /\ pat' \in [con : Controls, done : Nat, rec : BOOLEAN]
  BY ComposedFacts
<1>2. /\ pc = "save" /\ ctl.now = None /\ ctl' = Write(ctl, Partial) /\ pc' = "memory"
      /\ UNCHANGED <<loom, wat, dit, img, mem, wrt, old, cnt>>
      /\ new' = Content(loom, wat, wrt)
  BY DEF BaseInv, ControlsInv, CreateControl
<1>3. ctl'.now = Partial /\ ctl'.syn = ctl.syn
      /\ ctl' \in [now : Controls \cup {None, Partial}, syn : Controls \cup {None, Partial}]
  BY <1>2 DEF BaseInv, SnapTypeOK, Write
<1>4. SnapTypeOK'
  BY <1>1, <1>2, <1>3, ControlFacts, SMTT(30) DEF BaseInv, SnapTypeOK
<1>5. HomesInv'
  BY <1>2, SameHomes DEF BaseInv
<1>6. ControlsInv'
  <2>1. Partial \notin Controls
    BY SnapshotAssumption
  <2> QED BY <2>1, <1>1, <1>2, <1>3 DEF BaseInv, ControlsInv, Saving, Applying
<1>7. ContentsInv'
  <2>1. /\ loom \in [Page -> Value] /\ wat \in [north : 0 .. Pages, south : 0 .. Pages]
        /\ wat.north + wat.south < Pages /\ wrt \subseteq InUse(wat) /\ wrt \subseteq Page
    BY <1>2 DEF BaseInv, SnapTypeOK, ContentsInv
  <2>2. new'.wat = wat /\ new'.mem = [p \in wrt |-> loom[p]]
        /\ new' = [wat |-> new'.wat, mem |-> new'.mem]
    BY <1>2 DEF Content
  <2>3. DOMAIN new'.mem = wrt /\ new'.mem \in [wrt -> Value]
    BY <2>1, <2>2
  <2>4. Sound(new')
    BY <2>1, <2>2, <2>3 DEF Sound
  <2> QED BY <2>4, <1>2 DEF BaseInv, ContentsInv
<1> QED BY <1>4, <1>5, <1>6, <1>7 DEF BaseInv

(* What is left of memory.bin is pages, or nothing. *)
LEMMA LeftoverFacts ==
  ASSUME NEW f \in [now : Seq(Value) \cup {None}, syn : Seq(Value) \cup {None}],
         NEW x \in Leftovers(f)
  PROVE  /\ x \in Seq(Value) \cup {None}
         /\ f.now = f.syn => x = f.now
         /\ \/ x \in {None, f.syn}
            \/ /\ f.now \in Seq(Value) /\ x \in Seq(Value) /\ Len(x) <= Len(f.now)
               /\ \A i \in 1 .. Len(x) : x[i] \in {f.now[i], Zero, Torn}
<1>1. CASE f.now = f.syn
  BY <1>1 DEF Leftovers
<1>2. CASE f.now # f.syn /\ x \in {None, f.syn}
  BY <1>2
<1>3. CASE f.now # f.syn /\ x \notin {None, f.syn}
  <2> DEFINE K(i) == {f.now[i], Zero, Torn}
  <2>1. f.now # None /\ x \in Between(0, Len(f.now), K)
    BY <1>3 DEF Leftovers
  <2>2. f.now \in Seq(Value) /\ Len(f.now) \in Nat
    <3>1. f.now \in Seq(Value)
      BY <2>1
    <3> QED BY <3>1
  <2>3. PICK n \in 0 .. Len(f.now) : /\ x \in [1 .. n -> UNION {K(i) : i \in 1 .. n}]
                                     /\ \A i \in 1 .. n : x[i] \in K(i)
    BY <2>1 DEF Between
  <2>4. n \in Nat /\ n <= Len(f.now)
    BY <2>2, <2>3
  <2>5. \A i \in 1 .. n : x[i] \in {f.now[i], Zero, Torn} /\ f.now[i] \in Value
    BY <2>2, <2>3, <2>4
  <2>6. x \in [1 .. n -> Value]
    BY <2>3, <2>5 DEF Value
  <2>7. x \in Seq(Value) /\ Len(x) = n
    BY <2>4, <2>6
  <2> QED BY <1>3, <2>2, <2>4, <2>5, <2>7
<1> QED BY <1>1, <1>2, <1>3

(* A crash: of power, or a kill *)
LEMMA CrashBase == BaseInv /\ Crash => BaseInv'
<1> SUFFICES ASSUME BaseInv, Crash PROVE BaseInv'
  OBVIOUS
<1>1. /\ pc' = "down" /\ UNCHANGED <<loom, wat, dit, pat, wrt, old, new>>
      /\ cnt' \in [run : 0 .. MaxRun, crash : 0 .. MaxCrash] /\ cnt'.run = cnt.run
  <2>1. /\ cnt \in [run : 0 .. MaxRun, crash : 0 .. MaxCrash] /\ cnt.crash < MaxCrash
        /\ MaxRun \in Nat /\ MaxCrash \in Nat /\ cnt' = [cnt EXCEPT !.crash = cnt.crash + 1]
    BY SnapshotAssumption DEF Crash, BaseInv, SnapTypeOK
  <2>2. cnt.crash + 1 \in 0 .. MaxCrash
    BY <2>1
  <2>3. cnt' \in [run : 0 .. MaxRun, crash : 0 .. MaxCrash] /\ cnt'.run = cnt.run
    BY <2>1, <2>2
  <2> QED BY <2>3 DEF Crash
<1>2. CASE UNCHANGED <<img, ctl, mem>>
  <2>1. SnapTypeOK'
    BY <1>1, <1>2 DEF BaseInv, SnapTypeOK
  <2>2. HomesInv'
    BY <1>1, <1>2, SameHomes DEF BaseInv
  <2>3. ControlsInv'
    BY <1>1, <1>2 DEF BaseInv, ControlsInv, Saving, Applying
  <2>4. ContentsInv'
    BY <1>1 DEF BaseInv, ContentsInv
  <2> QED BY <2>1, <2>2, <2>3, <2>4 DEF BaseInv
<1>3. ASSUME NEW n \in Survivors(img["north"]), NEW s \in Survivors(img["south"]),
             img' = [i \in Side |-> Synced(IF i = "north" THEN n ELSE s)],
             NEW x \in Remnants(ctl), ctl' = Synced(x),
             NEW y \in Leftovers(mem), mem' = Synced(y)
      PROVE  BaseInv'
  <2> DEFINE r == [i \in Side |-> IF i = "north" THEN n ELSE s]
  <2>0. img["north"] \in [now : Seq(Value), syn : Seq(Value)]
        /\ img["south"] \in [now : Seq(Value), syn : Seq(Value)]
    BY DEF BaseInv, SnapTypeOK, Side
  <2>1. n \in Seq(Value) /\ s \in Seq(Value)
    BY <2>0, SurvivorFacts
  <2>2. r \in [Side -> Seq(Value)] /\ \A i \in Side : r[i] \in Survivors(img[i])
    BY <2>1 DEF Side
  <2>3. Homes(r) /\ \A i \in Side : Len(r[i]) <= Pages
    BY <2>2, SurvivorHomes DEF BaseInv, HomesInv
  <2>4. \A i \in Side : img'[i] = [now |-> r[i], syn |-> r[i]]
    BY <1>3 DEF Synced
  <2>a. r = [i \in Side |-> r[i]]
    OBVIOUS
  <2> HIDE DEF r
  <2>b. ASSUME NEW i \in Side PROVE img'[i].now = r[i] /\ img'[i].syn = r[i]
    <3>1. img'[i] = [now |-> r[i], syn |-> r[i]]
      BY <2>4
    <3> QED BY <3>1
  <2>5. Now' = r /\ Syn' = r
    BY <2>a, <2>b DEF Now, Syn
  <2>6. img' \in [Side -> [now : Seq(Value), syn : Seq(Value)]]
    <3>1. ASSUME NEW i \in Side PROVE img'[i] \in [now : Seq(Value), syn : Seq(Value)]
      <4>1. r[i] \in Seq(Value) /\ img'[i] = [now |-> r[i], syn |-> r[i]]
        BY <2>2, <2>4
      <4> QED BY <4>1
    <3>2. img' = [i \in Side |-> img'[i]]
      BY <1>3
    <3> QED BY <3>1, <3>2
  <2>7. mem' \in [now : Seq(Value) \cup {None}, syn : Seq(Value) \cup {None}]
    <3>1. mem \in [now : Seq(Value) \cup {None}, syn : Seq(Value) \cup {None}]
      BY DEF BaseInv, SnapTypeOK
    <3>2. y \in Seq(Value) \cup {None}
      BY <3>1, LeftoverFacts
    <3> QED BY <1>3, <3>2 DEF Synced
  <2>8. x \in {None, Partial, ctl.now, ctl.syn}
    BY DEF Remnants
  <2>9. /\ ctl' \in [now : Controls \cup {None, Partial}, syn : Controls \cup {None, Partial}]
        /\ ctl'.now = x /\ ctl'.syn = x
    BY <1>3, <2>8 DEF Synced, BaseInv, SnapTypeOK
  <2>10. SnapTypeOK'
    <3>1. \A i \in Side : Len(img'[i].now) <= Pages /\ Len(img'[i].syn) <= Pages
      BY <2>3, <2>b
    <3> QED BY <3>1, <1>1, <2>6, <2>7, <2>9 DEF BaseInv, SnapTypeOK
  <2>11. HomesInv'
    BY <1>1, <2>3, <2>5 DEF BaseInv, HomesInv
  <2>12. ControlsInv'
    <3>1. None \notin Controls /\ Partial \notin Controls
      BY SnapshotAssumption
    <3> QED BY <3>1, <1>1, <2>8, <2>9, ZenonT(60) DEF BaseInv, ControlsInv, Saving, Applying
  <2>13. ContentsInv'
    BY <1>1 DEF BaseInv, ContentsInv
  <2> QED BY <2>10, <2>11, <2>12, <2>13 DEF BaseInv
<1> QED BY <1>2, <1>3 DEF Crash

(* A short write *)
LEMMA ShortWriteBase == BaseInv /\ ShortWrite => BaseInv'
<1> SUFFICES ASSUME BaseInv, ShortWrite PROVE BaseInv'
  OBVIOUS
<1>1. /\ pc' = "down" /\ UNCHANGED <<loom, wat, dit, ctl, pat, wrt, old, new>>
      /\ cnt' \in [run : 0 .. MaxRun, crash : 0 .. MaxCrash] /\ cnt'.run = cnt.run
      /\ pat.done < Len(pat.con.mem)
  <2>1. /\ cnt \in [run : 0 .. MaxRun, crash : 0 .. MaxCrash] /\ cnt.crash < MaxCrash
        /\ MaxRun \in Nat /\ MaxCrash \in Nat /\ cnt' = [cnt EXCEPT !.crash = cnt.crash + 1]
    BY SnapshotAssumption DEF ShortWrite, BaseInv, SnapTypeOK
  <2>2. cnt.crash + 1 \in 0 .. MaxCrash
    BY <2>1
  <2>3. cnt' \in [run : 0 .. MaxRun, crash : 0 .. MaxCrash] /\ cnt'.run = cnt.run
    BY <2>1, <2>2
  <2> QED BY <2>3 DEF ShortWrite
<1>2. /\ img' \in [Side -> [now : Seq(Value), syn : Seq(Value)]]
      /\ \A s \in Side : Len(img'[s].now) <= Pages /\ Len(img'[s].syn) <= Pages
      /\ Homes(Now') /\ Homes(Syn')
      /\ mem' \in [now : Seq(Value) \cup {None}, syn : Seq(Value) \cup {None}]
  <2>1. CASE pc = "pages" /\ mem' = Write(mem, Append(mem.now, Short)) /\ UNCHANGED img
    <3>1. mem.now \in Seq(Value) /\ Short \in Value
      BY <2>1 DEF BaseInv, ControlsInv, Value
    <3>2. Append(mem.now, Short) \in Seq(Value)
      BY <3>1
    <3>3. Homes(Now') /\ Homes(Syn')
      BY <2>1 DEF Now, Syn, BaseInv, HomesInv
    <3> QED BY <2>1, <3>2, <3>3 DEF BaseInv, SnapTypeOK, Write
  <2>2. CASE pc = "apply" /\ UNCHANGED mem
    <3> DEFINE i == pat.done + 1
    <3>1. WellFormed(pat.con)
      BY <2>2 DEF BaseInv, ControlsInv, Applying, Valid
    <3>2. i \in 1 .. Len(pat.con.mem)
      <4>1. pat.done \in Nat /\ Len(pat.con.mem) \in Nat
        BY <3>1, ControlFacts DEF BaseInv, SnapTypeOK
      <4> QED BY <4>1, <1>1
    <3>3. img' = Applied(i, Short) \/ img' = Applied(i, Torn)
      BY <2>2 DEF ShortWrite
    <3>4. Short \in Value /\ Torn \in Value
      BY DEF Value
    <3> HIDE DEF i
    <3> QED BY <2>2, <3>1, <3>2, <3>3, <3>4, JunkHomes, AppliedFacts DEF BaseInv, SnapTypeOK
  <2> QED BY <2>1, <2>2 DEF ShortWrite
<1>3. SnapTypeOK'
  BY <1>1, <1>2 DEF BaseInv, SnapTypeOK
<1>4. HomesInv'
  BY <1>1, <1>2 DEF BaseInv, HomesInv
<1>5. ControlsInv'
  BY <1>1 DEF BaseInv, ControlsInv, Saving, Applying
<1>6. ContentsInv'
  BY <1>1 DEF BaseInv, ContentsInv
<1> QED BY <1>3, <1>4, <1>5, <1>6 DEF BaseInv

(* Nothing happens *)
LEMMA StutterBase == BaseInv /\ UNCHANGED vars => BaseInv'
<1> SUFFICES ASSUME BaseInv, UNCHANGED vars PROVE BaseInv'
  OBVIOUS
<1>1. SnapTypeOK'
  BY ZenonT(60) DEF BaseInv, SnapTypeOK, vars
<1>2. HomesInv'
  BY SameHomes DEF BaseInv, vars
<1>3. ControlsInv'
  BY DEF BaseInv, ControlsInv, vars
<1>4. ContentsInv'
  BY DEF BaseInv, ContentsInv, vars
<1> QED BY <1>1, <1>2, <1>3, <1>4 DEF BaseInv

(* BaseInv holds whatever crashes there are. *)
LEMMA NextBase == BaseInv /\ [Next]_vars => BaseInv'
BY FoulBase, RunBase, CreateControlBase, CreateMemoryBase, SavePageBase, WriteControlBase,
   SyncControlBase, SyncMemoryBase, ResizeBase, ApplyBase, SyncImageBase,
   DeleteControlBase, DeleteMemoryBase, OpenBase, PatchOpenBase, BlitBase, CrashBase,
   ShortWriteBase, StutterBase
   DEF Next, Save, Patch, Live

(* The files, the loom, the dirty bits and the patch in hand have their    *)
(* types, whatever crashes there are: no page is written or read beyond    *)
(* the loom, the patch or an image.                                        *)
THEOREM SnapshotTypes == Spec => []SnapTypeOK
<1>1. Spec => []BaseInv
  BY InitBase, NextBase, PTL DEF Spec
<1>2. BaseInv => SnapTypeOK
  BY DEF BaseInv
<1> QED BY <1>1, <1>2, PTL

-----------------------------------------------------------------------------
(* The files lead to a content that was saved *)

(* No file, and a control file that is not whole, are no patch. *)
LEMMA NoPatch == \A m : ~Valid(None, m) /\ ~Valid(Partial, m)
BY SnapshotAssumption DEF Valid

(* A step that changes neither the images nor the contents keeps the same  *)
(* patches.                                                                *)
LEMMA SameRecover ==
  ASSUME Recoverable, UNCHANGED <<img, old, new>>,
         \/ ctl'.now = ctl.now /\ mem'.now = mem.now
         \/ ~Valid(ctl.now, mem.now) /\ ~Valid(ctl'.now, mem'.now)
  PROVE  Recoverable'
<1>1. Targets' = Targets /\ Now' = Now /\ Faces' = Faces
  BY DEF Targets, Now, Syn, Faces
<1>3. CASE ctl'.now = ctl.now /\ mem'.now = mem.now
  BY <1>1, <1>3 DEF Recoverable, Leads
<1>4. CASE ~Valid(ctl.now, mem.now) /\ ~Valid(ctl'.now, mem'.now)
  BY <1>1, <1>4 DEF Recoverable
<1> QED BY <1>3, <1>4

(* Nothing is saved, and the images hold nothing. *)
LEMMA InitS == Init => SInv
<1> SUFFICES ASSUME Init PROVE SInv
  OBVIOUS
<1>1. BaseInv
  BY InitBase
<1>2. /\ pc = "down" /\ ctl.now = None /\ ctl.syn = None /\ old = Empty /\ new = Empty
      /\ mem.now = None /\ mem.syn = None
  BY DEF Init, Synced
<1>3. Now = [s \in Side |-> <<>>] /\ Syn = [s \in Side |-> <<>>]
  BY DEF Init, Now, Syn, Synced
<1>4. Recoverable
  <2>1. Holds(Now, Empty)
    BY <1>3 DEF Holds, Empty, Content, Side
  <2> QED BY <2>1, <1>2, NoPatch DEF Recoverable, Targets
<1>5. UpInv /\ SaveInv /\ PatchInv
  BY <1>2 DEF UpInv, SaveInv, PatchInv, Saving, Applying
<1>6. Synchronous
  BY <1>2, <1>3, NoPatch, SnapshotAssumption DEF Synchronous, PowerInv, Saving, Applying
<1> QED BY <1>1, <1>4, <1>5, <1>6 DEF SInv

(* u3e_foul() *)
LEMMA FoulS == SInv /\ Foul => SInv'
<1> SUFFICES ASSUME SInv, Foul PROVE SInv'
  OBVIOUS
<1>1. BaseInv'
  BY FoulBase DEF SInv
<1>2. /\ pc = "save" /\ dit' = Page
      /\ UNCHANGED <<pc, loom, wat, img, ctl, mem, pat, wrt, old, new, cnt>>
  BY DEF Foul
<1>3. Recoverable'
  BY <1>2, SameRecover DEF SInv
<1>4. Now' = Now /\ Syn' = Syn
  BY <1>2 DEF Now, Syn
<1>5. SaveInv'
  <2>1. wrt \subseteq Page /\ wat \in [north : 0 .. Pages, south : 0 .. Pages] /\ wat.south > 0
    BY <1>2 DEF SInv, BaseInv, SnapTypeOK, ContentsInv
  <2>2. wat.north <= Len(Now["north"]) \/ wat.north - 1 \in Page
    <3>1. Len(Now["north"]) \in Nat
      BY ImageTypes DEF SInv, BaseInv, Side
    <3> QED BY <2>1, <3>1, SnapshotAssumption DEF Page
  <2>3. Pages - wat.south \in Page
    BY <2>1, SnapshotAssumption DEF Page
  <2> QED BY <1>2, <1>4, <2>1, <2>2, <2>3 DEF SInv, SaveInv
<1>6. UpInv' /\ PatchInv'
  BY <1>2 DEF UpInv, PatchInv, Saving, Applying
<1>7. Synchronous'
  BY <1>2, <1>4 DEF SInv, Synchronous, PowerInv
<1> QED BY <1>1, <1>3, <1>5, <1>6, <1>7 DEF SInv

(* The mutator: what it does not write stays as it was saved. *)
LEMMA RunS == SInv /\ Run => SInv'
<1> SUFFICES ASSUME SInv, Run PROVE SInv'
  OBVIOUS
<1>1. BaseInv'
  BY RunBase DEF SInv
<1>a. PICK n \in 1 .. Pages - 2 : \E s \in 1 .. Pages - 1 - n : \E w \in Writes(n, s) : Ran(n, s, w)
  BY DEF Run, Ran
<1>b. PICK s \in 1 .. Pages - 1 - n : \E w \in Writes(n, s) : Ran(n, s, w)
  BY <1>a
<1>2. PICK w \in Writes(n, s) : Ran(n, s, w)
  BY <1>b
<1>3. /\ n \in Nat /\ s \in Nat /\ n >= 1 /\ s >= 1 /\ n + s < Pages
      /\ wat'.north = n /\ wat'.south = s
      /\ n > wat.north => n - 1 \in w
      /\ s > wat.south => Pages - s \in w
      /\ dit' = dit \cup w /\ wrt' = {p \in wrt : Stays(p, n, s)} \cup w
      /\ \A p \in Page : p \notin w => loom'[p] = loom[p]
  BY <1>2, SnapshotAssumption DEF Ran, Writes
<1>4. UNCHANGED <<img, ctl, mem, pat, old, new>> /\ pc = "up" /\ pc' = "save"
  BY DEF Run
<1>5. Recoverable'
  BY <1>4, SameRecover DEF SInv
<1>6. Now' = Now /\ Syn' = Syn
  BY <1>4 DEF Now, Syn
<1>7. /\ Holds(Now, old) /\ new = Empty /\ wat = old.wat /\ wrt = DOMAIN old.mem
      /\ \A p \in wrt : loom[p] = old.mem[p]
  BY <1>4 DEF SInv, UpInv
<1>8. /\ wat.north \in Nat /\ wat.south \in Nat /\ wat.north + wat.south < Pages
      /\ Len(Now["north"]) = wat.north /\ Len(Now["south"]) = wat.south
      /\ wrt \subseteq Page
  <2>1. wat \in [north : 0 .. Pages, south : 0 .. Pages] /\ wrt \subseteq Page
    BY DEF SInv, BaseInv, SnapTypeOK
  <2>2. Sound(old)
    BY DEF SInv, BaseInv, ContentsInv
  <2> QED BY <2>1, <2>2, <1>7 DEF Sound, Holds
<1>9. SaveInv'
  <2>1. ASSUME NEW p \in wrt' \ dit'
        PROVE  In(Now, p, n) /\ At(Now, p, n) = loom'[p]
    <3>1. p \in wrt /\ Stays(p, n, s) /\ p \notin w /\ p \in Page
      BY <1>3, <1>8
    <3>2. loom'[p] = old.mem[p] /\ At(Now, p, wat.north) = old.mem[p]
      BY <3>1, <1>3, <1>7 DEF Holds
    <3>3. SideOf(p, n) = SideOf(p, wat.north)
      BY <3>1, <1>3, <1>8, SnapshotAssumption, SMTT(30) DEF Stays, SideOf, Page
    <3>4. In(Now, p, wat.north)
      BY <3>1, <1>8, SnapshotAssumption, SMTT(30) DEF Stays, In, SideOf, Place, Page
    <3> QED BY <3>2, <3>3, <3>4 DEF In, At
  <2>2. n <= Len(Now["north"]) \/ n - 1 \in dit'
    BY <1>3, <1>8
  <2>3. s <= Len(Now["south"]) \/ Pages - s \in dit'
    BY <1>3, <1>8
  <2> QED BY <2>1, <2>2, <2>3, <1>3, <1>4, <1>6, <1>7 DEF SaveInv
<1>10. UpInv' /\ PatchInv'
  BY <1>4 DEF UpInv, PatchInv, Saving, Applying
<1>11. Synchronous'
  BY <1>4, <1>6 DEF SInv, Synchronous, PowerInv, Applying
<1> QED BY <1>1, <1>5, <1>9, <1>10, <1>11 DEF SInv

(* _ce_patch_compose(): the patch leads from the images to the loom. *)
LEMMA CreateControlS == SInv /\ CreateControl => SInv'
<1> SUFFICES ASSUME SInv, CreateControl PROVE SInv'
  OBVIOUS
<1>1. BaseInv /\ BaseInv'
  BY CreateControlBase DEF SInv
<1>2. /\ pc = "save" /\ ctl.now = None /\ ctl' = Write(ctl, Partial) /\ pc' = "memory"
      /\ UNCHANGED <<loom, wat, dit, img, mem, wrt, old, cnt>>
      /\ new' = Content(loom, wat, wrt)
  BY <1>1 DEF BaseInv, ControlsInv, CreateControl
<1>3. ctl'.now = Partial /\ ctl'.syn = ctl.syn
  BY <1>1, <1>2 DEF BaseInv, SnapTypeOK, Write
<1>4. Now' = Now /\ Syn' = Syn
  BY <1>2 DEF Now, Syn
<1>5. /\ pat'.rec = FALSE /\ WellFormed(pat'.con)
      /\ pat'.con.nor = wat.north /\ pat'.con.sou = wat.south
      /\ \A i \in 1 .. Len(pat'.con.mem) : pat'.con.mem[i].mug = loom[pat'.con.mem[i].pag]
      /\ PagesOf(pat'.con) = dit \cap InUse(wat)
  BY <1>1, ComposedFacts
<1>6. /\ new'.wat = wat /\ DOMAIN new'.mem = wrt
      /\ \A p \in wrt : new'.mem[p] = loom[p]
  BY <1>2 DEF Content
<1>7. /\ wat.north \in Nat /\ wat.south \in Nat /\ wat.north + wat.south < Pages
      /\ wat.south > 0 /\ wrt \subseteq InUse(wat)
  BY <1>1, <1>2 DEF BaseInv, SnapTypeOK, ContentsInv
<1>8. /\ Holds(Now, old)
      /\ \A p \in wrt \ dit : In(Now, p, wat.north) /\ At(Now, p, wat.north) = loom[p]
      /\ wat.north <= Len(Now["north"]) \/ wat.north - 1 \in dit
      /\ wat.south <= Len(Now["south"]) \/ Pages - wat.south \in dit
  BY <1>2 DEF SInv, SaveInv
<1>9. new' # Empty
  BY <1>6, <1>7 DEF Empty, Content
<1>10. PatchFor(pat'.con, new')
  BY <1>5, <1>6 DEF PatchFor
<1>11. Fits(Now, pat'.con, new')
  <2>1. \A p \in DOMAIN new'.mem \ PagesOf(pat'.con) : p \in wrt \ dit
    BY <1>5, <1>6, <1>7
  <2>2. \A p \in DOMAIN new'.mem \ PagesOf(pat'.con) :
          In(Now, p, pat'.con.nor) /\ At(Now, p, pat'.con.nor) = new'.mem[p]
    BY <2>1, <1>5, <1>6, <1>8
  <2>3. wat.north <= Len(Now["north"]) \/ wat.north - 1 \in PagesOf(pat'.con)
    <3>1. Len(Now["north"]) \in Nat
      BY <1>1, ImageTypes DEF BaseInv, Side
    <3>2. wat.north > 0 => wat.north - 1 \in InUse(wat)
      BY <1>7, SnapshotAssumption, SMTT(30) DEF InUse, Page
    <3> QED BY <3>1, <3>2, <1>5, <1>7, <1>8
  <2>4. wat.south <= Len(Now["south"]) \/ Pages - wat.south \in PagesOf(pat'.con)
    <3>1. Pages - wat.south \in InUse(wat)
      BY <1>7, SnapshotAssumption, SMTT(30) DEF InUse, Page
    <3> QED BY <3>1, <1>5, <1>8
  <2>5. \A s \in Side : SizeOf(pat'.con, s) <= Len(Now[s]) \/ Inner(pat'.con, s) \in PagesOf(pat'.con)
    BY <2>3, <2>4, <1>5 DEF Side, SizeOf, Inner
  <2> QED BY <2>2, <2>5 DEF Fits
<1>12. Recoverable'
  BY <1>2, <1>3, <1>4, <1>8, NoPatch DEF Recoverable, Targets
<1>13. UpInv' /\ SaveInv'
  BY <1>2 DEF UpInv, SaveInv
<1>14. PatchInv'
  BY <1>2, <1>4, <1>5, <1>8, <1>9, <1>10, <1>11 DEF PatchInv, Saving, Applying
<1>15. Synchronous'
  <2>1. None \notin Controls /\ Partial \notin Controls
    BY SnapshotAssumption
  <2> QED BY <2>1, <1>2, <1>3, <1>4 DEF SInv, Synchronous, PowerInv, Applying, Valid
<1> QED BY <1>1, <1>12, <1>13, <1>14, <1>15 DEF SInv

(* memory.bin is created: no page in it is the home road of an old patch.  *)
LEMMA CreateMemoryS == SInv /\ CreateMemory => SInv'
<1> SUFFICES ASSUME SInv, CreateMemory PROVE SInv'
  OBVIOUS
<1>1. BaseInv /\ BaseInv'
  BY CreateMemoryBase DEF SInv
<1>2. /\ pc = "memory" /\ pc' \in {"pages", "down"} /\ ctl.now = Partial
      /\ UNCHANGED <<loom, wat, dit, img, ctl, pat, wrt, old, new, cnt>>
      /\ mem'.syn = mem.syn
      /\ mem'.now = <<>> \/ (mem'.now = mem.now /\ pc' = "down")
  BY <1>1, ZenonT(60) DEF BaseInv, ControlsInv, SnapTypeOK, CreateMemory, Write
<1>3. Now' = Now /\ Syn' = Syn /\ Targets' = Targets
  BY <1>2 DEF Now, Syn, Targets
<1>4. Recoverable'
  BY <1>2, NoPatch, SameRecover DEF SInv
<1>5. UpInv' /\ SaveInv'
  BY <1>2 DEF UpInv, SaveInv
<1>6. PatchInv'
  BY <1>2, <1>3 DEF SInv, PatchInv, Saving, Applying
<1>7. ctl.syn \in Controls => Foreign(ctl.syn, <<>>)
  <2>1. ctl.syn \in Controls => Pages - 1 \in PagesOf(ctl.syn)
    BY <1>1 DEF BaseInv, ControlsInv, WellFormed
  <2>2. \A j \in 1 .. Len(<<>>) : FALSE
    OBVIOUS
  <2> QED BY <2>1, <2>2 DEF PagesOf, Foreign
<1>8. Synchronous'
  BY <1>2, <1>3, <1>7, NoPatch, SnapshotAssumption DEF SInv, Synchronous, PowerInv, Saving, Applying
<1> QED BY <1>1, <1>4, <1>5, <1>6, <1>8 DEF SInv

(* The pages of the loom are not those of an old patch. *)
LEMMA AppendForeign ==
  ASSUME NEW c, WellFormed(c), NEW m \in Seq(Value), NEW x \in Value,
         Foreign(c, m), \A i \in 1 .. Len(c.mem) : c.mem[i].pag = Pages - 1 => x # c.mem[i].mug
  PROVE  Foreign(c, Append(m, x))
<1>1. PICK i \in 1 .. Len(c.mem) :
        c.mem[i].pag = Pages - 1 /\ \A j \in 1 .. Len(m) : m[j] # c.mem[i].mug
  BY DEF Foreign
<1>2. \A j \in 1 .. Len(Append(m, x)) : Append(m, x)[j] = x \/ (j \in 1 .. Len(m) /\ Append(m, x)[j] = m[j])
  OBVIOUS
<1>3. \A j \in 1 .. Len(Append(m, x)) : Append(m, x)[j] # c.mem[i].mug
  BY <1>1, <1>2
<1> QED BY <1>1, <1>3 DEF Foreign

(* A page is saved. *)
LEMMA SavePageS == SInv /\ SavePage => SInv'
<1> SUFFICES ASSUME SInv, SavePage PROVE SInv'
  OBVIOUS
<1> DEFINE p == pat.con.mem[pat.done + 1].pag
<1>1. BaseInv /\ BaseInv'
  BY SavePageBase, SMTT(30) DEF SInv
<1>2. /\ pc = "pages" /\ pc' = "pages" /\ ctl.now = Partial /\ mem.now \in Seq(Value)
      /\ UNCHANGED <<loom, wat, img, ctl, wrt, old, new, cnt>>
      /\ mem'.syn = mem.syn /\ mem'.now = Append(mem.now, loom[p])
      /\ pat'.con = pat.con /\ pat'.rec = pat.rec
  BY <1>1 DEF BaseInv, ControlsInv, SnapTypeOK, SavePage, Write
<1>3. Now' = Now /\ Syn' = Syn /\ Targets' = Targets
  BY <1>2 DEF Now, Syn, Targets
<1>4. Recoverable'
  BY <1>2, NoPatch, SameRecover DEF SInv
<1>5. UpInv' /\ SaveInv'
  BY <1>2 DEF UpInv, SaveInv
<1>6. PatchInv'
  BY <1>2, <1>3, SMTT(30) DEF SInv, PatchInv, Saving, Applying, Content
<1>7. p \in Page
  BY <1>1, SavedPage DEF BaseInv
<1> HIDE DEF p
<1>8. ASSUME ctl.syn \in Controls, Foreign(ctl.syn, mem.now)
      PROVE  Foreign(ctl.syn, Append(mem.now, loom[p]))
  <2>1. WellFormed(ctl.syn) /\ HomeBy(ctl.syn, cnt.run - 1) /\ cnt.run \in Nat
        /\ loom[Pages - 1] = <<Pages - 1, cnt.run>> /\ loom[p] \in Value
        /\ HomeOnly(p, loom[p])
    BY <1>1, <1>2, <1>7, <1>8, SMTT(30) DEF BaseInv, ControlsInv, SnapTypeOK, HomesInv
  <2>2. ASSUME NEW i \in 1 .. Len(ctl.syn.mem), ctl.syn.mem[i].pag = Pages - 1
        PROVE  loom[p] # ctl.syn.mem[i].mug
    <3>1. PICK k \in 0 .. cnt.run - 1 : ctl.syn.mem[i].mug = <<Pages - 1, k>>
      BY <2>1, <2>2, SMTT(30) DEF HomeBy
    <3>2. CASE p = Pages - 1
      BY <2>1, <3>1, <3>2
    <3>3. CASE p # Pages - 1
      <4>1. <<Pages - 1, k>> \in {Pages - 1} \X Nat
        BY <2>1, <3>1
      <4> QED BY <2>1, <3>1, <3>3, <4>1 DEF HomeOnly
    <3> QED BY <3>2, <3>3
  <2> QED BY <2>1, <2>2, <1>2, <1>8, AppendForeign
<1>9. Synchronous'
  BY <1>2, <1>3, <1>8, NoPatch, SnapshotAssumption DEF SInv, Synchronous, PowerInv, Saving, Applying
<1> QED BY <1>1, <1>4, <1>5, <1>6, <1>9 DEF SInv

(* The control file is written, last. *)
LEMMA WriteControlS == SInv /\ WriteControl => SInv'
<1> SUFFICES ASSUME SInv, WriteControl PROVE SInv'
  OBVIOUS
<1>1. BaseInv /\ BaseInv'
  BY WriteControlBase DEF SInv
<1>2. /\ pc = "pages" /\ pc' = "sync control" /\ ctl.now = Partial
      /\ UNCHANGED <<loom, wat, dit, img, mem, pat, wrt, old, new, cnt>>
      /\ ctl'.syn = ctl.syn /\ ctl'.now = pat.con
  BY <1>1 DEF BaseInv, ControlsInv, SnapTypeOK, WriteControl, Write
<1>3. Now' = Now /\ Syn' = Syn /\ Targets' = Targets
  BY <1>2 DEF Now, Syn, Targets
<1>4. ~pat.rec /\ new # Empty /\ Holds(Now, old) /\ PatchFor(pat.con, new) /\ Fits(Now, pat.con, new)
  BY <1>1, <1>2 DEF SInv, PatchInv, BaseInv, ControlsInv, Saving
<1>5. "kill" \notin Crashes => Now = Syn
  BY <1>2 DEF SInv, Synchronous, PowerInv, Applying
<1>6. Leads(pat.con, new)'
  BY <1>2, <1>3, <1>4, <1>5 DEF Leads, Faces
<1>7. Recoverable'
  BY <1>2, <1>3, <1>4, <1>6 DEF Recoverable, Targets
<1>8. UpInv' /\ SaveInv'
  BY <1>2 DEF UpInv, SaveInv
<1>9. PatchInv'
  BY <1>2, <1>3 DEF SInv, PatchInv, Saving, Applying, Content
<1>10. Synchronous'
  BY <1>2, <1>3, NoPatch, SnapshotAssumption DEF SInv, Synchronous, PowerInv, Saving, Applying
<1> QED BY <1>1, <1>7, <1>8, <1>9, <1>10 DEF SInv

(* The control file is on the disk. *)
LEMMA SyncControlS == SInv /\ SyncControl => SInv'
<1> SUFFICES ASSUME SInv, SyncControl PROVE SInv'
  OBVIOUS
<1>1. BaseInv /\ BaseInv'
  BY SyncControlBase DEF SInv
<1>2. /\ pc = "sync control" /\ pc' = "sync memory"
      /\ UNCHANGED <<loom, wat, dit, img, mem, pat, wrt, old, new, cnt>>
      /\ ctl'.syn = ctl.now /\ ctl'.now = ctl.now /\ ctl.now = pat.con
  BY <1>1 DEF BaseInv, ControlsInv, SnapTypeOK, SyncControl, Sync
<1>3. Now' = Now /\ Syn' = Syn /\ Targets' = Targets
  BY <1>2 DEF Now, Syn, Targets
<1>4. Recoverable'
  BY <1>2, SameRecover DEF SInv
<1>5. UpInv' /\ SaveInv'
  BY <1>2 DEF UpInv, SaveInv
<1>6. PatchInv'
  BY <1>2, <1>3 DEF SInv, PatchInv, Saving, Applying, Content
<1>7. Synchronous'
  BY <1>2, <1>3 DEF SInv, Synchronous, PowerInv, Saving, Applying
<1> QED BY <1>1, <1>4, <1>5, <1>6, <1>7 DEF SInv

(* The whole patch is on the disk. *)
LEMMA SyncMemoryS == SInv /\ SyncMemory => SInv'
<1> SUFFICES ASSUME SInv, SyncMemory PROVE SInv'
  OBVIOUS
<1>1. BaseInv /\ BaseInv'
  BY SyncMemoryBase DEF SInv
<1>2. /\ pc = "sync memory" /\ pc' \in {"resize north", "down"}
      /\ UNCHANGED <<loom, wat, dit, img, ctl, pat, wrt, old, new, cnt>>
      /\ mem'.syn = mem.now /\ mem'.now = mem.now /\ ctl.now = pat.con
  BY <1>1 DEF BaseInv, ControlsInv, SnapTypeOK, SyncMemory, Sync
<1>3. Now' = Now /\ Syn' = Syn /\ Targets' = Targets
  BY <1>2 DEF Now, Syn, Targets
<1>4. Recoverable'
  BY <1>2, SameRecover DEF SInv
<1>5. UpInv' /\ SaveInv'
  BY <1>2 DEF UpInv, SaveInv
<1>6. ~pat.rec /\ new # Empty /\ PatchFor(pat.con, new) /\ Fits(Now, pat.con, new)
  BY <1>1, <1>2 DEF SInv, PatchInv, BaseInv, ControlsInv, Saving
<1>7. "kill" \notin Crashes => Now = Syn
  BY <1>2 DEF SInv, Synchronous, PowerInv, Applying
<1>8. Leads(pat.con, new)'
  BY <1>2, <1>3, <1>6, <1>7 DEF Leads, Faces
<1>9. new' \in Targets' /\ pat' = pat /\ new' = new
  BY <1>2, <1>6 DEF Targets
<1>10. PatchInv'
  BY <1>2, <1>3, <1>8, <1>9 DEF SInv, PatchInv, Saving, Applying, Content
<1>11. Synchronous'
  BY <1>2, <1>3 DEF SInv, Synchronous, PowerInv, Saving, Applying
<1> QED BY <1>1, <1>4, <1>5, <1>10, <1>11 DEF SInv

(* While the patch is applied, it leads on as long as the images fit it. *)
LEMMA ApplyingStep ==
  ASSUME SInv, pc \in Applying, UNCHANGED <<loom, wat, dit, ctl, mem, wrt, old, new>>,
         pat'.con = pat.con, pat'.rec = pat.rec,
         \A t : Sound(t) /\ PatchFor(pat.con, t) /\ Fits(Now, pat.con, t) => Fits(Now', pat.con, t),
         \A t : Sound(t) /\ PatchFor(pat.con, t) /\ Fits(Now, pat.con, t) /\ Fits(Syn, pat.con, t)
                  => Fits(Syn', pat.con, t)
  PROVE  /\ Recoverable'
         /\ \E t \in Targets' : (~pat'.rec => t = new') /\ Leads(pat.con, t)'
         /\ ~pat'.rec => new' # Empty /\ new' = Content(loom', wat', wrt')
<1>1. ctl.now = pat.con /\ Valid(pat.con, mem.now)
  BY DEF SInv, BaseInv, ControlsInv
<1>2. PICK t \in Targets : (~pat.rec => t = new) /\ Leads(pat.con, t)
  BY DEF SInv, PatchInv
<1>3. Sound(t)
  BY <1>2 DEF SInv, BaseInv, ContentsInv, Targets
<1>4. PatchFor(pat.con, t) /\ Fits(Now, pat.con, t) /\ ("kill" \notin Crashes => Fits(Syn, pat.con, t))
  BY <1>2 DEF Leads, Faces
<1>5. Fits(Now', pat.con, t) /\ ("kill" \notin Crashes => Fits(Syn', pat.con, t))
  BY <1>3, <1>4
<1>6. Leads(pat.con, t)'
  BY <1>4, <1>5 DEF Leads, Faces
<1>7. Targets' = Targets
  BY DEF Targets
<1>8. ctl'.now = pat'.con /\ mem'.now = mem.now
  BY <1>1
<1>9. Recoverable'
  BY <1>1, <1>2, <1>6, <1>7, <1>8 DEF Recoverable
<1>10. ~pat.rec => new # Empty /\ new = Content(loom, wat, wrt)
  BY DEF SInv, PatchInv
<1>11. ~pat'.rec => new' # Empty /\ new' = Content(loom', wat', wrt')
  BY <1>10
<1> QED BY <1>2, <1>6, <1>7, <1>9, <1>11

(* What is on the disk, while the patch is applied. *)
LEMMA ApplyingPower ==
  ASSUME SInv, pc \in Applying, pc' \in Applying \cup {"down"}, UNCHANGED <<ctl, mem>>,
         pat'.con = pat.con, pc' = "sync south" => img'["north"].now = img'["north"].syn
  PROVE  Synchronous'
<1>1. ctl.now = pat.con /\ Valid(pat.con, mem.now) /\ pat.con \in Controls
  BY DEF SInv, BaseInv, ControlsInv, Valid
<1> SUFFICES ASSUME "kill" \notin Crashes PROVE PowerInv'
  BY DEF Synchronous
<1>2. ctl.syn = pat.con /\ mem.syn = mem.now
  BY DEF SInv, Synchronous, PowerInv
<1>3. UNCHANGED <<ctl, mem, pat.con>>
  OBVIOUS
<1> QED BY <1>1, <1>2, <1>3 DEF PowerInv, Applying

(* An image is cut to its new size. *)
LEMMA ResizeS == SInv /\ Resize => SInv'
<1> SUFFICES ASSUME SInv, Resize PROVE SInv'
  OBVIOUS
<1>1. BaseInv /\ BaseInv' /\ SnapTypeOK /\ HomesInv
  BY ResizeBase DEF SInv, BaseInv
<1>2. pc \in Applying /\ pc' \in Applying /\ UNCHANGED <<loom, wat, dit, ctl, mem, wrt, old, new, cnt>>
  BY DEF Resize, Applying
<1>3. WellFormed(pat.con) /\ WellFormed(pat'.con)
  BY <1>1, <1>2 DEF BaseInv, ControlsInv, Valid
<1>4. pat'.con = pat.con /\ pat'.rec = pat.rec
  BY <1>1 DEF Resize, SnapTypeOK
<1>5. PICK z \in Side : /\ img' = [img EXCEPT ![z] = Resized(@, SizeOf(pat.con, z))]
                        /\ \/ z = "north" /\ pc = "resize north" /\ pc' = "resize south"
                           \/ z = "south" /\ pc = "resize south" /\ pc' = "apply" /\ pat'.done = 0
  BY <1>1 DEF Resize, Side, SizeOf, SnapTypeOK
<1>6. SizeOf(pat.con, z) \in Nat
  BY <1>3, ControlFacts
<1>7. Now' = [Now EXCEPT ![z] = Cut(@, SizeOf(pat.con, z))] /\ Syn' = Syn
  BY <1>1, <1>5, <1>6, ResizedFacts
<1>8. Now \in [Side -> Seq(Value)]
  BY <1>1, ImageTypes
<1>9. \A t : Sound(t) /\ PatchFor(pat.con, t) /\ Fits(Now, pat.con, t) => Fits(Now', pat.con, t)
  BY <1>3, <1>7, <1>8, CutFits
<1>10. /\ Recoverable'
       /\ \E t \in Targets' : (~pat'.rec => t = new') /\ Leads(pat.con, t)'
       /\ ~pat'.rec => new' # Empty /\ new' = Content(loom', wat', wrt')
  BY <1>2, <1>4, <1>7, <1>9, ApplyingStep
<1>11. /\ Len(Now'[z]) <= SizeOf(pat.con, z)
       /\ \A s \in Side : s # z => Now'[s] = Now[s]
  <2>1. Now'[z] = Cut(Now[z], SizeOf(pat.con, z)) /\ Now[z] \in Seq(Value)
    BY <1>7, <1>8
  <2>2. Len(Now'[z]) <= SizeOf(pat.con, z)
    BY <2>1, <1>6, CutFacts
  <2> QED BY <2>2, <1>7, <1>8
<1>12. PatchInv'
  <2>1. pc' = "resize south" => Len(img'["north"].now) <= pat'.con.nor
    BY <1>4, <1>5, <1>11 DEF Now, SizeOf
  <2>2. pc' = "apply" => Progress(Now', pat'.con, pat'.done)
    <3> SUFFICES ASSUME pc' = "apply" PROVE Progress(Now', pat'.con, 0)
      BY <1>5
    <3>1. z = "south" /\ pc = "resize south"
      BY <1>5
    <3>2. Len(img["north"].now) <= pat.con.nor
      BY <3>1 DEF SInv, PatchInv
    <3>3. Len(Now["north"]) <= SizeOf(pat.con, "north")
      BY <3>2 DEF Now, SizeOf, Side
    <3>4. \A s \in Side : Len(Now'[s]) <= SizeOf(pat.con, s)
      BY <3>1, <3>3, <1>11 DEF Side
    <3> QED BY <3>4, <1>4 DEF Progress
  <2>3. pc' \in {"resize south", "apply"}
    BY <1>5
  <2> QED BY <2>1, <2>2, <2>3, <1>10 DEF PatchInv, Saving, Applying
<1>13. UpInv' /\ SaveInv'
  BY <1>2 DEF UpInv, SaveInv, Applying
<1>14. Synchronous'
  BY <1>2, <1>4, <1>5, ApplyingPower
<1> QED BY <1>1, <1>10, <1>12, <1>13, <1>14 DEF SInv

(* A page is written to its image. *)
LEMMA ApplyS == SInv /\ Apply => SInv'
<1> SUFFICES ASSUME SInv, Apply PROVE SInv'
  OBVIOUS
<1> DEFINE i == pat.done + 1
<1>1. BaseInv /\ BaseInv' /\ SnapTypeOK /\ HomesInv
  BY ApplyBase DEF SInv, BaseInv
<1>2. pc = "apply" /\ pc' = "apply" /\ UNCHANGED <<loom, wat, dit, ctl, mem, wrt, old, new, cnt>>
      /\ pc \in Applying /\ pc' \in Applying
  BY DEF Apply, Applying
<1>3. WellFormed(pat.con) /\ Verify(pat.con, mem.now)
  BY <1>1, <1>2 DEF BaseInv, ControlsInv, Valid
<1>4. pat'.con = pat.con /\ pat'.rec = pat.rec /\ pat'.done = i
  BY <1>1 DEF Apply, SnapTypeOK
<1>5. i \in 1 .. Len(pat.con.mem) /\ pat.done \in Nat /\ pat.done < Len(pat.con.mem)
  BY <1>1, <1>3, ControlFacts, SMTT(30) DEF SnapTypeOK, Apply
<1>6. img' = Applied(i, pat.con.mem[i].mug)
  BY <1>3, <1>5 DEF Apply, Verify
<1>7. /\ pat.con.mem[i].mug \in Value /\ HomeOnly(pat.con.mem[i].pag, pat.con.mem[i].mug)
      /\ pat.con.mem[i].pag \in PagesOf(pat.con)
  BY <1>3, <1>5, ControlFacts DEF WellFormed, PagesOf
<1> HIDE DEF i
<1>8. Now' = Written(Now, pat.con.mem[i].pag, pat.con.nor, pat.con.mem[i].mug) /\ Syn' = Syn
  BY <1>1, <1>3, <1>5, <1>6, <1>7, AppliedFacts
<1>9. Now \in [Side -> Seq(Value)]
  BY <1>1, ImageTypes
<1>10. \A t : Sound(t) /\ PatchFor(pat.con, t) /\ Fits(Now, pat.con, t) => Fits(Now', pat.con, t)
  BY <1>3, <1>7, <1>8, <1>9, WrittenFits
<1>11. /\ Recoverable'
       /\ \E t \in Targets' : (~pat'.rec => t = new') /\ Leads(pat.con, t)'
       /\ ~pat'.rec => new' # Empty /\ new' = Content(loom', wat', wrt')
  BY <1>2, <1>4, <1>8, <1>10, ApplyingStep
<1>12. Progress(Now', pat.con, i)
  <2>1. Progress(Now, pat.con, pat.done)
    BY <1>2 DEF SInv, PatchInv
  <2> QED BY <2>1, <1>3, <1>5, <1>8, <1>9, WrittenProgress DEF i
<1>13. PatchInv'
  BY <1>2, <1>4, <1>11, <1>12 DEF PatchInv, Saving, Applying
<1>14. UpInv' /\ SaveInv'
  BY <1>2 DEF UpInv, SaveInv
<1>15. Synchronous'
  BY <1>2, <1>4, ApplyingPower
<1> QED BY <1>1, <1>11, <1>13, <1>14, <1>15 DEF SInv

(* The first image is synced. *)
LEMMA SyncNorthS == SInv /\ SyncNorth => SInv'
<1> SUFFICES ASSUME SInv, SyncNorth PROVE SInv'
  OBVIOUS
<1>1. BaseInv /\ BaseInv' /\ SnapTypeOK /\ HomesInv
  BY SyncImageBase DEF SInv, BaseInv
<1>2. /\ pc = "apply" /\ pc' = "sync south" /\ pat.done = Len(pat.con.mem)
      /\ pc \in Applying /\ pc' \in Applying
      /\ UNCHANGED <<loom, wat, dit, ctl, mem, pat, wrt, old, new, cnt>>
      /\ img' = [img EXCEPT !["north"] = Sync(@)]
  BY DEF SyncNorth, Applying
<1>3. WellFormed(pat.con) /\ pat'.con = pat.con /\ pat'.rec = pat.rec
  BY <1>1, <1>2 DEF BaseInv, ControlsInv, Valid
<1>4. Now' = Now /\ Syn' = [Syn EXCEPT !["north"] = Now["north"]] /\ "north" \in Side
  BY <1>1, <1>2, SyncedFacts DEF Side
<1>5. /\ Now \in [Side -> Seq(Value)] /\ Syn \in [Side -> Seq(Value)]
      /\ \A s \in Side : Len(Now[s]) \in Nat /\ Len(Syn[s]) \in Nat
      /\ \A s \in Side : Now[s] = img[s].now
  BY <1>1, ImageTypes
<1>6. Syn' \in [Side -> Seq(Value)] /\ \A s \in Side : Syn'[s] \in {Now[s], Syn[s]}
  BY <1>4, <1>5
<1>7. \A s \in Side : Mixes(Syn'[s], Now[s], Syn[s])
  BY <1>5, <1>6 DEF Mixes
<1>8. \A t : Sound(t) /\ PatchFor(pat.con, t) /\ Fits(Now, pat.con, t) /\ Fits(Syn, pat.con, t)
               => Fits(Syn', pat.con, t)
  BY <1>3, <1>5, <1>6, <1>7, MixedFits
<1>9. /\ Recoverable'
      /\ \E t \in Targets' : (~pat'.rec => t = new') /\ Leads(pat.con, t)'
      /\ ~pat'.rec => new' # Empty /\ new' = Content(loom', wat', wrt')
  BY <1>2, <1>3, <1>4, <1>8, ApplyingStep
<1>10. Done(Now, pat.con)
  <2>1. Progress(Now, pat.con, Len(pat.con.mem))
    BY <1>2 DEF SInv, PatchInv
  <2>2. \E t : Fits(Now, pat.con, t)
    BY <1>2 DEF SInv, PatchInv, Leads, Faces
  <2> QED BY <2>1, <2>2, <1>3, <1>5, ProgressDone
<1>11. PatchInv'
  BY <1>2, <1>3, <1>4, <1>9, <1>10 DEF PatchInv, Saving, Applying
<1>12. UpInv' /\ SaveInv'
  BY <1>2 DEF UpInv, SaveInv
<1>13. img'["north"].now = img'["north"].syn
  <2>1. Now'["north"] = img'["north"].now /\ Syn'["north"] = img'["north"].syn
    BY <1>4 DEF Now, Syn
  <2> QED BY <2>1, <1>4, <1>5
<1>14. Synchronous'
  BY <1>2, <1>3, <1>13, ApplyingPower
<1> QED BY <1>1, <1>9, <1>11, <1>12, <1>14 DEF SInv

(* And the second: the images hold the content, on the disk too. *)
LEMMA SyncSouthS == SInv /\ SyncSouth => SInv'
<1> SUFFICES ASSUME SInv, SyncSouth PROVE SInv'
  OBVIOUS
<1>1. BaseInv /\ BaseInv' /\ SnapTypeOK /\ HomesInv
  BY SyncImageBase DEF SInv, BaseInv
<1>2. /\ pc = "sync south" /\ pc' = "delete control" /\ pc \in Applying
      /\ UNCHANGED <<loom, wat, dit, ctl, mem, pat, wrt, old, new, cnt>>
      /\ img' = [img EXCEPT !["south"] = Sync(@)]
  BY DEF SyncSouth, Applying
<1>3. WellFormed(pat.con) /\ ctl.now = pat.con /\ pat'.con = pat.con /\ pat'.rec = pat.rec
  BY <1>1, <1>2 DEF BaseInv, ControlsInv, Valid
<1>4. Now' = Now /\ Syn' = [Syn EXCEPT !["south"] = Now["south"]] /\ "south" \in Side
  BY <1>1, <1>2, SyncedFacts DEF Side
<1>5. /\ Now \in [Side -> Seq(Value)] /\ Syn \in [Side -> Seq(Value)]
      /\ \A s \in Side : Len(Now[s]) \in Nat /\ Len(Syn[s]) \in Nat
      /\ \A s \in Side : Now[s] = img[s].now /\ Syn[s] = img[s].syn
  BY <1>1, ImageTypes
<1>6. Syn' \in [Side -> Seq(Value)] /\ \A s \in Side : Syn'[s] \in {Now[s], Syn[s]}
  BY <1>4, <1>5
<1>7. \A s \in Side : Mixes(Syn'[s], Now[s], Syn[s])
  BY <1>5, <1>6 DEF Mixes
<1>8. \A t : Sound(t) /\ PatchFor(pat.con, t) /\ Fits(Now, pat.con, t) /\ Fits(Syn, pat.con, t)
               => Fits(Syn', pat.con, t)
  BY <1>3, <1>5, <1>6, <1>7, MixedFits
<1>9. /\ Recoverable'
      /\ \E t \in Targets' : (~pat'.rec => t = new') /\ Leads(pat.con, t)'
      /\ ~pat'.rec => new' # Empty /\ new' = Content(loom', wat', wrt')
  BY <1>2, <1>3, <1>4, <1>8, ApplyingStep
<1>10. Done(Now, pat.con)
  BY <1>2 DEF SInv, PatchInv
<1>11. \E t \in Targets' : (~pat'.rec => t = new') /\ Holds(Now', t)
  <2>1. PICK t \in Targets' : (~pat'.rec => t = new') /\ Leads(pat.con, t)'
    BY <1>9
  <2>2. PatchFor(pat.con, t) /\ Fits(Now, pat.con, t)
    BY <2>1, <1>3, <1>4 DEF Leads, Faces
  <2>3. Sound(t)
    BY <2>1, <1>1 DEF BaseInv, ContentsInv, Targets
  <2> QED BY <2>1, <2>2, <2>3, <1>3, <1>4, <1>10, DoneHolds
<1>12. PatchInv'
  BY <1>2, <1>3, <1>4, <1>9, <1>10, <1>11 DEF PatchInv, Saving, Applying
<1>13. UpInv' /\ SaveInv'
  BY <1>2 DEF UpInv, SaveInv
<1>14. Synchronous'
  <2> SUFFICES ASSUME "kill" \notin Crashes PROVE PowerInv'
    BY DEF Synchronous
  <2>1. ctl.syn = ctl.now /\ mem.syn = mem.now /\ Now["north"] = Syn["north"]
    BY <1>2, <1>3, <1>5 DEF SInv, Synchronous, PowerInv, Side
  <2>2. Now' = Syn'
    BY <2>1, <1>4, <1>5 DEF Side
  <2> QED BY <2>1, <2>2, <1>2 DEF PowerInv, Applying
<1> QED BY <1>1, <1>9, <1>12, <1>13, <1>14 DEF SInv

(* The control file is unlinked: the images hold the content without it. *)
LEMMA DeleteControlS == SInv /\ DeleteControl => SInv'
<1> SUFFICES ASSUME SInv, DeleteControl PROVE SInv'
  OBVIOUS
<1>1. BaseInv /\ BaseInv'
  BY DeleteControlBase DEF SInv
<1>2. /\ pc = "delete control" /\ pc' = "delete memory"
      /\ UNCHANGED <<loom, wat, dit, img, mem, pat, wrt, old, new, cnt>>
      /\ ctl'.now = None /\ ctl'.syn = ctl.syn
  BY <1>1 DEF DeleteControl, BaseInv, SnapTypeOK, Write
<1>3. Now' = Now /\ Syn' = Syn /\ Targets' = Targets
  BY <1>2 DEF Now, Syn, Targets
<1>4. Recoverable'
  BY <1>2, <1>3, NoPatch DEF SInv, PatchInv, Recoverable
<1>5. UpInv' /\ SaveInv'
  BY <1>2 DEF UpInv, SaveInv
<1>6. PatchInv'
  BY <1>2, <1>3 DEF SInv, PatchInv, Saving, Applying, Content
<1>7. Synchronous'
  <2> SUFFICES ASSUME "kill" \notin Crashes PROVE PowerInv'
    BY DEF Synchronous
  <2>1. PowerInv
    BY DEF SInv, Synchronous
  <2>2. ASSUME Valid(ctl.syn, mem.syn) PROVE Done(Now, ctl.syn)
    <3>1. CASE ctl.now # ctl.syn
      BY <2>1, <2>2, <3>1 DEF PowerInv
    <3>2. CASE ctl.now = ctl.syn
      <4>1. mem.now = mem.syn
        BY <2>1, <2>2, <3>2, <1>2 DEF PowerInv, Valid
      <4> QED BY <4>1, <2>2, <3>2, <1>2 DEF SInv, PatchInv
    <3> QED BY <3>1, <3>2
  <2>3. ASSUME mem.now \notin {None, mem.syn}, ctl.syn \in Controls
        PROVE  Foreign(ctl.syn, mem.now)
    <3>1. ctl.now # ctl.syn
      BY <2>1, <2>3, <1>2 DEF PowerInv
    <3> QED BY <2>1, <2>3, <3>1 DEF PowerInv
  <2>4. None \notin Controls
    BY SnapshotAssumption
  <2> QED BY <2>1, <2>2, <2>3, <2>4, <1>2, <1>3 DEF PowerInv, Applying
<1> QED BY <1>1, <1>4, <1>5, <1>6, <1>7 DEF SInv

(* memory.bin is unlinked, and the save or the recovery is over. *)
LEMMA DeleteMemoryS == SInv /\ DeleteMemory => SInv'
<1> SUFFICES ASSUME SInv, DeleteMemory PROVE SInv'
  OBVIOUS
<1>1. BaseInv /\ BaseInv'
  BY DeleteMemoryBase DEF SInv
<1>2. /\ pc = "delete memory" /\ pc' \in {"blit", "up"} /\ ctl.now = None
      /\ UNCHANGED <<loom, wat, dit, img, ctl, pat, wrt, cnt>>
      /\ mem'.now = None /\ mem'.syn = mem.syn
      /\ pat.rec => pc' = "blit" /\ UNCHANGED <<old, new>>
      /\ ~pat.rec => pc' = "up" /\ old' = new /\ new' = Empty
  BY <1>1 DEF DeleteMemory, BaseInv, ControlsInv, SnapTypeOK, Write
<1>3. Now' = Now /\ Syn' = Syn
  BY <1>2 DEF Now, Syn
<1>4. PICK t \in Targets : (~pat.rec => t = new) /\ Holds(Now, t)
  BY <1>2 DEF SInv, PatchInv
<1>5. ~pat.rec => new # Empty /\ new = Content(loom, wat, wrt)
  BY <1>2 DEF SInv, PatchInv
<1>6. t \in Targets'
  BY <1>2, <1>4 DEF Targets
<1>7. Recoverable'
  BY <1>2, <1>3, <1>4, <1>6, NoPatch DEF Recoverable
<1>8. UpInv'
  <2> SUFFICES ASSUME pc' = "up" PROVE UpInv'
    BY DEF UpInv
  <2>1. ~pat.rec /\ old' = new /\ new' = Empty /\ Holds(Now, new)
    BY <1>2, <1>4
  <2>2. new.wat = wat /\ DOMAIN new.mem = wrt /\ \A p \in wrt : new.mem[p] = loom[p]
    BY <2>1, <1>5 DEF Content
  <2> QED BY <2>1, <2>2, <1>2, <1>3 DEF UpInv
<1>9. SaveInv' /\ PatchInv'
  BY <1>2 DEF SaveInv, PatchInv, Saving, Applying
<1>10. Synchronous'
  <2>1. None \notin Controls
    BY SnapshotAssumption
  <2> QED BY <2>1, <1>2, <1>3, NoPatch DEF SInv, Synchronous, PowerInv, Applying
<1> QED BY <1>1, <1>7, <1>8, <1>9, <1>10 DEF SInv

(* The images are opened. *)
LEMMA OpenS == SInv /\ Open => SInv'
<1> SUFFICES ASSUME SInv, Open PROVE SInv'
  OBVIOUS
<1>1. BaseInv'
  BY OpenBase DEF SInv
<1>2. /\ pc = "down" /\ pc' \in {"corrupt", "patch"}
      /\ UNCHANGED <<loom, wat, dit, img, ctl, mem, pat, wrt, old, new, cnt>>
  BY DEF Open
<1>3. Now' = Now /\ Syn' = Syn
  BY <1>2 DEF Now, Syn
<1>4. Recoverable'
  BY <1>2, SameRecover DEF SInv
<1>5. UpInv' /\ SaveInv' /\ PatchInv'
  BY <1>2 DEF UpInv, SaveInv, PatchInv, Saving, Applying
<1>6. Synchronous'
  BY <1>2, <1>3 DEF SInv, Synchronous, PowerInv, Applying
<1> QED BY <1>1, <1>4, <1>5, <1>6 DEF SInv

(* The patch is opened, if there is one; a patch that is not whole goes.   *)
LEMMA PatchOpenS == SInv /\ PatchOpen => SInv'
<1> SUFFICES ASSUME SInv, PatchOpen PROVE SInv'
  OBVIOUS
<1>1. BaseInv /\ BaseInv'
  BY PatchOpenBase DEF SInv
<1>2. /\ ctl.now \in Controls \cup {None, Partial} /\ mem.now \in Seq(Value) \cup {None}
      /\ pat \in [con : Controls, done : Nat, rec : BOOLEAN]
  BY <1>1 DEF BaseInv, SnapTypeOK
<1>3. pc = "patch" /\ UNCHANGED <<loom, wat, dit, img, ctl, mem, wrt, old, new, cnt>>
  BY DEF PatchOpen
<1>4. \/ pc' = "blit" /\ ~Valid(ctl.now, mem.now)
      \/ pc' = "delete control" /\ ~Valid(ctl.now, mem.now) /\ pat'.rec
      \/ pc' = "resize north" /\ Valid(ctl.now, mem.now) /\ pat'.rec /\ pat'.con = ctl.now
  <2>1. CASE ctl.now = None
    BY <2>1, NoPatch DEF PatchOpen
  <2>2. CASE ctl.now # None /\ (mem.now = None \/ ctl.now = Partial)
    <3>1. pc' = "delete control" /\ pat' = [pat EXCEPT !.rec = TRUE]
      BY <2>2 DEF PatchOpen
    <3>2. ~Valid(ctl.now, mem.now)
      BY <2>2, NoPatch, SnapshotAssumption DEF Valid
    <3> QED BY <3>1, <3>2, <1>2
  <2>3. CASE ctl.now # None /\ mem.now # None /\ ctl.now # Partial
    <3>1. /\ pat' = [con |-> ctl.now, done |-> 0, rec |-> TRUE]
          /\ pc' = IF Verify(ctl.now, mem.now) THEN "resize north" ELSE "delete control"
      BY <2>3 DEF PatchOpen
    <3>2. Valid(ctl.now, mem.now) <=> Verify(ctl.now, mem.now)
      BY <2>3, <1>2 DEF Valid
    <3>3. pat'.rec /\ pat'.con = ctl.now
      BY <3>1
    <3> QED BY <3>1, <3>2, <3>3
  <2> QED BY <2>1, <2>2, <2>3
<1>5. Now' = Now /\ Syn' = Syn /\ Targets' = Targets
  BY <1>3 DEF Now, Syn, Targets
<1>6. Recoverable'
  BY <1>3, SameRecover DEF SInv
<1>7. UpInv' /\ SaveInv'
  BY <1>4 DEF UpInv, SaveInv
<1>8. PatchInv'
  <2>1. CASE pc' = "blit"
    BY <2>1 DEF PatchInv, Saving, Applying
  <2>2. CASE pc' = "delete control"
    <3>1. \E t \in Targets : Holds(Now, t)
      BY <2>2, <1>4 DEF SInv, Recoverable
    <3> QED BY <2>2, <3>1, <1>3, <1>4, <1>5 DEF PatchInv, Saving, Applying
  <2>3. CASE pc' = "resize north"
    <3>1. PICK t \in Targets : Leads(ctl.now, t)
      BY <2>3, <1>4 DEF SInv, Recoverable
    <3>2. Leads(pat.con, t)'
      BY <2>3, <3>1, <1>4, <1>5 DEF Leads, Faces
    <3> QED BY <2>3, <3>1, <3>2, <1>4, <1>5 DEF PatchInv, Saving, Applying
  <2> QED BY <2>1, <2>2, <2>3, <1>4
<1>9. Synchronous'
  <2> SUFFICES ASSUME "kill" \notin Crashes PROVE PowerInv'
    BY DEF Synchronous
  <2>1. PowerInv
    BY DEF SInv, Synchronous
  <2>2. pc' = "resize north" => ctl.syn = pat'.con /\ mem.syn = mem.now
    <3> SUFFICES ASSUME pc' = "resize north" PROVE ctl.syn = pat'.con /\ mem.syn = mem.now
      OBVIOUS
    <3>1. ctl.now \in Controls /\ ctl.now \notin {None, Partial} /\ pat'.con = ctl.now
      BY <1>4, SnapshotAssumption DEF Valid
    <3>2. ctl.now = ctl.syn
      BY <2>1, <3>1, <1>3 DEF PowerInv
    <3>3. mem.now = mem.syn
      BY <2>1, <3>1, <3>2, <1>3 DEF PowerInv
    <3> QED BY <3>1, <3>2, <3>3
  <2>3. Now # Syn => pc' = "resize north"
    BY <2>1, <1>4 DEF PowerInv
  <2> QED BY <2>1, <2>2, <2>3, <1>3, <1>4, <1>5 DEF PowerInv, Applying
<1> QED BY <1>1, <1>6, <1>7, <1>8, <1>9 DEF SInv

(* The images are loaded. *)
LEMMA BlitS == SInv /\ Blit => SInv'
<1> SUFFICES ASSUME SInv, Blit PROVE SInv'
  OBVIOUS
<1>1. BaseInv /\ BaseInv' /\ SnapTypeOK
  BY BlitBase DEF SInv, BaseInv
<1>2. pc = "blit" /\ UNCHANGED <<img, ctl, mem, pat, cnt>> /\ ctl.now = None
  BY <1>1 DEF Blit, BaseInv, ControlsInv
<1>3. Now' = Now /\ Syn' = Syn
  BY <1>2 DEF Now, Syn
<1>4. PICK t \in Targets : Holds(Now, t)
  BY <1>2, NoPatch DEF SInv, Recoverable
<1>5. pc' \in {"too big", "up"}
  BY DEF Blit
<1>6. Synchronous'
  BY <1>2, <1>3, <1>5 DEF SInv, Synchronous, PowerInv, Applying
<1>7. SaveInv' /\ PatchInv'
  BY <1>5 DEF SaveInv, PatchInv, Saving, Applying
<1>8. CASE TooBig(Loaded.wat)
  <2>1. pc' = "too big" /\ UNCHANGED <<old, new>>
    BY <1>8 DEF Blit
  <2>2. Recoverable'
    BY <2>1, <1>2, SameRecover DEF SInv
  <2>3. UpInv'
    BY <2>1 DEF UpInv
  <2> QED BY <2>2, <2>3, <1>1, <1>6, <1>7 DEF SInv
<1>9. CASE ~TooBig(Loaded.wat)
  <2>1. /\ wat' = Loaded.wat
        /\ loom' = [p \in Page |-> IF p \in DOMAIN Loaded.mem THEN Loaded.mem[p] ELSE Zero]
        /\ old' = IF new # Empty /\ Is(Loaded, new) THEN new ELSE old
        /\ wrt' = DOMAIN old'.mem /\ new' = Empty /\ pc' = "up"
    BY <1>9 DEF Blit
  <2>2. /\ Loaded.wat \in [north : 0 .. Pages, south : 0 .. Pages]
        /\ Loaded.wat.north = Len(Now["north"]) /\ Loaded.wat.south = Len(Now["south"])
        /\ DOMAIN Loaded.mem = InUse(Loaded.wat)
        /\ \A p \in InUse(Loaded.wat) : Loaded.mem[p] = At(Now, p, Loaded.wat.north)
    BY <1>1, LoadedFacts
  <2>3. Sound(old) /\ Sound(new) /\ Sound(t)
    BY <1>1, <1>4 DEF BaseInv, ContentsInv, Targets
  <2>4. ASSUME NEW c, Sound(c) PROVE Is(Loaded, c) <=> Holds(Now, c)
    <3>1. c.wat \in [north : 0 .. Pages, south : 0 .. Pages] /\ DOMAIN c.mem \subseteq InUse(c.wat)
      BY <2>4 DEF Sound
    <3>2. Loaded.wat = c.wat <=> Len(Now["north"]) = c.wat.north /\ Len(Now["south"]) = c.wat.south
      BY <2>2, <3>1
    <3>3. ASSUME Loaded.wat = c.wat
          PROVE  \A p \in DOMAIN c.mem : Loaded.mem[p] = At(Now, p, c.wat.north)
      BY <3>1, <3>3, <2>2
    <3> QED BY <3>2, <3>3 DEF Is, Holds
  <2>5. Holds(Now, old')
    BY <2>1, <2>3, <2>4, <1>4 DEF Targets
  <2>6. Sound(old') /\ Is(Loaded, old')
    BY <2>1, <2>3, <2>4, <2>5
  <2>7. \A p \in DOMAIN old'.mem : p \in Page /\ p \in DOMAIN Loaded.mem
    BY <2>2, <2>6 DEF Sound, Is, InUse
  <2>8. UpInv'
    BY <2>1, <2>5, <2>6, <2>7, <1>3 DEF UpInv, Is
  <2>9. Recoverable'
    BY <2>5, <1>2, <1>3, NoPatch DEF Recoverable, Targets
  <2> QED BY <2>8, <2>9, <1>1, <1>6, <1>7 DEF SInv
<1> QED BY <1>8, <1>9

(* The pages of memory.bin that is made anew do not verify an old patch.   *)
LEMMA ForeignLost ==
  ASSUME NEW c, WellFormed(c), NEW r \in Nat, HomeBy(c, r), NEW m \in Seq(Value), Foreign(c, m),
         NEW x \in Seq(Value), Len(x) <= Len(m),
         \A i \in 1 .. Len(x) : x[i] \in {m[i], Zero, Torn}
  PROVE  ~Verify(c, x)
<1> SUFFICES ASSUME Verify(c, x) PROVE FALSE
  OBVIOUS
<1>1. PICK i \in 1 .. Len(c.mem) :
        c.mem[i].pag = Pages - 1 /\ \A j \in 1 .. Len(m) : m[j] # c.mem[i].mug
  BY DEF Foreign
<1>2. PICK k \in 0 .. r : c.mem[i].mug = <<Pages - 1, k>>
  BY <1>1, SMTT(30) DEF HomeBy
<1>3. <<Pages - 1, k>> \in Page \X Nat
  BY <1>2, SnapshotAssumption, SMTT(30) DEF Page
<1>4. c.mem[i].mug \notin {Zero, Torn}
  BY <1>2, <1>3, SnapshotAssumption, SMTT(30)
<1>5. i \in 1 .. Len(x) /\ x[i] = c.mem[i].mug /\ i \in 1 .. Len(m)
  <2>1. Len(c.mem) <= Len(x) /\ x[i] = c.mem[i].mug /\ Len(c.mem) \in Nat
        /\ Len(x) \in Nat /\ Len(m) \in Nat
    BY ControlFacts DEF Verify
  <2> QED BY <2>1
<1> QED BY <1>1, <1>4, <1>5

(* A loss of power: what is left on the disk leads to a saved content. *)
LEMMA PowerS ==
  ASSUME SInv, "kill" \notin Crashes,
         UNCHANGED <<old, new>>,
         NEW r \in [Side -> Seq(Value)], \A s \in Side : r[s] \in Survivors(img[s]),
         Now' = r, Syn' = r,
         NEW x \in Remnants(ctl), ctl'.now = x,
         NEW y \in Leftovers(mem), mem'.now = y
  PROVE  Recoverable'
<1>1. BaseInv /\ SnapTypeOK /\ PowerInv /\ PatchInv /\ Recoverable
  BY DEF SInv, BaseInv, Synchronous
<1>2. Targets' = Targets /\ Faces' = {r}
  BY DEF Targets, Faces
<1>3. /\ Now \in [Side -> Seq(Value)] /\ Syn \in [Side -> Seq(Value)]
      /\ \A s \in Side : Now[s] = img[s].now /\ Syn[s] = img[s].syn
  BY <1>1, ImageTypes
<1>4. \A s \in Side : img[s] \in [now : Seq(Value), syn : Seq(Value)]
  BY <1>1 DEF SnapTypeOK
<1>5. Now = Syn => r = Now
  <2> SUFFICES ASSUME Now = Syn PROVE r = Now
    OBVIOUS
  <2>1. \A s \in Side : r[s] = Now[s]
    BY <1>3 DEF Survivors
  <2> QED BY <2>1, <1>3
<1>6. \A s \in Side : Mixes(r[s], Now[s], Syn[s])
  BY <1>3, <1>4, SurvivorFacts
<1>7. mem \in [now : Seq(Value) \cup {None}, syn : Seq(Value) \cup {None}]
  BY <1>1 DEF SnapTypeOK
<1>8. /\ y \in Seq(Value) \cup {None}
      /\ mem.now = mem.syn => y = mem.now
      /\ \/ y \in {None, mem.syn}
         \/ /\ mem.now \in Seq(Value) /\ y \in Seq(Value) /\ Len(y) <= Len(mem.now)
            /\ \A i \in 1 .. Len(y) : y[i] \in {mem.now[i], Zero, Torn}
  BY <1>7, LeftoverFacts
<1>9. \A t \in Targets : Sound(t)
  BY <1>1 DEF BaseInv, ContentsInv, Targets
<1>10. CASE pc \in {"sync control", "sync memory"} /\ x = pat.con
  <2>1. /\ Now = Syn /\ new # Empty /\ Holds(Now, old)
        /\ PatchFor(pat.con, new) /\ Fits(Now, pat.con, new)
    BY <1>1, <1>10 DEF PowerInv, PatchInv, Saving, Applying, BaseInv, ControlsInv
  <2>2. Leads(ctl.now, new)'
    BY <2>1, <1>2, <1>5, <1>10 DEF Leads
  <2>3. old \in Targets' /\ new \in Targets' /\ Holds(Now', old)
    BY <2>1, <1>2, <1>5 DEF Targets
  <2> QED BY <2>2, <2>3 DEF Recoverable
<1>11. CASE ctl.now = ctl.syn /\ ~(pc \in {"sync control", "sync memory"} /\ x = pat.con)
  <2>1. x = ctl.now
    BY <1>11 DEF Remnants
  <2>2. CASE Valid(ctl.now, mem.now)
    <3>1. pc \notin {"sync control", "sync memory"}
      BY <2>1, <1>1, <1>11 DEF BaseInv, ControlsInv
    <3>2. mem.now = mem.syn /\ y = mem.now
      BY <2>2, <3>1, <1>1, <1>8, <1>11 DEF PowerInv, Valid
    <3>3. PICK t \in Targets : Leads(ctl.now, t)
      BY <2>2, <1>1 DEF Recoverable
    <3>4. WellFormed(ctl.now) /\ Sound(t)
      BY <2>2, <1>1, <1>9 DEF BaseInv, ControlsInv, Valid
    <3>5. PatchFor(ctl.now, t) /\ Fits(Now, ctl.now, t) /\ Fits(Syn, ctl.now, t)
      BY <3>3 DEF Leads, Faces
    <3>6. Fits(r, ctl.now, t)
      BY <3>4, <3>5, <1>3, <1>6, MixedFits
    <3>7. Leads(ctl.now, t)'
      BY <3>5, <3>6, <2>1, <1>2 DEF Leads
    <3> QED BY <2>1, <2>2, <3>2, <3>3, <3>7, <1>2 DEF Recoverable
  <2>3. CASE ~Valid(ctl.now, mem.now)
    <3>1. Now = Syn
      BY <2>3, <1>1 DEF PowerInv
    <3>2. \E t \in Targets : Holds(Now, t)
      BY <2>3, <1>1 DEF Recoverable
    <3>3. ~Valid(x, y)
      <4>1. CASE ctl.now \in Controls
        <5>1. pc \notin {"sync control", "sync memory"}
          BY <2>1, <1>1, <1>11 DEF BaseInv, ControlsInv
        <5>2. y = mem.now
          BY <4>1, <5>1, <1>1, <1>8, <1>11 DEF PowerInv
        <5> QED BY <5>2, <2>1, <2>3
      <4>2. CASE ctl.now \notin Controls
        BY <4>2, <2>1 DEF Valid
      <4> QED BY <4>1, <4>2
    <3> QED BY <3>1, <3>2, <3>3, <1>2, <1>5 DEF Recoverable
  <2> QED BY <2>2, <2>3
<1>12. CASE ctl.now # ctl.syn /\ ~(pc \in {"sync control", "sync memory"} /\ x = pat.con)
  <2>1. Now = Syn
    BY <1>1, <1>12 DEF PowerInv
  <2>2. PICK t \in Targets : Holds(Now, t)
    <3>1. CASE pc = "sync control"
      BY <3>1, <1>1 DEF PatchInv, Saving, Targets
    <3>2. CASE pc # "sync control"
      BY <3>2, <1>1, <1>12, NoPatch DEF PowerInv, Recoverable
    <3> QED BY <3>1, <3>2
  <2>3. x \in {None, Partial, ctl.syn}
    <3>1. x \in {None, Partial, ctl.syn, ctl.now}
      BY DEF Remnants
    <3>2. x = ctl.now => x \in {None, Partial}
      BY <1>1, <1>12 DEF PowerInv, BaseInv, ControlsInv
    <3> QED BY <3>1, <3>2
  <2>4. CASE ~Valid(x, y)
    BY <2>1, <2>2, <2>4, <1>2, <1>5 DEF Recoverable
  <2>5. CASE Valid(x, y)
    <3>1. x = ctl.syn /\ ctl.syn \in Controls /\ y # None
      BY <2>3, <2>5, NoPatch, SnapshotAssumption DEF Valid
    <3>2. WellFormed(ctl.syn) /\ HomeBy(ctl.syn, cnt.run) /\ cnt.run \in Nat
      <4>1. WellFormed(ctl.syn) /\ HomeBy(ctl.syn, cnt.run)
        BY <3>1, <1>1 DEF BaseInv, ControlsInv
      <4>2. cnt \in [run : 0 .. MaxRun, crash : 0 .. MaxCrash] /\ MaxRun \in Nat
        BY <1>1, SnapshotAssumption DEF SnapTypeOK
      <4>3. cnt.run \in Nat
        BY <4>2
      <4> QED BY <4>1, <4>3
    <3>3. y = mem.syn
      <4> SUFFICES ASSUME y # mem.syn PROVE FALSE
        OBVIOUS
      <4>1. /\ mem.now \in Seq(Value) /\ y \in Seq(Value) /\ Len(y) <= Len(mem.now)
            /\ \A i \in 1 .. Len(y) : y[i] \in {mem.now[i], Zero, Torn}
        BY <3>1, <1>8
      <4>2. mem.now \notin {None, mem.syn}
        BY <4>1, <1>8, SnapshotAssumption
      <4>3. Foreign(ctl.syn, mem.now)
        BY <4>2, <3>1, <1>1, <1>12 DEF PowerInv
      <4>4. ~Verify(ctl.syn, y)
        BY <4>1, <4>3, <3>2, ForeignLost
      <4> QED BY <4>4, <3>1, <2>5 DEF Valid
    <3>4. Done(Now, ctl.syn)
      BY <3>1, <3>3, <2>5, <1>1, <1>12 DEF PowerInv
    <3>5. PatchFor(ctl.syn, t) /\ Fits(Now, ctl.syn, t)
      BY <3>2, <3>4, <2>2, <1>9, HoldsDone
    <3>6. Leads(ctl.now, t)'
      BY <3>1, <3>5, <2>1, <1>2, <1>5 DEF Leads
    <3> QED BY <2>2, <2>5, <3>6, <1>2 DEF Recoverable
  <2> QED BY <2>4, <2>5
<1> QED BY <1>10, <1>11, <1>12

(* A crash.  Were both kinds to happen, a patch that was never synced      *)
(* could be applied after a kill and be gone after a loss of power.        *)
LEMMA CrashS ==
  ASSUME SInv, Crash, ~({"kill", "power"} \subseteq Crashes)
  PROVE  SInv'
<1>1. /\ BaseInv /\ BaseInv' /\ SnapTypeOK
      /\ pc' = "down" /\ UNCHANGED <<old, new>>
  BY CrashBase DEF SInv, BaseInv, Crash
<1>2. UpInv' /\ SaveInv' /\ PatchInv'
  BY <1>1 DEF UpInv, SaveInv, PatchInv, Saving, Applying
<1>3. CASE "kill" \in Crashes /\ UNCHANGED <<img, ctl, mem>>
  <2>1. Recoverable'
    BY <1>1, <1>3, SameRecover DEF SInv
  <2> QED BY <2>1, <1>1, <1>2, <1>3 DEF SInv, Synchronous
<1>4. ASSUME "kill" \notin Crashes,
             NEW n \in Survivors(img["north"]), NEW s \in Survivors(img["south"]),
             img' = [i \in Side |-> Synced(IF i = "north" THEN n ELSE s)],
             NEW x \in Remnants(ctl), ctl' = Synced(x),
             NEW y \in Leftovers(mem), mem' = Synced(y)
      PROVE  SInv'
  <2> DEFINE r == [i \in Side |-> IF i = "north" THEN n ELSE s]
  <2>0. img["north"] \in [now : Seq(Value), syn : Seq(Value)]
        /\ img["south"] \in [now : Seq(Value), syn : Seq(Value)]
    BY <1>1 DEF SnapTypeOK, Side
  <2>1. n \in Seq(Value) /\ s \in Seq(Value)
    BY <2>0, SurvivorFacts
  <2>2. r \in [Side -> Seq(Value)] /\ \A i \in Side : r[i] \in Survivors(img[i])
    BY <2>1 DEF Side
  <2>3. \A i \in Side : img'[i] = [now |-> r[i], syn |-> r[i]]
    BY <1>4 DEF Synced
  <2>4. r = [i \in Side |-> r[i]]
    OBVIOUS
  <2> HIDE DEF r
  <2>5. ASSUME NEW i \in Side PROVE img'[i].now = r[i] /\ img'[i].syn = r[i]
    <3>1. img'[i] = [now |-> r[i], syn |-> r[i]]
      BY <2>3
    <3> QED BY <3>1
  <2>6. Now' = r /\ Syn' = r
    BY <2>4, <2>5 DEF Now, Syn
  <2>7. ctl'.now = x /\ ctl'.syn = x /\ mem'.now = y /\ mem'.syn = y
    BY <1>4 DEF Synced
  <2>8. Recoverable'
    BY <1>1, <1>4, <2>2, <2>6, <2>7, PowerS
  <2>9. PowerInv'
    BY <1>1, <2>6, <2>7 DEF PowerInv, Applying
  <2> QED BY <2>8, <2>9, <1>1, <1>2 DEF SInv, Synchronous
<1>5. PICK c \in Crashes :
        IF c = "kill" THEN UNCHANGED <<img, ctl, mem>>
        ELSE /\ \E n \in Survivors(img["north"]), s \in Survivors(img["south"]) :
                  img' = [i \in Side |-> Synced(IF i = "north" THEN n ELSE s)]
             /\ \E x \in Remnants(ctl) : ctl' = Synced(x)
             /\ \E x \in Leftovers(mem) : mem' = Synced(x)
  BY DEF Crash
<1>6. CASE c = "kill"
  BY <1>3, <1>5, <1>6
<1>7. CASE c # "kill"
  <2>1. "kill" \notin Crashes
    BY <1>5, <1>7, SnapshotAssumption
  <2> QED BY <2>1, <1>4, <1>5, <1>7
<1> QED BY <1>6, <1>7

(* A write that comes up short *)
LEMMA ShortWriteS == SInv /\ ShortWrite => SInv'
<1> SUFFICES ASSUME SInv, ShortWrite PROVE SInv'
  OBVIOUS
<1>1. /\ BaseInv /\ BaseInv' /\ SnapTypeOK
      /\ pc' = "down" /\ UNCHANGED <<loom, wat, dit, ctl, pat, wrt, old, new>>
      /\ pat.done < Len(pat.con.mem)
  BY ShortWriteBase DEF SInv, BaseInv, ShortWrite
<1>2. UpInv' /\ SaveInv' /\ PatchInv'
  BY <1>1 DEF UpInv, SaveInv, PatchInv, Saving, Applying
<1>3. CASE pc = "pages" /\ mem' = Write(mem, Append(mem.now, Short)) /\ UNCHANGED img
  <2>1. ctl.now = Partial /\ mem.now \in Seq(Value) /\ Short \in Value
    BY <1>1, <1>3 DEF BaseInv, ControlsInv, Value
  <2>2. mem'.now = Append(mem.now, Short) /\ mem'.syn = mem.syn
    BY <1>1, <1>3 DEF Write, SnapTypeOK
  <2>3. Recoverable'
    BY <1>1, <1>3, <2>1, NoPatch, SameRecover DEF SInv
  <2>4. Synchronous'
    <3> SUFFICES ASSUME "kill" \notin Crashes PROVE PowerInv'
      BY DEF Synchronous
    <3>1. PowerInv
      BY DEF SInv, Synchronous
    <3>2. Now = Syn /\ Now' = Now /\ Syn' = Syn
      BY <1>3, <3>1 DEF PowerInv, Applying, Now, Syn
    <3>3. ASSUME ctl.syn \in Controls PROVE Foreign(ctl.syn, Append(mem.now, Short))
      <4>1. ctl.now # ctl.syn
        BY <2>1, <3>3, SnapshotAssumption
      <4>2. Foreign(ctl.syn, mem.now) /\ WellFormed(ctl.syn) /\ HomeBy(ctl.syn, cnt.run)
        BY <1>1, <1>3, <3>1, <3>3, <4>1 DEF PowerInv, BaseInv, ControlsInv
      <4>3. cnt.run \in Nat
        <5>1. cnt \in [run : 0 .. MaxRun, crash : 0 .. MaxCrash] /\ MaxRun \in Nat
          BY <1>1, SnapshotAssumption DEF SnapTypeOK
        <5> QED BY <5>1
      <4>4. Short \notin {Pages - 1} \X (0 .. cnt.run)
        BY <4>3, SnapshotAssumption DEF Page
      <4>5. \A i \in 1 .. Len(ctl.syn.mem) :
              ctl.syn.mem[i].pag = Pages - 1 => Short # ctl.syn.mem[i].mug
        BY <4>2, <4>4 DEF HomeBy
      <4> QED BY <2>1, <4>2, <4>5, AppendForeign
    <3>4. ctl'.now = Partial /\ ctl'.syn = ctl.syn /\ Partial \notin Controls
      BY <1>1, <2>1, SnapshotAssumption
    <3>5. Valid(ctl'.syn, mem'.syn) => Done(Now', ctl'.syn)
      BY <2>1, <2>2, <3>1, <3>2, <3>4 DEF PowerInv, Valid
    <3> QED BY <1>1, <2>2, <3>2, <3>3, <3>4, <3>5 DEF PowerInv, Applying
  <2> QED BY <1>1, <1>2, <2>3, <2>4 DEF SInv
<1>4. CASE pc = "apply" /\ UNCHANGED mem
  <2> DEFINE i == pat.done + 1
  <2>1. WellFormed(pat.con)
    BY <1>1, <1>4 DEF BaseInv, ControlsInv, Applying, Valid
  <2>2. i \in 1 .. Len(pat.con.mem)
    <3>1. pat.done \in Nat /\ Len(pat.con.mem) \in Nat
      BY <1>1, <2>1, ControlFacts DEF SnapTypeOK
    <3> QED BY <3>1, <1>1
  <2>3. PICK x \in {Short, Torn} : img' = Applied(i, x)
    BY <1>4 DEF ShortWrite
  <2>4. x \in Value
    BY <2>3 DEF Value
  <2> HIDE DEF i
  <2>5. HomeOnly(pat.con.mem[i].pag, x)
    BY <2>3, JunkHomes
  <2>6. Now' = Written(Now, pat.con.mem[i].pag, pat.con.nor, x) /\ Syn' = Syn
    BY <1>1, <2>1, <2>2, <2>3, <2>4, <2>5, AppliedFacts DEF BaseInv
  <2>7. Now \in [Side -> Seq(Value)] /\ pat.con.mem[i].pag \in PagesOf(pat.con)
    BY <1>1, <2>2, ImageTypes DEF PagesOf
  <2>8. \A t : Sound(t) /\ PatchFor(pat.con, t) /\ Fits(Now, pat.con, t) => Fits(Now', pat.con, t)
    BY <2>1, <2>4, <2>6, <2>7, WrittenFits
  <2>9. Recoverable'
    BY <1>1, <1>4, <2>6, <2>8, ApplyingStep DEF Applying
  <2>10. Synchronous'
    BY <1>1, <1>4, ApplyingPower DEF Applying
  <2> QED BY <1>1, <1>2, <2>9, <2>10 DEF SInv
<1> QED BY <1>3, <1>4 DEF ShortWrite

(* Nothing happens. *)
LEMMA StutterS == SInv /\ UNCHANGED vars => SInv'
<1> SUFFICES ASSUME SInv, UNCHANGED vars PROVE SInv'
  OBVIOUS
<1>1. UNCHANGED <<pc, loom, wat, dit, img, ctl, mem, pat, wrt, old, new, cnt>>
  BY DEF vars
<1>2. BaseInv'
  BY StutterBase DEF SInv
<1>3. Recoverable'
  BY <1>1, SameRecover DEF SInv
<1>4. Now' = Now /\ Syn' = Syn /\ Targets' = Targets /\ Faces' = Faces
  BY <1>1 DEF Now, Syn, Targets, Faces
<1>5. UpInv' /\ SaveInv'
  BY <1>1, <1>4 DEF SInv, UpInv, SaveInv
<1>6. PatchInv'
  BY <1>1, <1>4, ZenonT(60) DEF SInv, PatchInv, Leads
<1>7. Synchronous'
  BY <1>1, <1>4 DEF SInv, Synchronous, PowerInv
<1> QED BY <1>2, <1>3, <1>5, <1>6, <1>7 DEF SInv

-----------------------------------------------------------------------------
(* The theorems *)

(* SInv is inductive when crashes are of one kind. *)
LEMMA NextS ==
  ASSUME SInv, [Next]_vars, ~({"kill", "power"} \subseteq Crashes)
  PROVE  SInv'
BY RunS, FoulS, CreateControlS, CreateMemoryS, SavePageS, WriteControlS, SyncControlS,
   SyncMemoryS, ResizeS, ApplyS, SyncNorthS, SyncSouthS, DeleteControlS, DeleteMemoryS,
   OpenS, PatchOpenS, BlitS, CrashS, ShortWriteS, StutterS DEF Next, Save, Patch, Live

(* The loom that is up is the content that is saved. *)
LEMMA WholeNow == SInv => SnapshotWhole
BY DEF SInv, UpInv, SnapshotWhole, Is

(* A page that is clean is in its image. *)
LEMMA TrackedNow == SInv => DirtyTracked
<1> SUFFICES ASSUME SInv, pc \in {"up", "save"}, NEW p \in wrt \ dit
             PROVE  In(Now, p, wat.north) /\ At(Now, p, wat.north) = loom[p]
  <2>1. \A p : In(Now, p, wat.north) <=>
                 (IF p < wat.north THEN p + 1 ELSE Pages - p)
                   <= Len(IF p < wat.north THEN img["north"].now ELSE img["south"].now)
    BY DEF In, SideOf, Place, Now, Side
  <2>2. \A p : At(Now, p, wat.north) =
                 (IF p < wat.north THEN img["north"].now ELSE img["south"].now)
                   [IF p < wat.north THEN p + 1 ELSE Pages - p]
    BY DEF At, SideOf, Place, Now, Side
  <2> QED BY <2>1, <2>2 DEF DirtyTracked
<1>1. CASE pc = "save"
  BY <1>1 DEF SInv, SaveInv
<1>2. CASE pc = "up"
  <2>1. /\ Holds(Now, old) /\ wat = old.wat /\ wrt = DOMAIN old.mem
        /\ loom[p] = old.mem[p] /\ Sound(old)
    BY <1>2 DEF SInv, UpInv, BaseInv, ContentsInv
  <2>2. At(Now, p, wat.north) = loom[p]
    BY <2>1 DEF Holds
  <2>3. /\ p \in Page /\ (p < wat.north \/ p >= Pages - wat.south)
        /\ wat.north \in Nat /\ wat.south \in Nat /\ wat.north + wat.south < Pages
        /\ wat.north = Len(Now["north"]) /\ wat.south = Len(Now["south"])
    BY <2>1, SnapshotAssumption DEF Sound, InUse, Holds
  <2>4. In(Now, p, wat.north)
    BY <2>3, SnapshotAssumption DEF In, SideOf, Place, Page
  <2> QED BY <2>2, <2>4
<1> QED BY <1>1, <1>2

(* A snapshot is whole, whatever the number of pages: with any number of   *)
(* crashes at any of the system calls of u3e_save() and u3e_live(), all of *)
(* them kills of the process or all of them losses of power, what comes up *)
(* is the last content saved or the one that was being saved.              *)
THEOREM SnapshotStaysWhole ==
  ASSUME ~({"kill", "power"} \subseteq Crashes)
  PROVE  Spec => []SnapshotWhole
<1>1. Init => SInv
  BY InitS
<1>2. SInv /\ [Next]_vars => SInv'
  BY NextS
<1>3. SInv => SnapshotWhole
  BY WholeNow
<1> QED BY <1>1, <1>2, <1>3, PTL DEF Spec

(* The dirty bits are right under the same crashes: no page that differs   *)
(* from its image is left out of the patch.                                *)
THEOREM DirtyBitsAreRight ==
  ASSUME ~({"kill", "power"} \subseteq Crashes)
  PROVE  Spec => []DirtyTracked
<1>1. Init => SInv
  BY InitS
<1>2. SInv /\ [Next]_vars => SInv'
  BY NextS
<1>3. SInv => DirtyTracked
  BY TrackedNow
<1> QED BY <1>1, <1>2, <1>3, PTL DEF Spec

(* The images are written only from a patch that is synced, when a crash   *)
(* is a loss of power (a kill leaves a patch that was not synced, which    *)
(* u3e_live() applies nevertheless).                                       *)
THEOREM PatchIsWrittenAhead ==
  ASSUME "kill" \notin Crashes
  PROVE  Spec => WriteAhead
<1> DEFINE A == pc' # "down" /\ img' # img =>
                  ctl.syn = pat.con /\ mem.syn # None /\ Verify(pat.con, mem.syn)
<1>1. Init => SInv
  BY InitS
<1>2. SInv /\ [Next]_vars => SInv'
  BY NextS
<1>3. SInv /\ [Next]_vars => [A]_vars
  <2> SUFFICES ASSUME SInv, Next, pc' # "down", img' # img
               PROVE  ctl.syn = pat.con /\ mem.syn # None /\ Verify(pat.con, mem.syn)
    BY SMTT(30)
  <2>1. pc \in Applying
    BY DEF Next, Save, Patch, Live, Run, Foul, CreateControl, CreateMemory, SavePage,
           WriteControl, SyncControl, SyncMemory, Resize, Apply, SyncNorth, SyncSouth,
           DeleteControl, DeleteMemory, Open, PatchOpen, Blit, Crash, ShortWrite, Applying
  <2>2. ctl.syn = pat.con /\ mem.syn = mem.now /\ Valid(pat.con, mem.now)
    BY <2>1 DEF SInv, Synchronous, PowerInv, BaseInv, ControlsInv
  <2> QED BY <2>2, SnapshotAssumption DEF Valid
<1> QED BY <1>1, <1>2, <1>3, PTL DEF Spec, WriteAhead
=============================================================================
