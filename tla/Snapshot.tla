------------------------------ MODULE Snapshot ------------------------------
(***************************************************************************)
(* The snapshot of the loom: pkg/noun/events.c.                            *)
(*                                                                         *)
(* u3e_save() writes the dirty pages to a patch (control.bin, memory.bin), *)
(* syncs it, applies it in place to the two images (north.bin, south.bin), *)
(* syncs those and deletes the patch.  u3e_live() opens the images,        *)
(* applies a patch that is there and intact, and loads the loom.  Each     *)
(* system call that changes a file is a step, and a crash may come before  *)
(* any of them.                                                            *)
(*                                                                         *)
(* A file has the content the process sees and the content that is known   *)
(* to be on the disk; a loss of power leaves, page by page, one or the     *)
(* other or neither.  A file that was unlinked, or made anew, is on the    *)
(* disk as it was before or, as far as it was written, as it is.  The      *)
(* content of a page is the pair of its number and the run of the mutator  *)
(* that wrote it, and its own mug.                                         *)
(***************************************************************************)
EXTENDS Integers, Sequences, FiniteSets, Functions

CONSTANTS
  Pages,     \* u3P.pag_w: pages of the loom, here the most, u3a_pages
  Crashes,   \* which crashes happen: "kill" of the process, loss of "power"
  None,      \* the content of a file that is not there
  Partial,   \* that of a control file that is not whole
  Zero,      \* a page of zeroes
  Torn,      \* a page that mixes two writes
  Short,     \* less than a page, at the end of a file
  Shorts,    \* may a write of a page come up short
  MaxRun,    \* bound: runs of the mutator, each followed by a save
  MaxCrash   \* bound: crashes

VARIABLES
  pc,     \* the next system call of the process
  loom,   \* the content of the loom
  wat,    \* u3m_water(): pages in use, north and south
  dit,    \* u3P.dit_w: the pages touched since the last save
  img,    \* u3P.nor_u, u3P.sou_u: the images
  ctl,    \* control.bin
  mem,    \* memory.bin
  pat,    \* the patch in hand: con_u, the number of pages done, recovering
  wrt,    \* history: pages in use that were written since they came into use
  old,    \* history: the loom as of the last save that returned
  new,    \* history: the loom as of the save under way, if any
  cnt     \* runs and crashes so far

vars == <<pc, loom, wat, dit, img, ctl, mem, pat, wrt, old, new, cnt>>

Page == 0 .. Pages - 1

(* What a page may hold: what a run of the mutator wrote, or none of that. *)
Value == (Page \X (1 .. MaxRun)) \cup {Zero, Torn, Short}
Side == {"north", "south"}

(* A control block: new page counts and the pages of the patch. *)
Lines == [pag : Page, mug : Value]
Controls == [nor : Nat, sou : Nat, mem : Seq(Lines)]
NoControl == [nor |-> 0, sou |-> 0, mem |-> <<>>]

ASSUME SnapshotAssumption ==
  /\ Pages \in Nat /\ Pages > 3
  /\ Crashes \subseteq {"kill", "power"}
  /\ Shorts \in BOOLEAN
  /\ {MaxRun, MaxCrash} \subseteq Nat
  /\ {Zero, Torn, Short} \cap (Page \X Nat) = {}
  /\ Zero # Torn /\ Torn # Short /\ Zero # Short
  /\ None \notin Seq(Value)
  /\ {None, Partial} \cap Controls = {} /\ None # Partial

(* A file: as the process sees it, and as it was last synced. *)
Synced(x) == [now |-> x, syn |-> x]
Write(f, x) == [f EXCEPT !.now = x]
Sync(f) == [f EXCEPT !.syn = f.now]

InUse(w) == {p \in Page : p < w.north \/ p >= Pages - w.south}

(* Mutant of SideOf: the innermost page of the heap is taken for stack. *)
SideOfInner(p, n) == IF p + 1 < n THEN "north" ELSE "south"

(* The image of a page, and its place in it: south.bin is reversed. *)
SideOf(p, n) == IF p < n THEN "north" ELSE "south"

Place(p, s) == IF s = "north" THEN p + 1 ELSE Pages - p

(* The part of the loom that counts: a page that came into use and was     *)
(* not written since holds nothing that anyone reads.                      *)
Content(l, w, t) == [wat |-> w, mem |-> [p \in t |-> l[p]]]
Empty == Content([p \in {} |-> Zero], [north |-> 0, south |-> 0], {})

-----------------------------------------------------------------------------
(* The mutator *)

(* Between two saves: the heap and the stack take any size that leaves the *)
(* guard page between them, and any pages are written, that of the home    *)
(* road and the innermost of those that came into use among them;          *)
(* u3e_fault() marks what is written.  Nothing at all may happen, too.     *)
Writes(n, s) ==
  {w \in SUBSET InUse([north |-> n, south |-> s]) :
     /\ Pages - 1 \in w
     /\ n > wat.north => n - 1 \in w
     /\ s > wat.south => Pages - s \in w}

(* A page that stays part of the heap, or of the stack. *)
Stays(p, n, s) ==
  (p < wat.north /\ p < n) \/ (p >= Pages - wat.south /\ p >= Pages - s)

Run ==
  /\ pc = "up"
  /\ cnt.run < MaxRun
  /\ \E n \in 1 .. Pages - 2 : \E s \in 1 .. Pages - 1 - n : \E w \in Writes(n, s) :
       /\ wat' = [north |-> n, south |-> s]
       /\ loom' = [p \in Page |-> IF p \in w THEN <<p, cnt.run + 1>> ELSE loom[p]]
       /\ dit' = dit \cup w
       /\ wrt' = {p \in wrt : Stays(p, n, s)} \cup w
  /\ cnt' = [cnt EXCEPT !.run = @ + 1]
  /\ pc' = "save"
  /\ UNCHANGED <<img, ctl, mem, pat, old, new>>

(* u3e_foul(), at the end of a meld or a cram: every page is dirty. *)
Foul ==
  /\ pc = "save"
  /\ dit' = Page
  /\ UNCHANGED <<pc, loom, wat, img, ctl, mem, pat, wrt, old, new, cnt>>

-----------------------------------------------------------------------------
(* u3e_save() *)

(* _ce_patch_compose(): the dirty pages in use, from the outside in.  With *)
(* none it returns at once and so does u3e_save(): that is no step.        *)
Rank(p) == IF p < wat.north THEN p ELSE wat.north + Pages - p

Dirty ==
  LET D == dit \cap InUse(wat)
  IN  CHOOSE s \in [1 .. Cardinality(D) -> D] :
        /\ Range(s) = D
        /\ \A i, j \in DOMAIN s : i < j => Rank(s[i]) < Rank(s[j])

(* _ce_patch_create() of control.bin, which must not be there. *)
CreateControl ==
  /\ pc = "save"
  /\ new' = Content(loom, wat, wrt)
  /\ pat' = [con |-> [nor |-> wat.north, sou |-> wat.south,
                      mem |-> [i \in 1 .. Len(Dirty) |->
                                 [pag |-> Dirty[i], mug |-> loom[Dirty[i]]]]],
             done |-> 0, rec |-> FALSE]
  /\ IF ctl.now = None
     THEN ctl' = Write(ctl, Partial) /\ pc' = "memory"
     ELSE ctl' = ctl /\ pc' = "down"
  /\ UNCHANGED <<loom, wat, dit, img, mem, wrt, old, cnt>>

(* The same of memory.bin: one that is there fails an assertion. *)
CreateMemory ==
  /\ pc = "memory"
  /\ IF mem.now = None
     THEN mem' = Write(mem, <<>>) /\ pc' = "pages"
     ELSE mem' = mem /\ pc' = "down"
  /\ UNCHANGED <<loom, wat, dit, img, ctl, pat, wrt, old, new, cnt>>

(* Mutant of SavePage: the page counter is advanced twice. *)
SavePageTwice ==
  /\ pc = "pages"
  /\ pat.done < Len(pat.con.mem)
  /\ LET p == pat.con.mem[pat.done + 1].pag
     IN  /\ mem' = Write(mem, Append(mem.now, loom[p]))
         /\ dit' = dit \ {p}
  /\ pat' = [pat EXCEPT !.done = @ + 2]
  /\ UNCHANGED <<pc, loom, wat, img, ctl, wrt, old, new, cnt>>

(* _ce_patch_save_page(), and _ce_patch_write_control() after the last.    *)
SavePage ==
  /\ pc = "pages"
  /\ pat.done < Len(pat.con.mem)
  /\ LET p == pat.con.mem[pat.done + 1].pag
     IN  /\ mem' = Write(mem, Append(mem.now, loom[p]))
         /\ dit' = dit \ {p}
  /\ pat' = [pat EXCEPT !.done = @ + 1]
  /\ UNCHANGED <<pc, loom, wat, img, ctl, wrt, old, new, cnt>>

WriteControl ==
  /\ pc = "pages"
  /\ pat.done = Len(pat.con.mem)
  /\ ctl' = Write(ctl, pat.con)
  /\ pc' = "sync control"
  /\ UNCHANGED <<loom, wat, dit, img, mem, pat, wrt, old, new, cnt>>

(* _ce_patch_sync(), and the _ce_patch_verify() that follows. *)
SyncControl ==
  /\ pc = "sync control"
  /\ ctl' = Sync(ctl)
  /\ pc' = "sync memory"
  /\ UNCHANGED <<loom, wat, dit, img, mem, pat, wrt, old, new, cnt>>

(* Mutant of Verify: the mugs are not compared. *)
VerifyLength(c, m) == Len(c.mem) <= Len(m)

(* _ce_patch_verify(): every page of the patch is there and has its mug.   *)
Verify(c, m) ==
  /\ Len(c.mem) <= Len(m)
  /\ \A i \in 1 .. Len(c.mem) : m[i] = c.mem[i].mug

(* Mutant of SyncMemory: the pages of the patch are not synced. *)
SyncMemoryNot ==
  /\ pc = "sync memory"
  /\ pc' = IF Verify(pat.con, mem.now) THEN "resize north" ELSE "down"
  /\ UNCHANGED <<loom, wat, dit, img, ctl, mem, pat, wrt, old, new, cnt>>

SyncMemory ==
  /\ pc = "sync memory"
  /\ mem' = Sync(mem)
  /\ pc' = IF Verify(pat.con, mem.now) THEN "resize north" ELSE "down"
  /\ UNCHANGED <<loom, wat, dit, img, ctl, pat, wrt, old, new, cnt>>

-----------------------------------------------------------------------------
(* _ce_patch_apply(), in u3e_save() and in u3e_live() *)

(* _ce_image_resize(): truncate an image that shrank. *)
Resized(f, n) ==
  IF Len(f.now) > n THEN Write(f, SubSeq(f.now, 1, n)) ELSE f

Resize ==
  \/ /\ pc = "resize north"
     /\ img' = [img EXCEPT !["north"] = Resized(@, pat.con.nor)]
     /\ pc' = "resize south"
     /\ UNCHANGED <<loom, wat, dit, ctl, mem, pat, wrt, old, new, cnt>>
  \/ /\ pc = "resize south"
     /\ img' = [img EXCEPT !["south"] = Resized(@, pat.con.sou)]
     /\ pat' = [pat EXCEPT !.done = 0]
     /\ pc' = "apply"
     /\ UNCHANGED <<loom, wat, dit, ctl, mem, wrt, old, new, cnt>>

(* A file after a write of page x at place k, past its end or not. *)
Put(s, k, x) ==
  [i \in 1 .. (IF k > Len(s) THEN k ELSE Len(s)) |->
     IF i = k THEN x ELSE IF i <= Len(s) THEN s[i] ELSE Zero]

(* The body of the loop: x into the image, as page i of the patch. *)
Applied(i, x) ==
  LET p == pat.con.mem[i].pag
      s == SideOf(p, pat.con.nor)
  IN  [img EXCEPT ![s] = Write(@, Put(@.now, Place(p, s), x))]

Apply ==
  /\ pc = "apply"
  /\ pat.done < Len(pat.con.mem)
  /\ img' = Applied(pat.done + 1, mem.now[pat.done + 1])
  /\ pat' = [pat EXCEPT !.done = @ + 1]
  /\ UNCHANGED <<pc, loom, wat, dit, ctl, mem, wrt, old, new, cnt>>

(* _ce_image_sync() of both images. *)
SyncNorth ==
  /\ pc = "apply"
  /\ pat.done = Len(pat.con.mem)
  /\ img' = [img EXCEPT !["north"] = Sync(@)]
  /\ pc' = "sync south"
  /\ UNCHANGED <<loom, wat, dit, ctl, mem, pat, wrt, old, new, cnt>>

SyncSouth ==
  /\ pc = "sync south"
  /\ img' = [img EXCEPT !["south"] = Sync(@)]
  /\ pc' = "delete control"
  /\ UNCHANGED <<loom, wat, dit, ctl, mem, pat, wrt, old, new, cnt>>

(* _ce_patch_delete(): two unlinks, either of which may find no file. *)
DeleteControl ==
  /\ pc = "delete control"
  /\ ctl' = Write(ctl, None)
  /\ pc' = "delete memory"
  /\ UNCHANGED <<loom, wat, dit, img, mem, pat, wrt, old, new, cnt>>

(* The end of u3e_save(), or of the recovery of u3e_live(). *)
DeleteMemory ==
  /\ pc = "delete memory"
  /\ mem' = Write(mem, None)
  /\ IF pat.rec
     THEN pc' = "blit" /\ UNCHANGED <<old, new>>
     ELSE pc' = "up" /\ old' = new /\ new' = Empty
  /\ UNCHANGED <<loom, wat, dit, img, ctl, pat, wrt, cnt>>

-----------------------------------------------------------------------------
(* u3e_live() *)

(* _ce_image_open() of both images: the size must be a number of pages.    *)
Open ==
  /\ pc = "down"
  /\ pc' = IF \E s \in Side : Short \in Range(img[s].now) THEN "corrupt" ELSE "patch"
  /\ UNCHANGED <<loom, wat, dit, img, ctl, mem, pat, wrt, old, new, cnt>>

(* Mutant of PatchOpen: a patch without its pages is kept, and tried again. *)
PatchOpenRetry ==
  /\ pc = "patch"
  /\ IF ctl.now = None THEN pc' = "blit" /\ UNCHANGED pat
     ELSE IF mem.now = None \/ ctl.now = Partial THEN pc' = "down" /\ UNCHANGED pat
     ELSE /\ pat' = [con |-> ctl.now, done |-> 0, rec |-> TRUE]
          /\ pc' = IF Verify(ctl.now, mem.now) THEN "resize north" ELSE "delete control"
  /\ UNCHANGED <<loom, wat, dit, img, ctl, mem, wrt, old, new, cnt>>

(* _ce_patch_open(): none without control.bin; a patch that is not whole   *)
(* is deleted.                                                             *)
PatchOpen ==
  /\ pc = "patch"
  /\ \/ /\ ctl.now = None
        /\ pc' = "blit"
        /\ UNCHANGED pat
     \/ /\ ctl.now # None
        /\ IF mem.now = None \/ ctl.now = Partial
           THEN /\ pat' = [pat EXCEPT !.rec = TRUE]
                /\ pc' = "delete control"
           ELSE /\ pat' = [con |-> ctl.now, done |-> 0, rec |-> TRUE]
                /\ pc' = IF Verify(ctl.now, mem.now)
                         THEN "resize north" ELSE "delete control"
  /\ UNCHANGED <<loom, wat, dit, img, ctl, mem, wrt, old, new, cnt>>

(* u3e_foul(), _ce_image_blit(): the images are the loom, and clean.       *)
Loaded ==
  LET w == [north |-> Len(img["north"].now), south |-> Len(img["south"].now)]
      At(p, s) == img[s].now[Place(p, s)]
  IN  [wat |-> w, mem |-> [p \in InUse(w) |-> At(p, SideOf(p, w.north))]]

(* Whether what was loaded is the content c. *)
Is(l, c) == l.wat = c.wat /\ \A p \in DOMAIN c.mem : l.mem[p] = c.mem[p]

TooBig(w) == w.north + w.south + 1 >= Pages

Blit ==
  /\ pc = "blit"
  /\ IF TooBig(Loaded.wat)
     THEN pc' = "too big" /\ UNCHANGED <<loom, wat, dit, wrt, old, new>>
     ELSE /\ wat' = Loaded.wat
          /\ loom' = [p \in Page |-> IF p \in DOMAIN Loaded.mem
                                      THEN Loaded.mem[p] ELSE Zero]
          /\ dit' = Page \ DOMAIN Loaded.mem
          /\ old' = IF new # Empty /\ Is(Loaded, new) THEN new ELSE old
          /\ wrt' = DOMAIN old'.mem
          /\ new' = Empty
          /\ pc' = "up"
  /\ UNCHANGED <<img, ctl, mem, pat, cnt>>

-----------------------------------------------------------------------------
(* Crashes *)

(* What a loss of power leaves of an image: of a page that was not synced, *)
(* what it was, what it is, or a mix; of the length, any between.          *)
Between(lo, hi, Kept(_)) ==
  UNION {{r \in [1 .. n -> UNION {Kept(i) : i \in 1 .. n}] :
            \A i \in 1 .. n : r[i] \in Kept(i)} : n \in lo .. hi}

Survivors(f) ==
  IF f.now = f.syn THEN {f.now}
  ELSE LET a == f.now
           b == f.syn
           lo == IF Len(a) < Len(b) THEN Len(a) ELSE Len(b)
           hi == IF Len(a) < Len(b) THEN Len(b) ELSE Len(a)
           Kept(i) ==
             IF i > lo THEN {IF i <= Len(a) THEN a[i] ELSE b[i], Zero, Torn}
             ELSE IF a[i] = b[i] THEN {a[i]} ELSE {a[i], b[i], Torn}
       IN  Between(lo, hi, Kept)

(* Of memory.bin, which is made anew by each save: no file, the one that   *)
(* was synced last, or what was written of the new one.                    *)
Leftovers(f) ==
  IF f.now = f.syn THEN {f.now}
  ELSE LET Kept(i) == {f.now[i], Zero, Torn}
       IN  {None, f.syn}
             \cup IF f.now = None THEN {} ELSE Between(0, Len(f.now), Kept)

(* The same of control.bin, whose parts are not told apart. *)
Remnants(f) ==
  IF f.now = f.syn THEN {f.now}
  ELSE {None, f.syn, f.now} \cup IF f.now = None THEN {} ELSE {Partial}

Running == pc \notin {"down", "corrupt", "too big"}

(* The process ends before its next system call. *)
Crash ==
  /\ Running
  /\ cnt.crash < MaxCrash
  /\ cnt' = [cnt EXCEPT !.crash = @ + 1]
  /\ pc' = "down"
  /\ \E c \in Crashes :
       IF c = "kill" THEN UNCHANGED <<img, ctl, mem>>
       ELSE /\ \E n \in Survivors(img["north"]), s \in Survivors(img["south"]) :
                 img' = [i \in Side |-> Synced(IF i = "north" THEN n ELSE s)]
            /\ \E x \in Remnants(ctl) : ctl' = Synced(x)
            /\ \E x \in Leftovers(mem) : mem' = Synced(x)
  /\ UNCHANGED <<loom, wat, dit, pat, wrt, old, new>>

(* A write comes up short, as on a full disk, which fails an assertion.    *)
(* One of control.bin leaves what a crash before WriteControl leaves.      *)
ShortWrite ==
  /\ Shorts
  /\ cnt.crash < MaxCrash
  /\ cnt' = [cnt EXCEPT !.crash = @ + 1]
  /\ pat.done < Len(pat.con.mem)
  /\ \/ /\ pc = "pages"
        /\ mem' = Write(mem, Append(mem.now, Short))
        /\ UNCHANGED img
     \/ /\ pc = "apply"
        /\ LET x == Applied(pat.done + 1, Short)
           IN  img' = IF \A s \in Side : Len(x[s].now) = Len(img[s].now)
                      THEN Applied(pat.done + 1, Torn) ELSE x
        /\ UNCHANGED mem
  /\ pc' = "down"
  /\ UNCHANGED <<loom, wat, dit, ctl, pat, wrt, old, new>>

-----------------------------------------------------------------------------

Init ==
  /\ pc = "down"
  /\ loom = [p \in Page |-> Zero]
  /\ wat = [north |-> 0, south |-> 0]
  /\ dit = Page
  /\ img = [s \in Side |-> Synced(<<>>)]
  /\ ctl = Synced(None)
  /\ mem = Synced(None)
  /\ pat = [con |-> NoControl, done |-> 0, rec |-> FALSE]
  /\ wrt = {}
  /\ old = Empty
  /\ new = Empty
  /\ cnt = [run |-> 0, crash |-> 0]

Save ==
  \/ CreateControl \/ CreateMemory \/ SavePage \/ WriteControl
  \/ SyncControl \/ SyncMemory

Live == Open \/ PatchOpen \/ Blit

Patch ==
  \/ Resize \/ Apply \/ SyncNorth \/ SyncSouth \/ DeleteControl
  \/ DeleteMemory

Next == Run \/ Foul \/ Save \/ Patch \/ Live \/ Crash \/ ShortWrite

Spec == Init /\ [][Next]_vars

(* The process keeps going, and is started again when it ends. *)
FairSpec == Spec /\ WF_vars(Save \/ Patch \/ Live)

-----------------------------------------------------------------------------
(* Properties *)

(* Types of the files, the loom, the dirty bits and the patch in hand. *)
SnapTypeOK ==
  /\ pc \in {"down", "corrupt", "too big", "patch", "blit", "up", "save", "memory",
             "pages", "sync control", "sync memory", "resize north", "resize south",
             "apply", "sync south", "delete control", "delete memory"}
  /\ loom \in [Page -> Value]
  /\ wat \in [north : 0 .. Pages, south : 0 .. Pages]
  /\ dit \subseteq Page /\ wrt \subseteq Page
  /\ img \in [Side -> [now : Seq(Value), syn : Seq(Value)]]
  /\ \A s \in Side : Len(img[s].now) <= Pages /\ Len(img[s].syn) <= Pages
  /\ mem \in [now : Seq(Value) \cup {None}, syn : Seq(Value) \cup {None}]
  /\ ctl \in [now : Controls \cup {None, Partial},
              syn : Controls \cup {None, Partial}]
  /\ pat \in [con : Controls, done : Nat, rec : BOOLEAN]
  /\ pat.done <= Len(pat.con.mem) /\ Len(pat.con.mem) <= Pages
  /\ cnt \in [run : 0 .. MaxRun, crash : 0 .. MaxCrash]

(* A snapshot is whole: whenever the process is up, after any crashes, the *)
(* loom as loaded or saved is that of the last save that returned or, with *)
(* all of it, of one that was under way when the process ended.            *)
SnapshotWhole == pc = "up" => Is([wat |-> wat, mem |-> loom], old)

(* The dirty bits are right: a page in use that was written and is clean   *)
(* is in its image, at its place, as it is in the loom.                    *)
DirtyTracked ==
  pc \in {"up", "save"} =>
    \A p \in wrt \ dit :
      LET f == IF p < wat.north THEN img["north"].now ELSE img["south"].now
          i == IF p < wat.north THEN p + 1 ELSE Pages - p
      IN  i <= Len(f) /\ f[i] = loom[p]

(* Write-ahead: no image is written, truncated or extended unless the      *)
(* patch that says how is on the disk, whole.                              *)
WriteAhead ==
  [][(pc' # "down" /\ img' # img) =>
       ctl.syn = pat.con /\ mem.syn # None /\ Verify(pat.con, mem.syn)]_vars

(* A process that is started comes up, or refuses the snapshot for good.   *)
Restarts == pc = "down" ~> pc \in {"up", "corrupt", "too big"}

=============================================================================
