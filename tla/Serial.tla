------------------------------- MODULE Serial -------------------------------
(***************************************************************************)
(* Jam and cue: pkg/noun/serial.c, pkg/ur/serial.c and pkg/ur/bitstream.c. *)
(* An atom is the set of its bits that are one, a byte stream the set of   *)
(* its bits together with its length in bytes; a noun is <<atom>> or a     *)
(* cell <<head, tail>>.                                                    *)
(*                                                                         *)
(* The runtime has three encoders (u3s_jam_fib() chops bits into a slab,   *)
(* u3s_jam_xeno() and ur_jam() write bytes) and four decoders (u3s_cue()   *)
(* by rub, u3s_cue_bytes()/u3s_cue_xeno() and ur_cue() off a bit stream,   *)
(* ur_cue_test() without building anything).                               *)
(***************************************************************************)
EXTENDS Integers, Sequences, FiniteSets, Folds

Lesser(a, b) == IF a < b THEN a ELSE b

Larger(a, b) == IF a > b THEN a ELSE b

BitLen(a) == IF a = {} THEN 0 ELSE 1 + CHOOSE i \in a : \A j \in a : j <= i

Moved(a, n) == {i + n : i \in a}

Low(a, n) == {i \in a : i < n}

High(a, n) == {i - n : i \in {j \in a : j >= n}}

Xor(a, b) == (a \ b) \cup (b \ a)

Number(a) == MapThenFoldSet(+, 0, LAMBDA i : 2 ^ i, LAMBDA S : CHOOSE i \in S : TRUE, a)

OfNumber(n) == {i \in 0 .. 30 : (n \div 2 ^ i) % 2 = 1}

Len64(n) == BitLen(OfNumber(n))

-----------------------------------------------------------------------------
(* Encoding by chops, _cs_jam_fib_*().                                     *)

FibChop(f, met, a) == [f EXCEPT !.set = @ \cup Moved(Low(a, met), f.bits), !.bits = @ + met]

FibMat(f, a) ==
    IF a = {} THEN FibChop(f, 1, {0})
    ELSE LET m == BitLen(a)
             b == Len64(m)
         IN FibChop(FibChop(FibChop(f, b + 1, {b}), b - 1, Low(OfNumber(m), b - 1)), m, a)

FibAtom(f, a) == FibMat(FibChop(f, 1, {}), a)

FibBack(f, b) == FibMat(FibChop(f, 2, {0, 1}), OfNumber(b))

FibCell(f) == FibChop(f, 2, {0})

-----------------------------------------------------------------------------
(* Encoding into bytes, ur_bsw_*().  "over" is set when a byte behind the  *)
(* buffer is touched.  A byte is xored at its free end and assigned when   *)
(* it is new.                                                              *)

BswNew(prev, size) ==
    [set |-> {}, fill |-> 0, off |-> 0, bits |-> 0, prev |-> prev, size |-> size, over |-> FALSE]

(* ur_bsw_grow() under the test every writer starts with. *)
Room(w, bits) ==
    LET need == (w.off + bits + 7) \div 8
    IN IF w.fill + need >= w.size
       THEN [w EXCEPT !.size = @ + Larger(need, w.prev), !.prev = w.size] ELSE w

XorByte(w, at, a) ==
    [w EXCEPT !.set = Xor(@, Moved(a, 8 * at)), !.over = @ \/ at >= w.size]

SetByte(w, at, a) ==
    [w EXCEPT !.set = {i \in @ : i \div 8 # at} \cup Moved(a, 8 * at), !.over = @ \/ at >= w.size]

(* _bsw_bit_unsafe() *)
BswBit(w, a) ==
    LET x == XorByte(w, w.fill, Moved(Low(a, 1), w.off))
    IN [x EXCEPT !.fill = IF w.off = 7 THEN @ + 1 ELSE @,
                 !.off = IF w.off = 7 THEN 0 ELSE @ + 1, !.bits = @ + 1]

(* _bsw8_unsafe(): the second byte is written even when no bit is left. *)
Bsw8(w, len, a) ==
    LET rest == 8 - w.off
        x    == XorByte(w, w.fill, Moved(Low(a, Lesser(len, rest)), w.off))
    IN IF len < rest THEN [x EXCEPT !.off = @ + len, !.bits = @ + len]
       ELSE [SetByte(x, w.fill + 1, Low(High(a, rest), len - rest))
               EXCEPT !.fill = @ + 1, !.off = len - rest, !.bits = @ + len]

RECURSIVE SetBytes(_, _, _, _)
SetBytes(w, at, n, a) ==
    IF n = 0 THEN w ELSE SetBytes(SetByte(w, at, Low(a, 8)), at + 1, n - 1, High(a, 8))

(* The last bits of len go into a byte of their own. *)
SetLast(w, at, len, a) == IF len = 0 THEN w ELSE SetByte(w, at, Low(a, len))

WholeBytes(w, at, len, a) ==
    SetLast(SetBytes(w, at, len \div 8, a), at + len \div 8, len % 8, High(a, 8 * (len \div 8)))

(* _bsw64_unsafe(), and _bsw32_unsafe() *)
Bsw64(w, len, a) ==
    LET rest == 8 - w.off
    IN IF w.off = 0
       THEN [WholeBytes(w, w.fill, len, a) EXCEPT
               !.fill = @ + len \div 8, !.off = len % 8, !.bits = @ + len]
       ELSE IF len < rest
       THEN [XorByte(w, w.fill, Moved(Low(a, len), w.off)) EXCEPT !.off = @ + len, !.bits = @ + len]
       ELSE [WholeBytes(XorByte(w, w.fill, Moved(Low(a, rest), w.off)), w.fill + 1, len - rest,
                        High(a, rest))
               EXCEPT !.fill = @ + 1 + (len - rest) \div 8, !.off = (len - rest) % 8, !.bits = @ + len]

(* _bsw_bytes_unsafe(): from a byte boundary a copy, otherwise every byte  *)
(* is put together from two.                                               *)
BswBytes(w, len, a) ==
    LET rest == 8 - w.off
        nel  == len - rest
        tal  == {i \in High(a, rest + 8 * (nel \div 8)) : i < 8 /\ (i < w.off \/ w.off <= nel % 8)}
    IN IF w.off = 0
       THEN [WholeBytes(w, w.fill, len, a) EXCEPT
               !.fill = @ + len \div 8, !.off = len % 8, !.bits = @ + len]
       ELSE IF rest >= len
       THEN [XorByte(w, w.fill, Moved(Low(a, len), w.off)) EXCEPT
               !.fill = @ + (w.off + len) \div 8, !.off = (w.off + len) % 8, !.bits = @ + len]
       ELSE [SetByte(SetBytes(XorByte(w, w.fill, Moved(Low(a, rest), w.off)),
                              w.fill + 1, nel \div 8, High(a, rest)),
                     w.fill + 1 + nel \div 8, Low(tal, nel % 8))
               EXCEPT !.fill = @ + nel \div 8 + 1, !.off = nel % 8, !.bits = @ + len]

(* _bsw_bex_unsafe() *)
BswBex(w, n) ==
    LET at  == w.fill + (n + w.off) \div 8
        off == (n + w.off) % 8
    IN [XorByte(w, at, {off}) EXCEPT
          !.fill = IF off = 7 THEN at + 1 ELSE at,
          !.off = IF off = 7 THEN 0 ELSE off + 1, !.bits = @ + n + 1]

MatLen(len) == IF len = 0 THEN 1 ELSE len + 2 * Len64(len)

(* _bsw_mat64_unsafe(), _bsw_mat_bytes_unsafe(); direct atoms are written  *)
(* from a register, others from their bytes.                               *)
BswVal(w, len, a, direct) == IF direct THEN Bsw64(w, len, a) ELSE BswBytes(w, len, a)

BswMat(w, len, a, direct) ==
    IF len = 0 THEN BswBit(w, {0})
    ELSE BswVal(Bsw64(BswBex(w, Len64(len)), Len64(len) - 1, OfNumber(len)), len, a, direct)


BswAtom(w, a, direct) ==
    BswMat(BswBit(Room(w, 1 + MatLen(BitLen(a))), {}), BitLen(a), a, direct)

BswBack(w, b) ==
    LET n == Len64(b) IN BswMat(Bsw8(Room(w, 2 + MatLen(n)), 2, {0, 1}), n, OfNumber(b), TRUE)

BswCell(w) == Bsw8(Room(w, 2), 2, {0})

-----------------------------------------------------------------------------
(* The traversal, u3a_walk_fore(): a cell before its head, its head before *)
(* its tail.  Each noun's first place is remembered; an atom is repeated   *)
(* when that is not longer than naming the place.                          *)

Known(dict, n) == \E e \in dict : e[1] = n

PlaceOf(dict, n) == (CHOOSE e \in dict : e[1] = n)[2]

IsAt(n) == Len(n) = 1

RECURSIVE JamFibWalk(_, _, _)
JamFibWalk(pile, dict, f) ==
    IF pile = <<>> THEN f
    ELSE LET a    == pile[1]
             rest == Tail(pile)
             put  == dict \cup {<<a, f.bits>>}
         IN IF ~Known(dict, a)
            THEN IF IsAt(a) THEN JamFibWalk(rest, put, FibAtom(f, a[1]))
                 ELSE JamFibWalk(a \o rest, put, FibCell(f))
            ELSE IF IsAt(a) /\ BitLen(a[1]) <= Len64(PlaceOf(dict, a))
            THEN JamFibWalk(rest, dict, FibAtom(f, a[1]))
            ELSE JamFibWalk(rest, dict, FibBack(f, PlaceOf(dict, a)))

JamFib(n) == JamFibWalk(<<n>>, {}, [set |-> {}, bits |-> 0])

(* cat: the width up to which an atom is direct, 31 in u3s_jam_xeno() and  *)
(* 62 in ur_jam().                                                         *)
RECURSIVE JamBytesWalk(_, _, _, _)
JamBytesWalk(pile, dict, w, cat) ==
    IF pile = <<>> THEN w
    ELSE LET a    == pile[1]
             rest == Tail(pile)
             put  == dict \cup {<<a, w.bits>>}
             atom == BswAtom(w, a[1], BitLen(a[1]) <= cat)
         IN IF ~Known(dict, a)
            THEN IF IsAt(a) THEN JamBytesWalk(rest, put, atom, cat)
                 ELSE JamBytesWalk(a \o rest, put, BswCell(w), cat)
            ELSE IF IsAt(a) /\ BitLen(a[1]) <= Len64(PlaceOf(dict, a))
            THEN JamBytesWalk(rest, dict, atom, cat)
            ELSE JamBytesWalk(rest, dict, BswBack(w, PlaceOf(dict, a)), cat)

JamXeno(n, prev, size) == JamBytesWalk(<<n>>, {}, BswNew(prev, size), 31)

UrJam(n, prev, size) == JamBytesWalk(<<n>>, {}, BswNew(prev, size), 62)

(* ur_bsw_done() *)
BswDone(w) == [set |-> w.set, len |-> w.fill + IF w.off = 0 THEN 0 ELSE 1]

-----------------------------------------------------------------------------
(* Reading off a bit stream, ur_bsr_*(): bits is the cursor that places    *)
(* are counted by, left and off say where the reader really is.            *)

BsrInit(s) == [str |-> s, bits |-> 0, left |-> s.len, off |-> 0]

Slice(r, n) ==
    LET p == 8 * (r.str.len - r.left) + r.off
    IN {i - p : i \in {j \in r.str.set : j >= p /\ j < p + n}}

Gone(r, bits) == [r EXCEPT !.bits = @ + bits, !.left = 0, !.off = 0]

(* ur_bsr_tag() *)
BsrTag(r) ==
    LET two == 0 \in Slice(r, 1)
        len == IF two THEN 2 ELSE 1
        end == r.off + len
        x   == IF r.left = end \div 8 THEN Gone(r, len)
               ELSE [r EXCEPT !.bits = @ + len, !.left = @ - end \div 8, !.off = end % 8]
    IN IF r.left = 0 THEN [res |-> "gone", r |-> r]
       ELSE IF two /\ r.off = 7 /\ r.left = 1 THEN [res |-> "gone", r |-> Gone(r, 1)]
       ELSE [res |-> IF ~two THEN "atom" ELSE IF 1 \in Slice(r, 2) THEN "back" ELSE "cell", r |-> x]

(* ur_bsr_log(): zeros up to the next one. *)
BsrLog(r) ==
    LET ones  == Slice(r, 8 * r.left)
        zeros == CHOOSE i \in ones : \A j \in ones : i <= j
        end   == r.off + 1 + zeros
    IN IF r.left = 0 THEN [res |-> "gone", r |-> r, out |-> 0]
       ELSE IF ones = {} THEN [res |-> "gone", r |-> Gone(r, 8 * r.left - r.off), out |-> 0]
       ELSE IF zeros > 255
       THEN [res |-> "meme", r |-> [r EXCEPT !.bits = @ + 256, !.left = @ - 32], out |-> 0]
       ELSE [res |-> "good", out |-> zeros,
             r |-> [r EXCEPT !.bits = @ + 1 + zeros, !.left = @ - end \div 8, !.off = end % 8]]

(* ur_bsr32_any(), ur_bsr64_any() *)
BsrAny(r, n) ==
    LET rest == 8 - r.off
        x    == [r EXCEPT !.bits = @ + n]
        byt  == (n - rest) \div 8
    IN [out |-> IF r.left = 0 THEN {} ELSE Slice(r, n),
        r |-> IF r.left = 0 THEN x
              ELSE IF n < rest THEN [x EXCEPT !.off = @ + n]
              ELSE IF byt >= r.left - 1 THEN Gone(r, n)
              ELSE [x EXCEPT !.left = @ - 1 - byt, !.off = (n - rest) % 8]]

(* What is left of the reader when bytes were read or skipped up to the    *)
(* last byte.  The bits wanted of that byte are counted in a byte.         *)
IntoLast(r, len) == (len - 8 * (r.left - 1)) % 256 < 8 - r.off

BsrStep(r, len) ==
    LET need == (len + 7) \div 8
        end  == r.off + (len % 8)
        x    == [r EXCEPT !.bits = @ + len]
    IN IF need >= r.left
       THEN IF IntoLast(r, len) THEN [x EXCEPT !.left = 1, !.off = end] ELSE Gone(r, len)
       ELSE [x EXCEPT !.left = @ - len \div 8 - end \div 8, !.off = end % 8]

(* ur_bsr_bytes_any() *)
BsrBytesAny(r, len) ==
    LET need == (len + 7) \div 8
        most == Lesser(r.left - 1, len \div 8)
        x    == [r EXCEPT !.bits = @ + len]
    IN IF r.left = 0 THEN [out |-> {}, r |-> x]
       ELSE IF r.off = 0
       THEN IF need > r.left THEN [out |-> Slice(r, 8 * r.left), r |-> Gone(r, len)]
            ELSE [out |-> Slice(r, len), r |-> [x EXCEPT !.left = @ - len \div 8, !.off = (len % 8)]]
       ELSE [r |-> BsrStep(r, len),
             out |-> IF need >= r.left
                     THEN IF IntoLast(r, len) THEN Slice(r, 8 * most + (len % 8))
                          ELSE Slice(r, 8 * most + 8 - r.off)
                     ELSE Slice(r, len)]

(* ur_bsr_skip_any() *)
BsrSkipAny(r, len) == IF r.left = 0 THEN [r EXCEPT !.bits = @ + len] ELSE BsrStep(r, len)

(* ur_bsr_rub_len() *)
BsrLen(l, v) == [res |-> "good", r |-> v.r, out |-> Number(v.out \cup {l.out - 1})]

BsrMeted(l) ==
    IF l.res # "good" THEN l
    ELSE IF l.out >= 64 THEN [l EXCEPT !.res = "meme"]
    ELSE IF l.out <= 1 THEN l
    ELSE BsrLen(l, BsrAny(l.r, l.out - 1))

BsrRubLen(r) == BsrMeted(BsrLog(r))

-----------------------------------------------------------------------------
(* The decoders.  A frame is the place of a cell and its head, once read.  *)

Failed == [ok |-> FALSE, noun |-> <<>>, bits |-> 0]

(* _cs_cue_xeno_next(), _cs_cue_bytes_next(), _cue_next() and the loop     *)
(* around them: an atom of up to cat bits is read into a register.         *)
RECURSIVE CueRead(_, _, _, _), CueGive(_, _, _, _, _)

CueAtom(bits, v, fam, dict, cat) ==
    CueGive(<<v.out>>, v.r, fam, dict \cup {<<bits, <<v.out>> >>}, cat)

CueBack(hits, r, fam, dict, cat) ==
    IF hits = {} THEN Failed ELSE CueGive((CHOOSE e \in hits : TRUE)[2], r, fam, dict, cat)

CueHits(v, fam, dict, cat) == CueBack({e \in dict : OfNumber(e[1]) = v.out}, v.r, fam, dict, cat)

CueMeted(bits, res, l, fam, dict, cat) ==
    IF l.res # "good" \/ (res = "back" /\ l.out > 62) THEN Failed
    ELSE IF res = "back" THEN CueHits(BsrAny(l.r, l.out), fam, dict, cat)
    ELSE CueAtom(bits, IF l.out <= cat THEN BsrAny(l.r, l.out) ELSE BsrBytesAny(l.r, l.out),
                 fam, dict, cat)

CueTagged(bits, t, fam, dict, cat) ==
    CASE t.res = "gone" -> Failed
      [] t.res = "cell" -> CueRead(t.r, Append(fam, [hed |-> <<>>, bit |-> bits]), dict, cat)
      [] OTHER -> CueMeted(bits, t.res, BsrRubLen(t.r), fam, dict, cat)

CueRead(r, fam, dict, cat) == CueTagged(r.bits, BsrTag(r), fam, dict, cat)

CueGive(ref, r, fam, dict, cat) ==
    LET top == fam[Len(fam)]
        cel == <<top.hed, ref>>
    IN IF fam = <<>> THEN [ok |-> TRUE, noun |-> ref, bits |-> r.bits]
       ELSE IF top.hed = <<>>
       THEN CueRead(r, [fam EXCEPT ![Len(fam)].hed = ref], dict, cat)
       ELSE CueGive(cel, r, SubSeq(fam, 1, Len(fam) - 1), dict \cup {<<top.bit, cel>>}, cat)

CueXeno(s) == CueRead(BsrInit(s), <<>>, {}, 31)

UrCue(s) == CueRead(BsrInit(s), <<>>, {}, 62)

(* _cue_test_next(): only the places are kept. *)
RECURSIVE TestRead(_, _, _), TestGive(_, _, _)

TestHits(v, fam, dict) == (\E b \in dict : OfNumber(b) = v.out) /\ TestGive(v.r, fam, dict)

TestMeted(bits, res, l, fam, dict) ==
    IF l.res # "good" \/ (res = "back" /\ l.out > 62) THEN FALSE
    ELSE IF res = "back" THEN TestHits(BsrAny(l.r, l.out), fam, dict)
    ELSE TestGive(BsrSkipAny(l.r, l.out), fam, dict \cup {bits})

TestTagged(bits, t, fam, dict) ==
    CASE t.res = "gone" -> FALSE
      [] t.res = "cell" -> TestRead(t.r, Append(fam, <<FALSE, bits>>), dict)
      [] OTHER -> TestMeted(bits, t.res, BsrRubLen(t.r), fam, dict)

TestRead(r, fam, dict) == TestTagged(r.bits, BsrTag(r), fam, dict)

TestGive(r, fam, dict) ==
    IF fam = <<>> THEN TRUE
    ELSE LET top == fam[Len(fam)]
         IN IF ~top[1] THEN TestRead(r, [fam EXCEPT ![Len(fam)] = <<TRUE, top[2]>>], dict)
            ELSE TestGive(r, SubSeq(fam, 1, Len(fam) - 1), dict \cup {top[2]})

CueTest(s) == TestRead(BsrInit(s), <<>>, {})

(* u3qe_rub(): the width read and the atom. *)
RubBits(p, a) ==
    LET ones == {i \in a : i >= p}
        x    == CHOOSE i \in ones : \A j \in ones : i <= j
        c    == x - p
        e    == Number({i - x - 1 : i \in {j \in a : j > x /\ j < x + c}} \cup {c - 1})
    IN IF ones = {} THEN <<>>
       ELSE IF c = 0 THEN <<1, {}>>
       ELSE <<2 * c + e, {i - x - c : i \in {j \in a : j >= x + c /\ j < x + c + e}}>>

(* u3s_cue(): places are computed from the widths that were read. *)
RECURSIVE RubRead(_, _, _, _), RubGive(_, _, _, _, _)
RubRead(a, cur, fam, dict) ==
    LET back == cur \in a /\ cur + 1 \in a
        bur  == RubBits(IF back THEN cur + 2 ELSE cur + 1, a)
        hits == {e \in dict : OfNumber(e[1]) = bur[2]}
    IN IF cur \in a /\ ~back THEN RubRead(a, cur + 2, Append(fam, [hed |-> <<>>, wid |-> 0, cur |-> cur]), dict)
       ELSE IF bur = <<>> THEN Failed
       ELSE IF ~back
       THEN RubGive(a, <<bur[2]>>, bur[1] + 1, fam, dict \cup {<<cur, <<bur[2]>> >>})
       ELSE IF hits = {} THEN Failed
       ELSE RubGive(a, (CHOOSE e \in hits : TRUE)[2], bur[1] + 2, fam, dict)

RubGive(a, pro, wid, fam, dict) ==
    LET top == fam[Len(fam)]
        cel == <<top.hed, pro>>
    IN IF fam = <<>> THEN [ok |-> TRUE, noun |-> pro, bits |-> wid]
       ELSE IF top.hed = <<>>
       THEN RubRead(a, top.cur + 2 + wid,
                    [fam EXCEPT ![Len(fam)].hed = pro, ![Len(fam)].wid = wid], dict)
       ELSE RubGive(a, cel, 2 + wid + top.wid, SubSeq(fam, 1, Len(fam) - 1),
                    dict \cup {<<top.cur, cel>>})

Cue(a) == RubRead(a, 0, <<>>, {})

=============================================================================
