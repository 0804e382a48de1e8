-------------------------------- MODULE Words --------------------------------
(***************************************************************************)
(* Atoms as the runtime stores them, and the jets on them: an atom is the  *)
(* sequence of its words, least significant first, without a zero word at  *)
(* the end.  An atom of one word below half the word's range is direct     *)
(* ("cat") and takes the fast path of most operations.  The code's words   *)
(* have 32 bits; here they have 2^WordLog, and every 5, 31, 32 and         *)
(* 0x7fffffff of the code is written from WordLog, so that short atoms     *)
(* reach the cases with several words.  A byte is a quarter of a word.     *)
(*                                                                         *)
(* Source: pkg/noun/retrieve.c, pkg/noun/imprison.c, pkg/noun/jets/a and   *)
(* pkg/noun/jets/c.  GMP's integers are TLA+ integers.                     *)
(***************************************************************************)
EXTENDS Integers, Sequences, FiniteSets, Bitwise

CONSTANT WordLog

W == 2 ^ WordLog

Base == 2 ^ W

Direct == Base \div 2

(* u3m_bail() and u3m_error(): no atom has a negative word. *)
Bailed == <<-1>>

(* c3_bits_word(): the bits of a word up to its highest set one. *)
BitsWord(w) == Cardinality({i \in 0 .. W - 1 : w >= 2 ^ i})

Shl(w, n) == (w * 2 ^ n) % Base

Shr(w, n) == w \div 2 ^ n

IsCat(a) == a = <<>> \/ (Len(a) = 1 /\ a[1] < Direct)

(* u3r_mp(): the integer of an atom, a direct one from its only word. *)
RECURSIVE Mp(_)
Mp(a) == IF a = <<>> THEN 0 ELSE a[1] + Base * Mp(Tail(a))

RECURSIVE Trim(_)
Trim(ws) == IF ws = <<>> \/ ws[Len(ws)] # 0 THEN ws ELSE Trim(SubSeq(ws, 1, Len(ws) - 1))

(* u3i_slab_mint(), u3i_words(): zero words at the end are dropped, and one *)
(* word that fits is stored in the noun itself.                             *)
Mint(ws) == Trim(ws)

RECURSIVE Export(_)
Export(n) == IF n = 0 THEN <<>> ELSE <<n % Base>> \o Export(n \div Base)

(* u3i_mp(), and u3i_slab_moot(), which relies on the export's last word   *)
(* not being zero.                                                         *)
IMp(n) == IF n = 0 THEN Mint(<<0>>) ELSE Export(n)

Word(i, a) == IF i >= Len(a) THEN 0 ELSE a[i + 1]

(* u3i_slab_bare() and u3i_slab_init(): at least one word. *)
SlabWords(g, len) ==
    LET n == (len * 2 ^ g + W - 1) \div W IN IF n = 0 THEN 1 ELSE n

SlabInit(g, len) == [i \in 1 .. SlabWords(g, len) |-> 0]

(* u3r_words(): past the atom there is nothing but zeros. *)
SlabFrom(a, g, len) == [i \in 1 .. SlabWords(g, len) |-> Word(i - 1, a)]

(* u3r_met(): by bits below the byte, by the top word's bytes and shorts,  *)
(* and by words above.                                                     *)
Met(g, a) ==
    IF a = <<>> THEN 0
    ELSE LET gal == Len(a) - 1
             top == BitsWord(a[Len(a)])
         IN CASE g < WordLog - 2 -> (top + gal * W + 2 ^ g - 1) \div 2 ^ g
              [] g = WordLog - 2 -> gal * 4 + (top + 2 ^ g - 1) \div 2 ^ g
              [] g = WordLog - 1 -> gal * 2 + (top + 2 ^ g - 1) \div 2 ^ g
              [] OTHER -> (gal + 2 ^ (g - WordLog)) \div 2 ^ (g - WordLog)

(* u3r_bit(): a direct atom has one bit less than a word. *)
Bit(i, a) ==
    IF IsCat(a) THEN IF i >= W - 1 THEN 0 ELSE Shr(Word(0, a), i) % 2
    ELSE IF i \div W >= Len(a) THEN 0
    ELSE Shr(a[i \div W + 1], i % W) % 2

ByteBits == W \div 4

(* u3r_byte() *)
Byte(i, a) ==
    IF IsCat(a) THEN IF i > 3 THEN 0 ELSE Shr(Word(0, a), i * ByteBits) % 2 ^ ByteBits
    ELSE IF i \div 4 >= Len(a) THEN 0
    ELSE Shr(a[i \div 4 + 1], (i % 4) * ByteBits) % 2 ^ ByteBits

(* u3r_short() *)
Short(i, a) ==
    LET half(w, k) == IF k = 1 THEN w \div 2 ^ (W \div 2) ELSE w % 2 ^ (W \div 2)
    IN IF i \div 2 >= Len(a) THEN 0 ELSE half(a[i \div 2 + 1], i % 2)

(* u3r_bytes(): n bytes of a from the p-th on.  For a direct atom the shift *)
(* reaches the word's width as soon as p does; what comes out then is       *)
(* either nothing or, where the machine masks the count, the atom itself.   *)
Bytes(p, n, a) ==
    LET cut(w) == [i \in 1 .. n |-> IF i > 4 THEN 0 ELSE Shr(w, (i - 1) * ByteBits) % 2 ^ ByteBits]
    IN IF ~IsCat(a) THEN { [i \in 1 .. n |-> IF p >= 4 * Len(a) THEN 0 ELSE Byte(p + i - 1, a)] }
       ELSE IF p < 4 THEN { cut(Shr(Word(0, a), p * ByteBits)) }
       ELSE { cut(0), cut(Word(0, a)) }

-----------------------------------------------------------------------------
(* Copies between word arrays.  Arrays start at 1 and offsets at 0.        *)

XorAt(dst, i, v) == [dst EXCEPT ![i + 1] = @ ^^ v]

(* u3r_chop_bits(): first the bits that bring the destination to a word    *)
(* boundary, then whole words, then the bits that are left.                *)
ChopBits(bif, wid, bit, dst, d, src, s) ==
    LET at(i, o)  == Shr(src[i + 1], o)
        ext(i, o) == Shl(src[i + 2], W - o)
        tib  == W - bit
        long == wid >= tib
        join == long /\ bit > 0
        low  == at(s, bif) ^^ (IF bif > bit THEN ext(s, bif) ELSE 0)
        dst1 == IF join THEN XorAt(dst, d, Shl(low, bit)) ELSE dst
        bif1 == IF join THEN (bif + tib) % W ELSE bif
        s1   == IF join THEN s + (bif + tib) \div W ELSE s
        d1   == IF join THEN d + 1 ELSE d
        wid1 == IF join THEN wid - tib ELSE wid
        n    == IF long THEN wid1 \div W ELSE 0
        dst2 == [i \in DOMAIN dst1 |->
                    LET k == i - 1 - d1
                    IN IF k \notin 0 .. n - 1 THEN dst1[i]
                       ELSE dst1[i] ^^ (at(s1 + k, bif1) ^^
                                (IF bif1 = 0 THEN 0 ELSE ext(s1 + k, bif1)))]
        rest == IF long THEN wid1 % W ELSE wid1
        high == at(s1 + n, bif1) ^^ (IF rest > W - bif1 THEN ext(s1 + n, bif1) ELSE 0)
    IN IF rest = 0 THEN dst2
       ELSE XorAt(dst2, d1 + n, Shl(high % 2 ^ rest, IF long THEN 0 ELSE bit))

(* u3r_chop_words(): bloqs of a word and more move words, smaller ones move *)
(* bits; what the source does not have is not copied.                       *)
ChopWords(g, fum, wid, tou, dst, src) ==
    IF g >= WordLog
    THEN LET h   == 2 ^ (g - WordLog)
             n   == IF (fum + wid) * h > Len(src) THEN Len(src) - fum * h ELSE wid * h
         IN IF fum * h >= Len(src) THEN dst
            ELSE [i \in DOMAIN dst |->
                    IF i - 1 - tou * h \in 0 .. n - 1
                    THEN dst[i] ^^ src[i - tou * h + fum * h] ELSE dst[i]]
    ELSE LET from == fum * 2 ^ g
             to   == tou * 2 ^ g
             end  == from + wid * 2 ^ g
             n    == IF end > Len(src) * W THEN Len(src) * W - from ELSE wid * 2 ^ g
         IN IF from > Len(src) * W THEN dst
            ELSE ChopBits(from % W, n, to % W, dst, to \div W, src, from \div W)

(* u3r_chop(): a direct atom is an array of one word, zero of none. *)
Chop(g, fum, wid, tou, dst, a) == ChopWords(g, fum, wid, tou, dst, a)

-----------------------------------------------------------------------------
(* jets/a: arithmetic.  Both direct: machine words.  Otherwise: GMP.       *)

Cats(a, b) == IsCat(a) /\ IsCat(b)

Add(a, b) ==
    IF Cats(a, b) THEN Mint(<<(Word(0, a) + Word(0, b)) % Base>>)
    ELSE IF a = <<>> THEN b ELSE IMp(Mp(a) + Mp(b))

Sub(a, b) ==
    IF Cats(a, b)
    THEN IF Word(0, a) < Word(0, b) THEN Bailed ELSE Mint(<<Word(0, a) - Word(0, b)>>)
    ELSE IF b = <<>> THEN a
    ELSE IF Mp(a) < Mp(b) THEN Bailed ELSE IMp(Mp(a) - Mp(b))

(* The product of two direct atoms is a double word: u3i_chubs(). *)
Mul(a, b) ==
    IF Cats(a, b)
    THEN LET c == Word(0, a) * Word(0, b) IN Mint(<<c % Base, c \div Base>>)
    ELSE IF a = <<>> THEN <<>> ELSE IMp(Mp(a) * Mp(b))

Div(a, b) ==
    IF b = <<>> THEN Bailed
    ELSE IF Cats(a, b) THEN Mint(<<Word(0, a) \div Word(0, b)>>)
    ELSE IMp(Mp(a) \div Mp(b))

Mod(a, b) ==
    IF b = <<>> THEN Bailed
    ELSE IF Cats(a, b) THEN Mint(<<Word(0, a) % Word(0, b)>>)
    ELSE IMp(Mp(a) % Mp(b))

Dvr(a, b) == <<Div(a, b), Mod(a, b)>>

Dec(a) ==
    IF a = <<>> THEN Bailed
    ELSE IF IsCat(a) THEN Mint(<<a[1] - 1>>) ELSE IMp(Mp(a) - 1)

(* u3i_vint(): the largest direct atom becomes an indirect one. *)
Vint(a) ==
    IF IsCat(a) THEN Mint(<<(Word(0, a) + 1) % Base>>) ELSE IMp(Mp(a) + 1)

(* lth: by length in bits before the numbers are compared. *)
Lth(a, b) ==
    IF Cats(a, b) THEN Word(0, a) < Word(0, b)
    ELSE IF a = <<>> THEN TRUE
    ELSE IF b = <<>> THEN FALSE
    ELSE IF Met(0, a) # Met(0, b) THEN Met(0, a) < Met(0, b)
    ELSE Mp(a) < Mp(b)

Gte(a, b) ==
    IF Cats(a, b) THEN Word(0, a) >= Word(0, b)
    ELSE IF a = <<>> THEN FALSE
    ELSE IF b = <<>> THEN TRUE
    ELSE IF Met(0, a) # Met(0, b) THEN Met(0, a) >= Met(0, b)
    ELSE Mp(a) >= Mp(b)

Lte(a, b) ==
    IF Cats(a, b) THEN Word(0, a) <= Word(0, b)
    ELSE IF a = <<>> THEN TRUE
    ELSE IF b = <<>> THEN FALSE
    ELSE IF Met(0, a) # Met(0, b) THEN Met(0, a) <= Met(0, b)
    ELSE Mp(a) <= Mp(b)

Gth(a, b) ==
    IF Cats(a, b) THEN Word(0, a) > Word(0, b)
    ELSE IF a = <<>> THEN FALSE
    ELSE IF b = <<>> THEN TRUE
    ELSE IF Met(0, a) # Met(0, b) THEN Met(0, a) > Met(0, b)
    ELSE Mp(a) > Mp(b)

-----------------------------------------------------------------------------
(* jets/c: bits and bloqs.  A position or a count arrives as an atom; one  *)
(* that is not direct is refused, or stands for "past the end".            *)

Lsh(g, n, c) ==
    LET len == Met(g, c)
    IN IF n >= Direct THEN Bailed
       ELSE IF len = 0 THEN <<>>
       ELSE Mint(Chop(g, 0, len, n, SlabInit(g, n + len), c))

Rsh(g, n, c) ==
    LET len == Met(g, c)
    IN IF n >= Direct \/ n >= len THEN <<>>
       ELSE Mint(Chop(g, n, len - n, 0, SlabInit(g, len - n), c))

End(g, n, c) ==
    IF n >= Direct THEN c
    ELSE IF n = 0 THEN <<>>
    ELSE IF n >= Met(g, c) THEN c
    ELSE Mint(Chop(g, 0, n, 0, SlabInit(g, n), c))

Cut(g, b, c, d) ==
    LET len  == Met(g, d)
        want == IF c >= Direct THEN Direct - 1 ELSE c
        n    == IF b + want > len THEN len - b ELSE want
    IN IF b >= Direct \/ want = 0 \/ b >= len THEN <<>>
       ELSE IF b = 0 /\ n = len THEN d
       ELSE Mint(Chop(g, b, n, 0, SlabInit(g, n), d))

Cat(g, b, c) ==
    LET lew == Met(g, b)
        ler == Met(g, c)
    IN IF lew + ler = 0 THEN <<>>
       ELSE Mint(Chop(g, 0, ler, lew, SlabFrom(b, g, lew + ler), c))

(* can and rap: the atoms of a list side by side, with the sizes given, or *)
(* with their own.                                                         *)
RECURSIVE ChopAll(_, _, _, _)
ChopAll(g, list, pos, dst) ==
    IF list = <<>> THEN dst
    ELSE ChopAll(g, Tail(list), pos + list[1][1],
                 Chop(g, 0, list[1][1], pos, dst, list[1][2]))

RECURSIVE Total(_)
Total(list) == IF list = <<>> THEN 0 ELSE list[1][1] + Total(Tail(list))

Can(g, list) ==
    IF \E i \in DOMAIN list : list[i][1] >= Direct THEN Bailed
    ELSE IF Total(list) = 0 THEN <<>>
    ELSE Mint(ChopAll(g, list, 0, SlabInit(g, Total(list))))

Rap(g, list) ==
    LET sized == [i \in DOMAIN list |-> <<Met(g, list[i]), list[i]>>]
    IN IF Total(sized) = 0 THEN <<>>
       ELSE Mint(ChopAll(g, sized, 0, SlabInit(g, Total(sized))))

(* _block_rep(): one bloq of each. *)
BlockRep(g, list) ==
    IF list = <<>> THEN <<>>
    ELSE Mint(ChopAll(g, [i \in DOMAIN list |-> <<1, list[i]>>], 0,
                      SlabInit(g, Len(list))))

(* _bit_rep(): the low bits of each block go through a register that is    *)
(* flushed when it is full.  The buffer is not cleared beforehand: with no *)
(* block to flush the result is whatever its word held (garbage).          *)
RECURSIVE BitRepLoop(_, _, _, _, _)
BitRepLoop(bits, list, acc, use, out) ==
    IF list = <<>> THEN IF use > 0 THEN Append(out, acc) ELSE out
    ELSE LET v    == list[1][1]
             n    == list[1][2]
             room == W - use
             full == acc + Shl(v % 2 ^ (IF n < room THEN n ELSE room), use)
             more == Tail(list)
         IN CASE n = room -> BitRepLoop(bits, more, 0, 0, Append(out, full))
              [] n < room -> BitRepLoop(bits, more, full, use + n, out)
              [] OTHER    -> BitRepLoop(bits, << <<Shr(v, room), n - room>> >> \o more,
                                        0, 0, Append(out, full))

BitRep(bits, list, garbage) ==
    IF bits = 0 \/ bits > W - 1 \/ \E i \in DOMAIN list : ~IsCat(list[i]) THEN Bailed
    ELSE LET out == BitRepLoop(bits, [i \in DOMAIN list |-> <<Word(0, list[i]), bits>>],
                               0, 0, <<>>)
         IN Mint(IF out = <<>> THEN <<garbage>> ELSE out)

(* _bit_rip(): every block is put together from the words it lies in. *)
BitRip(bits, a) ==
    IF bits = 0 \/ bits > W - 1 THEN << Bailed >>
    ELSE [k \in 1 .. (Met(0, a) + bits - 1) \div bits |->
            LET pos  == (k - 1) * bits
                sh   == pos % W
                low  == IF bits < W - sh THEN bits ELSE W - sh
            IN Mint(<< (Shr(Word(pos \div W, a), sh) % 2 ^ low)
                       + Shl(Word(pos \div W + 1, a) % 2 ^ (bits - low), low) >>)]

(* _block_rip(): below the word a mask, from the word on whole words, and  *)
(* the highest block only as long as the atom is.                          *)
BlockRip(g, a) ==
    LET met == Met(g, a)
        san == 2 ^ (g - WordLog)
        dif == met * san - Met(WordLog, a)
    IN [k \in 1 .. met |->
          IF g < WordLog
          THEN LET pos == (k - 1) * 2 ^ g
               IN Mint(<<Shr(Word(pos \div W, a), pos % W) % 2 ^ (2 ^ g)>>)
          ELSE LET n == IF k = met THEN san - dif ELSE san
               IN Mint([j \in 1 .. n |-> Word((k - 1) * san + j - 1, a)])]

(* swp and rev *)
Swp(g, a) ==
    LET r == BlockRip(g, a)
    IN BlockRep(g, [i \in DOMAIN r |-> r[Len(r) + 1 - i]])

Rev(g, n, a) ==
    IF n >= Direct THEN Bailed
    ELSE LET dat == End(g, n, a) IN Lsh(g, n - Met(g, dat), Swp(g, dat))

(* con, dis, mix: word by word over a copy of the first atom. *)
PerWord(Op(_, _), a, b) ==
    LET n == IF Len(a) < Len(b) THEN Len(b) ELSE Len(a)
    IN IF n = 0 THEN <<>> ELSE Mint([i \in 1 .. n |-> Op(Word(i - 1, a), Word(i - 1, b))])

Dis(a, b) == PerWord(&, a, b)

Con(a, b) == PerWord(|, a, b)

Mix(a, b) == PerWord(^^, a, b)

Bex(n) == IMp(2 ^ n)

(* cap, mas, peg: steps into an axis. *)
Cap(a) ==
    LET met == Met(0, a)
    IN IF met < 2 THEN Bailed ELSE IF Bit(met - 2, a) = 1 THEN <<3>> ELSE <<2>>

Mas(a) ==
    LET met == Met(0, a)
    IN IF met < 2 THEN Bailed ELSE Con(Sub(a, Bex(met - 1)), Bex(met - 2))

Peg(a, b) ==
    IF b = <<1>> THEN a
    ELSE LET d == Met(0, b) - 1
         IN Add(Sub(b, Lsh(0, d, <<1>>)), Lsh(0, d, a))

(* mat and rub: an atom with its length in front. *)
Mat(a) ==
    IF a = <<>> THEN <<1, <<1>> >>
    ELSE LET b == Met(0, a)
             c == Met(0, IMp(b))
         IN << 2 * c + b,
               Cat(0, Bex(c), Mix(End(0, c - 1, IMp(b)), Lsh(0, c - 1, a))) >>

Rub(p, b) ==
    LET m    == p + Met(0, b)
        ones == {x \in p .. m + 1 : Cut(0, x, 1, b) # <<>>}
        x    == CHOOSE i \in ones : \A j \in ones : i <= j
        c    == x - p
        e    == 2 ^ (c - 1) + Mp(Cut(0, x + 1, c - 1, b))
    IN IF ones = {} THEN << -1, Bailed >>
       ELSE IF c = 0 THEN <<1, <<>> >>
       ELSE << 2 * c + e, Cut(0, x + c, e, b) >>

=============================================================================
