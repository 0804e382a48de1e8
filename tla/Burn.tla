-------------------------------- MODULE Burn --------------------------------
(***************************************************************************)
(* The second half of pkg/noun/nock.c: instructions are assembled to       *)
(* bytecode with tables of literals, call sites and memos, and burned.     *)
(*                                                                         *)
(* The stack holds nouns and, between them, the frames of callers: a frame *)
(* has three parts, where a noun has one or two.  The code cannot tell     *)
(* them apart; a machine that takes one for the other is "broken" here.    *)
(***************************************************************************)
EXTENDS Integers, Sequences, FiniteSets, SequencesExt, Nock

(* The opcodes, in their order: a longer form follows its shorter one. *)
OPCODES ==
    << "HALT", "BAIL", "COPY", "SWAP", "TOSS", "AUTO", "AULT", "SNOC", "SNOL", "HEAD", "HELD",
       "TAIL", "TALL", "FABK", "FASK", "FIBK", "FISK", "FABL", "FASL", "FIBL", "FISL",
       "LIT0", "LIT1", "LITB", "LITS", "LIBK", "LISK", "LIL0", "LIL1", "LILB", "LILS",
       "LIBL", "LISL", "NOLK", "NOCT", "NOCK", "DEEP", "BUMP", "SAM0", "SAM1", "SAMB",
       "SAMS", "SANB", "SANS", "SAME", "SALM", "SAMC", "SBIP", "SIPS", "SWIP", "SBIN",
       "SINS", "SWIN", "KICB", "KICS", "TICB", "TICS", "WILS", "WISH", "BUSH", "SUSH",
       "DROP", "HECK", "SLOG", "BAST", "SAST", "BALT", "SALT", "SKIB", "SKIS", "SLIB",
       "SLIS", "SAVE", "HILB", "HILS", "HINB", "HINS", "HILK", "HILL", "HINK", "HINL",
       "MUTH", "KUTH", "MUTT", "KUTT", "MUSM", "KUSM", "MUTB", "MUTS", "MITB", "MITS",
       "KUTB", "KUTS", "KITB", "KITS" >>

Opcode(name, more) == OPCODES[(CHOOSE i \in DOMAIN OPCODES : OPCODES[i] = name) + more]

(* _n_arg(): the bytes of an argument. *)
ByteArgs ==
    {"FABK", "FABL", "FIBL", "FIBK", "LILB", "LITB", "LIBL", "LIBK", "SAMB", "SANB", "SBIP",
     "SBIN", "SLIB", "SKIB", "KICB", "TICB", "BUSH", "BAST", "BALT", "MUTB", "KUTB", "MITB",
     "KITB", "HILB", "HINB"}

ShortArgs ==
    {"FASK", "FASL", "FISL", "FISK", "LILS", "LITS", "LISL", "LISK", "SAMS", "SANS", "SIPS",
     "SINS", "SLIS", "SKIS", "KICS", "TICS", "SUSH", "SAST", "SALT", "MUTS", "KUTS", "MITS",
     "KITS", "HILS", "HINS"}

ArgLen(name) ==
    CASE name \in ByteArgs  -> 1
      [] name \in ShortArgs -> 2
      [] name \in {"SWIP", "SWIN"} -> 4
      [] OTHER -> 0

-----------------------------------------------------------------------------
(* _n_melt() and _n_prog_asm() go through the list from its end, so that   *)
(* the last instruction of a kind has the first entry of its table.        *)
Skips == {"SBIP", "SBIN"}

Tabled ==
    [lit |-> {"BUSH", "FIBK", "FIBL", "SANB", "LIBL", "LIBK", "KITB", "MITB", "HILB", "HINB"},
     cal |-> {"KICB", "TICB"},
     reg |-> {"BAST", "BALT"},
     mem |-> {"SKIB", "SLIB"}]

TableOf(name) == {k \in DOMAIN Tabled : name \in Tabled[k]}

IndexIn(ops, i) ==
    Cardinality({j \in i + 1 .. Len(ops) : TableOf(ops[j][1]) = TableOf(ops[i][1])})

(* The bytes that the n instructions after i take up. *)
SkipBytes(siz, i, n) == FoldSet(LAMBDA j, t : t + siz[j], 0, i + 1 .. i + n)

Melt(ops) ==
    LET siz[i \in DOMAIN ops] ==
            LET name == ops[i][1]
            IN CASE name \in Skips ->
                      LET tot == SkipBytes(siz, i, ops[i][2])
                      IN IF tot < ByteMax THEN 2 ELSE IF tot < ShortMax THEN 3 ELSE 5
                 [] TableOf(name) # {} -> IF IndexIn(ops, i) < ByteMax THEN 2 ELSE 3
                 [] OTHER -> 1 + ArgLen(name)
    IN siz

Digits(n, len) == [i \in 1 .. len |-> (n \div ByteMax ^ (i - 1)) % ByteMax]

AsmSkip(name, tot) ==
    IF tot < ByteMax THEN <<name>> \o Digits(tot, 1)
    ELSE IF tot < ShortMax THEN <<Opcode(name, 1)>> \o Digits(tot, 2)
    ELSE <<Opcode(name, 2)>> \o Digits(tot, 4)

AsmInx(name, inx) ==
    IF inx < ByteMax THEN <<name>> \o Digits(inx, 1) ELSE <<Opcode(name, 1)>> \o Digits(inx, 2)

AsmOp(ops, siz, i) ==
    LET op == ops[i]
    IN CASE op[1] \in Skips -> AsmSkip(op[1], SkipBytes(siz, i, op[2]))
         [] TableOf(op[1]) # {} -> AsmInx(op[1], IndexIn(ops, i))
         [] ArgLen(op[1]) > 0 /\ op[1] \notin Skips /\ TableOf(op[1]) = {} ->
                <<op[1]>> \o Digits(op[2][1], ArgLen(op[1]))
         [] OTHER -> op

(* The table of a kind: of a memo, its skip in bytes and its formula. *)
Table(ops, siz, k) ==
    LET at == SelectSeq([i \in DOMAIN ops |-> Len(ops) + 1 - i],
                        LAMBDA i : k \in TableOf(ops[i][1]))
    IN [j \in DOMAIN at |->
            LET op == ops[at[j]]
            IN CASE k = "mem" -> <<SkipBytes(siz, at[j], op[2]), op[3]>>
                 [] k = "reg" -> <<>>
                 [] OTHER -> op[2]]

RECURSIVE AsmFrom(_, _, _)
AsmFrom(ops, siz, i) ==
    IF i > Len(ops) THEN <<"HALT">> ELSE AsmOp(ops, siz, i) \o AsmFrom(ops, siz, i + 1)

(* _n_prog_asm(): the formula is kept to tell the program's sites apart. *)
ProgAsm(fol, ops, siz) ==
    [fol  |-> fol,
     code |-> AsmFrom(ops, siz, 1),
     lit  |-> Table(ops, siz, "lit"),
     cal  |-> Table(ops, siz, "cal"),
     mem  |-> Table(ops, siz, "mem")]

(* _n_bite(): the program of the instructions, or why there is none. *)
Bite(fol, ops) ==
    LET bad == {i \in DOMAIN ops : ops[i] \in {Exit[1], Abort[1]}}
    IN IF bad = {} THEN [why |-> "run", pog |-> ProgAsm(fol, ops, Melt(ops))]
       ELSE [why |-> IF \E i \in bad : ops[i] = Abort[1] THEN "assert" ELSE "exit"]

(* _n_find() *)
Find1(fol) == Bite(fol, Comp(fol, TRUE, TRUE))

-----------------------------------------------------------------------------
(* The machine: the program and its instruction pointer, the stack with    *)
(* its top first, the trace, the memos and the call sites filled so far.   *)
Machine(fol, bus) ==
    [pog |-> [fol |-> fol], ip |-> 0, stk |-> <<bus>>, tax |-> <<>>, memo |-> {}, site |-> {},
     out |-> "find"]

Frame(m, ip) == <<m.pog, ip, "frame">>

IsFrame(x) == Len(x) = 3

Name(m) == m.pog.code[m.ip + 1]

RECURSIVE ReadBytes(_, _, _)
ReadBytes(m, at, n) ==
    IF n = 0 THEN 0 ELSE m.pog.code[at] + ByteMax * ReadBytes(m, at + 1, n - 1)

(* _n_resh(), _n_rewo(): the argument of the instruction at ip. *)
Read(m) == ReadBytes(m, m.ip + 2, ArgLen(Name(m)))

NextIp(m) == m.ip + 1 + ArgLen(Name(m))

Indexed ==
    {"FIBK", "FISK", "FIBL", "FISL", "LIBK", "LISK", "LIBL", "LISL", "BUSH", "SUSH", "SANB",
     "SANS", "KITB", "KITS", "MITB", "MITS", "HILB", "HILS", "HINB", "HINS"}

(* The noun an instruction carries, in its bytes or in the literals. *)
Operand(m) == IF Name(m) \in Indexed THEN m.pog.lit[Read(m) + 1] ELSE <<Read(m)>>

Go(m, stk) == [m EXCEPT !.ip = NextIp(m), !.stk = stk]

Stop(m, why) == [m EXCEPT !.out = why]

Rest(m, n) == SubSeq(m.stk, n + 1, Len(m.stk))

(* Run another program with the stack given: its bytecode is found first. *)
Jump(m, fol, stk) ==
    [m EXCEPT !.pog = [fol |-> fol], !.ip = 0, !.stk = stk, !.out = "find"]

(* A formula that does not compile bails. *)
Load(m, got) ==
    IF got.why # "run" THEN Stop(m, got.why) ELSE [m EXCEPT !.pog = got.pog, !.out = "run"]

-----------------------------------------------------------------------------
(* do_halt to do_tall: a, b and c are the top of the stack. *)
StepStack(m, a, b, c) ==
    CASE Name(m) = "HALT" ->
            (IF Len(m.stk) = 1 THEN Stop(m, "pro")
             ELSE IF ~IsFrame(b) THEN Stop(m, "broken")
             ELSE [m EXCEPT !.pog = b[1], !.ip = b[2], !.stk = <<a>> \o Rest(m, 2)])
      [] Name(m) = "BAIL" -> Stop(m, "exit")
      [] Name(m) = "COPY" -> Go(m, <<a>> \o m.stk)
      [] Name(m) = "SWAP" -> Go(m, <<b, a>> \o Rest(m, 2))
      [] Name(m) = "TOSS" -> Go(m, Rest(m, 1))
      [] Name(m) = "AUTO" -> Go(m, << <<c, a>>, b>> \o Rest(m, 3))
      [] Name(m) = "AULT" -> Go(m, << <<c, a>> >> \o Rest(m, 3))
      [] Name(m) = "SNOC" -> Go(m, << <<a, b>> >> \o Rest(m, 1))
      [] Name(m) = "SNOL" -> Go(m, << <<a, b>> >> \o Rest(m, 2))
      [] Name(m) \in {"HEAD", "TAIL", "HELD", "TALL"} ->
            IF IsAtom(a) THEN Stop(m, "exit")
            ELSE LET x == IF Name(m) \in {"HEAD", "HELD"} THEN a[1] ELSE a[2]
                 IN Go(m, <<x>> \o Rest(m, IF Name(m) \in {"HEAD", "TAIL"} THEN 0 ELSE 1))

(* frag_in, flag_in *)
StepFrag(m, a, keep) ==
    LET x == At(Operand(m)[1], a)
    IN IF x = None THEN Stop(m, "exit") ELSE Go(m, <<x>> \o Rest(m, IF keep THEN 0 ELSE 1))

(* do_lit0 to lil_in *)
StepLit(m) ==
    LET x == CASE Name(m) \in {"LIT0", "LIL0"} -> <<0>>
               [] Name(m) \in {"LIT1", "LIL1"} -> <<1>>
               [] OTHER -> Operand(m)
    IN Go(m, <<x>> \o Rest(m, IF Name(m) \in {"LIT0", "LIT1", "LITB", "LITS", "LIBK", "LISK"}
                              THEN 0 ELSE 1))

(* [fol old bus]: in tail position nothing is left to come back to. *)
StepNock(m, fol, old, bus) ==
    CASE Name(m) = "NOCT" -> Jump(m, fol, <<bus>> \o Rest(m, 3))
      [] Name(m) = "NOLK" -> Jump(m, fol, <<bus, Frame(m, NextIp(m))>> \o Rest(m, 3))
      [] Name(m) = "NOCK" -> Jump(m, fol, <<bus, Frame(m, NextIp(m)), old>> \o Rest(m, 3))

Loobean(b) == IF b THEN <<0>> ELSE <<1>>

(* do_deep to do_samc: a word compared with a cell, or with a large atom,  *)
(* is never equal.                                                         *)
StepTest(m, a, b, c) ==
    CASE Name(m) = "DEEP" -> Go(m, <<Loobean(IsCell(a))>> \o Rest(m, 1))
      [] Name(m) = "BUMP" -> (IF IsCell(a) THEN Stop(m, "exit")
                              ELSE Go(m, << <<a[1] + 1>> >> \o Rest(m, 1)))
      [] Name(m) = "SAM0" -> Go(m, <<Loobean(a = <<0>>)>> \o Rest(m, 1))
      [] Name(m) = "SAM1" -> Go(m, <<Loobean(a = <<1>>)>> \o Rest(m, 1))
      [] Name(m) \in {"SAMB", "SAMS"} -> Go(m, <<Loobean(a = Operand(m))>> \o Rest(m, 1))
      [] Name(m) \in {"SANB", "SANS"} -> Go(m, <<Loobean(Sing(a, Operand(m)))>> \o Rest(m, 1))
      [] Name(m) = "SAME" -> Go(m, <<Loobean(Sing(a, c)), b>> \o Rest(m, 3))
      [] Name(m) = "SALM" -> Go(m, <<Loobean(Sing(a, c))>> \o Rest(m, 3))
      [] Name(m) = "SAMC" -> (IF IsAtom(a) THEN Stop(m, "exit")
                              ELSE Go(m, <<Loobean(Sing(a[1], a[2]))>> \o Rest(m, 1)))

(* do_sbip to skin_in *)
StepSkip(m, a) ==
    CASE Name(m) \in {"SBIP", "SIPS", "SWIP"} -> [m EXCEPT !.ip = NextIp(m) + Read(m)]
      [] a = <<1>> -> [m EXCEPT !.ip = NextIp(m) + Read(m), !.stk = Rest(m, 1)]
      [] a = <<0>> -> Go(m, Rest(m, 1))
      [] OTHER     -> Stop(m, "exit")

(* _cj_site_lock(): a site remembers the battery it was last called with   *)
(* and the program of its arm.                                             *)
SiteLock(m, axe, at, cor) ==
    LET was == {s \in m.site : s.at = at}
        arm == At(axe, cor)
    IN IF IsAtom(cor) THEN {}
       ELSE IF \E s \in was : Sing(s.bat, cor[1]) THEN was
       ELSE IF arm = None THEN {}
       ELSE {[at |-> at, bat |-> cor[1], arm |-> arm]}

(* kick_in, tick_in *)
StepKick(m, cor) ==
    LET at  == <<m.pog.fol, Read(m)>>
        new == SiteLock(m, m.pog.cal[Read(m) + 1][1], at, cor)
        n   == [m EXCEPT !.site = {s \in m.site : s.at # at} \union new]
    IN IF new = {} THEN Stop(m, "exit")
       ELSE Jump(n, (CHOOSE s \in new : TRUE).arm,
                 IF Name(m) \in {"TICB", "TICS"} THEN m.stk
                 ELSE <<cor, Frame(m, NextIp(m))>> \o Rest(m, 1))

(* wish_in: [gof bus ref].  The handler blocks, knows that there is no     *)
(* such thing, or answers.                                                 *)
StepWish(m, gof, bus, ref) ==
    LET x == Esc(ref, gof)
    IN IF IsAtom(x) THEN Stop(m, "block")
       ELSE IF IsAtom(x[2]) THEN Stop(m, "exit")
       ELSE Go(m, (IF Name(m) = "WILS" THEN <<x[2][2]>> ELSE <<x[2][2], bus>>) \o Rest(m, 3))

(* cush_in, do_drop, do_heck, do_slog *)
StepTrace(m, a) ==
    CASE Name(m) \in {"BUSH", "SUSH"} ->
            [Go(m, Rest(m, 1)) EXCEPT !.tax = <<Operand(m), a>> \o @]
      [] Name(m) = "DROP" -> [Go(m, m.stk) EXCEPT !.tax = Rest([m EXCEPT !.stk = m.tax], 2)]
      [] Name(m) \in {"HECK", "SLOG"} -> Go(m, Rest(m, 1))

(* fast_in, falt_in: [pro bus clu].  The core is registered, and stays. *)
StepFast(m, pro, bus, clu) ==
    Go(m, (IF Name(m) \in {"BALT", "SALT"} THEN <<pro>> ELSE <<pro, bus>>) \o Rest(m, 3))

(* skim_in, slim_in: the key is the subject and the formula. *)
StepMemo(m, bus, lose) ==
    LET mem  == m.pog.mem[Read(m) + 1]
        key  == <<bus, mem[2]>>
        was  == {k \in m.memo : k[1] = key}
        rest == Rest(m, IF lose THEN 1 ELSE 0)
    IN IF was = {} THEN Go(m, <<bus, key>> \o rest)
       ELSE [Go(m, <<(CHOOSE k \in was : TRUE)[2]>> \o rest) EXCEPT !.ip = @ + mem[1]]

(* do_save: [pro key].  Nothing is kept on the home road. *)
StepSave(m, pro, key, inner) ==
    [Go(m, <<pro>> \o Rest(m, 2)) EXCEPT
        !.memo = IF inner THEN {k \in @ : k[1] # key} \union {<<key, pro>>} ELSE @]

(* The token that _n_hilt_fore() and _n_hint_fore() leave for the end; the *)
(* time is a 0.                                                            *)
HiltFore(hin) == IF hin[1] = <<Bout>> THEN <<hin[1], <<0>> >> ELSE <<0>>

HintFore(hin, clu) == IF hin[1] = <<Bout>> THEN <<hin[1], <<clu, <<0>> >> >> ELSE <<0>>

(* do_hilb, do_hinb: [bus] or [clu bus] becomes [kip bus tok]. *)
StepFore(m, a, b) ==
    IF Name(m) \in {"HILB", "HILS"}
    THEN Go(m, << <<0>>, a, HiltFore(Operand(m))>> \o Rest(m, 1))
    ELSE Go(m, << <<0>>, b, HintFore(Operand(m), a)>> \o Rest(m, 2))

(* _n_hilt_hind(), _n_hint_hind(): the token is null or a report, and the  *)
(* report of a dynamic %bout needs a cell for its clue.                    *)
HiltHind(tok) == tok = <<0>> \/ (IsCell(tok) /\ tok[1] = <<Bout>>)

HintHind(tok) ==
    \/ tok = <<0>>
    \/ IsCell(tok) /\ tok[1] = <<Bout>> /\ IsCell(tok[2]) /\ IsCell(tok[2][1])

(* do_hilk to do_hinl: [pro bus tok] or [pro tok]. *)
StepHind(m, pro, b, c) ==
    LET keep == Name(m) \in {"HILK", "HINK"}
        tok  == IF keep THEN c ELSE b
    IN IF ~(IF Name(m) \in {"HILK", "HILL"} THEN HiltHind(tok) ELSE HintHind(tok))
       THEN Stop(m, "assert")
       ELSE Go(m, (IF keep THEN <<pro, b>> ELSE <<pro>>) \o Rest(m, IF keep THEN 3 ELSE 2))

(* do_kuth to edit_in: [som bus big]. *)
StepEdit(m, som, bus, big) ==
    LET keep == Name(m) \in {"KUTH", "KUTT", "KUSM", "KUTB", "KUTS", "KITB", "KITS"}
        pro  == CASE Name(m) \in {"MUTH", "KUTH"} ->
                        (IF IsAtom(big) THEN Bail ELSE <<som, big[2]>>)
                  [] Name(m) \in {"MUTT", "KUTT"} ->
                        (IF IsAtom(big) THEN Bail ELSE <<big[1], som>>)
                  [] Name(m) \in {"MUSM", "KUSM"} ->
                        (IF IsAtom(big) \/ IsAtom(big[2]) THEN Bail
                         ELSE <<big[1], <<som, big[2][2]>> >>)
                  [] OTHER -> IF IsCell(Operand(m)) THEN Bail ELSE Edit(big, Operand(m)[1], som)
    IN IF pro = Bail THEN Stop(m, "exit")
       ELSE Go(m, (IF keep THEN <<pro, bus>> ELSE <<pro>>) \o Rest(m, 3))

-----------------------------------------------------------------------------
(* The opcodes by the place in _n_burn() that runs them, and the nouns     *)
(* each takes from the top of the stack.                                   *)
Frags == {"FABK", "FASK", "FIBK", "FISK"}
Flags == {"FABL", "FASL", "FIBL", "FISL"}
Lits == {"LIT0", "LIT1", "LITB", "LITS", "LIBK", "LISK"}
Lils == {"LIL0", "LIL1", "LILB", "LILS", "LIBL", "LISL"}
Nocks == {"NOCT", "NOLK", "NOCK"}
Tests == {"DEEP", "BUMP", "SAM0", "SAM1", "SAMB", "SAMS", "SANB", "SANS", "SAME", "SALM", "SAMC"}
Jumps == {"SBIP", "SIPS", "SWIP", "SBIN", "SINS", "SWIN"}
Kicks == {"KICB", "KICS", "TICB", "TICS"}
Wishes == {"WILS", "WISH"}
Traces == {"BUSH", "SUSH", "DROP", "HECK", "SLOG"}
Fasts == {"BAST", "SAST", "BALT", "SALT"}
Memos == {"SKIB", "SKIS", "SLIB", "SLIS"}
Fores == {"HILB", "HILS", "HINB", "HINS"}
Hinds == {"HILK", "HILL", "HINK", "HINL"}
Edits == {"MUTH", "KUTH", "MUTT", "KUTT", "MUSM", "KUSM", "MUTB", "MUTS", "MITB", "MITS",
          "KUTB", "KUTS", "KITB", "KITS"}

Takes(name) ==
    CASE name \in Lits \union {"BAIL", "SBIP", "SIPS", "SWIP", "DROP"} -> 0
      [] name \in {"SWAP", "SNOC", "SNOL", "SAVE", "HINB", "HINS", "HILL", "HINL"} -> 2
      [] name \in Nocks \union Wishes \union Fasts \union Edits
                 \union {"AUTO", "AULT", "SAME", "SALM", "HILK", "HINK"} -> 3
      [] OTHER -> 1

StepOp(m, a, b, c, inner) ==
    CASE Name(m) \in Frags  -> StepFrag(m, a, TRUE)
      [] Name(m) \in Flags  -> StepFrag(m, a, FALSE)
      [] Name(m) \in Lits \union Lils -> StepLit(m)
      [] Name(m) \in Nocks  -> StepNock(m, a, b, c)
      [] Name(m) \in Tests  -> StepTest(m, a, b, c)
      [] Name(m) \in Jumps  -> StepSkip(m, a)
      [] Name(m) \in Kicks  -> StepKick(m, a)
      [] Name(m) \in Wishes -> StepWish(m, a, b, c)
      [] Name(m) \in Traces -> StepTrace(m, a)
      [] Name(m) \in Fasts  -> StepFast(m, a, b, c)
      [] Name(m) \in Memos  -> StepMemo(m, a, Name(m) \in {"SLIB", "SLIS"})
      [] Name(m) = "SAVE"   -> StepSave(m, a, b, inner)
      [] Name(m) \in Fores  -> StepFore(m, a, b)
      [] Name(m) \in Hinds  -> StepHind(m, a, b, c)
      [] Name(m) \in Edits  -> StepEdit(m, a, b, c)
      [] OTHER -> StepStack(m, a, b, c)

Step(m, inner) ==
    LET top(i) == IF i <= Len(m.stk) THEN m.stk[i] ELSE <<>>
    IN IF \E i \in 1 .. Takes(Name(m)) : i > Len(m.stk) \/ IsFrame(top(i))
       THEN Stop(m, "broken")
       ELSE StepOp(m, top(1), top(2), top(3), inner)

(* _n_burn(), given up after so many instructions. *)
RECURSIVE BurnOn(_, _, _)
BurnOn(m, inner, fuel) ==
    IF m.out \notin {"run", "find"} \/ fuel = 0 THEN m
    ELSE BurnOn(IF m.out = "find" THEN Load(m, Find1(m.pog.fol)) ELSE Step(m, inner),
                inner, fuel - 1)

NockOn(bus, fol, inner, fuel) == BurnOn(Machine(fol, bus), inner, fuel)

=============================================================================
