-------------------------------- MODULE Nock --------------------------------
(***************************************************************************)
(* The nock interpreter, pkg/noun/nock.c: a formula is compiled to a list  *)
(* of instructions, assembled to bytecode, and burned by a stack machine.  *)
(*                                                                         *)
(* An instruction is <<name>> or <<name, argument>>.  Bytes hold numbers   *)
(* below ByteMax (256 in the code), so that the short and long forms of an *)
(* instruction, and its indexed form, are all reached by small formulas.   *)
(* A string in the code is an opcode; every other byte is part of an       *)
(* argument, the least significant first.                                  *)
(*                                                                         *)
(* Jets are left out: a kick never finds one and always runs the arm.      *)
(* Printing is left out too; the hints keep their effect on the stack.     *)
(***************************************************************************)
EXTENDS Integers, Sequences, FiniteSets, FiniteSetsExt, Walks

CONSTANTS
    ByteMax,    \* one more than the largest byte
    Esc(_, _)   \* u3m_soft_esc(): the scry handler, a noun

ShortMax == ByteMax * ByteMax

(* The hints that the compiler knows, as atoms. *)
Xray == 40
Nara == 41
Hela == 42
Bout == 43
Hunk == 44
Lose == 45
Mean1 == 46
Spot == 47
Live == 48
Slog == 49
Fast == 50
Memo == 51

Dispatched == {Xray, Nara, Hela, Bout}

Traced == {Hunk, Lose, Mean1, Spot}

Below(n, max) == IsAtom(n) /\ n[1] < max

(* A bail while compiling, wherever it happens, is a bail of the whole,    *)
(* and a failed assertion ends the process.                                *)
Exit == << <<"!">> >>

Abort == << <<"!!">> >>

-----------------------------------------------------------------------------
(* Compilation: los says that the subject is to be taken off the stack,    *)
(* tel that the formula is in tail position.                               *)

(* _n_formulaic(): whether a branch of 6 is worth compiling. *)
RECURSIVE Formulaic(_)
Formulaic(fol) ==
    /\ IsCell(fol)
    /\ LET op == fol[1] ar == fol[2]
       IN IF IsCell(op) THEN Formulaic(op) /\ Formulaic(ar)
          ELSE CASE op[1] = 0 -> IsAtom(ar)
                 [] op[1] = 1 -> TRUE
                 [] op[1] \in {3, 4} -> Formulaic(ar)
                 [] op[1] \in {2, 5, 7, 8, 12} ->
                        IsCell(ar) /\ Formulaic(ar[1]) /\ Formulaic(ar[2])
                 [] op[1] = 6 ->
                        /\ IsCell(ar) /\ IsCell(ar[2]) /\ Formulaic(ar[1])
                        /\ Formulaic(ar[2][1]) \/ Formulaic(ar[2][2])
                 [] op[1] = 9 -> IsCell(ar) /\ IsAtom(ar[1]) /\ Formulaic(ar[2])
                 [] op[1] = 10 ->
                        /\ IsCell(ar) /\ IsCell(ar[1]) /\ IsAtom(ar[1][1])
                        /\ Formulaic(ar[1][2]) /\ Formulaic(ar[2])
                 [] op[1] = 11 ->
                        /\ IsCell(ar) /\ Formulaic(ar[2])
                        /\ IsAtom(ar[1]) \/ (IsAtom(ar[1][1]) /\ Formulaic(ar[1][2]))
                 [] OTHER -> FALSE

RECURSIVE Comp(_, _, _)

(* Two formulas over the same subject, then an instruction that finds      *)
(* [second subject first] on the stack.                                    *)
Both(a, b, last) == Comp(a, FALSE, FALSE) \o << <<"SWAP">> >> \o Comp(b, FALSE, FALSE) \o <<last>>

CompFrag(arg, los) ==
    IF IsCell(arg) THEN Exit
    ELSE CASE arg[1] = 0 -> << <<"BAIL">> >>
           [] arg[1] = 1 -> IF los THEN <<>> ELSE << <<"COPY">> >>
           [] arg[1] = 2 -> << <<IF los THEN "HELD" ELSE "HEAD">> >>
           [] arg[1] = 3 -> << <<IF los THEN "TALL" ELSE "TAIL">> >>
           [] OTHER ->
                << <<CASE Below(arg, ByteMax)  -> IF los THEN "FABL" ELSE "FABK"
                       [] Below(arg, ShortMax) /\ ~Below(arg, ByteMax) ->
                            IF los THEN "FASL" ELSE "FASK"
                       [] OTHER -> IF los THEN "FIBL" ELSE "FIBK", arg>> >>

CompLit(arg, los) ==
    CASE arg = <<0>> -> << <<IF los THEN "LIL0" ELSE "LIT0">> >>
      [] arg = <<1>> -> << <<IF los THEN "LIL1" ELSE "LIT1">> >>
      [] OTHER ->
            << <<IF Below(arg, ByteMax) THEN (IF los THEN "LILB" ELSE "LITB")
                 ELSE IF Below(arg, ShortMax) THEN (IF los THEN "LILS" ELSE "LITS")
                 ELSE (IF los THEN "LIBL" ELSE "LIBK"), arg>> >>

(* 5: two literals are compared at once, one is put in the instruction. *)
CompSame(arg, los) ==
    IF IsAtom(arg) \/ IsAtom(arg[1]) \/ IsAtom(arg[2]) THEN Exit
    ELSE LET hec == arg[1][1] = <<1>>
             tec == arg[2][1] = <<1>>
             lit == IF hec THEN arg[1][2] ELSE arg[2][2]
         IN CASE hec /\ tec -> CompLit(IF Sing(arg[1][2], arg[2][2]) THEN <<0>> ELSE <<1>>, los)
              [] ~hec /\ ~tec -> Both(arg[1], arg[2], <<IF los THEN "SALM" ELSE "SAME">>)
              [] OTHER ->
                   Comp(IF hec THEN arg[2] ELSE arg[1], los, FALSE)
                     \o CASE lit = <<0>> -> << <<"SAM0">> >>
                          [] lit = <<1>> -> << <<"SAM1">> >>
                          [] OTHER -> << <<IF Below(lit, ByteMax) THEN "SAMB"
                                           ELSE IF Below(lit, ShortMax) THEN "SAMS"
                                           ELSE "SANB", lit>> >>

(* 6: a branch that is no formula compiles to a bail; a skip counts        *)
(* instructions, and is given bytes by the assembler.                      *)
CompIf(arg, los, tel) ==
    IF IsAtom(arg) \/ IsAtom(arg[2]) THEN Exit
    ELSE LET mid == arg[2][1]
             end == arg[2][2]
             branch(f) == IF Formulaic(f) THEN Comp(f, los, tel) ELSE << <<"BAIL">> >>
             nop == branch(end)
             yep == branch(mid) \o << <<"SBIP", Len(nop)>> >>
         IN IF ~Formulaic(mid) /\ ~Formulaic(end) THEN Exit
            ELSE Comp(arg[1], FALSE, FALSE) \o << <<"SBIN", Len(yep)>> >> \o yep \o nop

(* Variant: every arm goes through a call site. *)
CompKickSite(arg, los, tel) ==
    IF IsAtom(arg) \/ IsCell(arg[1]) THEN Exit
    ELSE Comp(arg[2], tel \/ los, FALSE) \o << <<IF tel THEN "TICB" ELSE "KICB", arg[1]>> >>

(* 9: an arm in the payload is fetched and run by hand.  u3qc_cap() bails  *)
(* on a 0, and measures its argument, which must be an atom.               *)
CompKick(arg, los, tel) ==
    IF IsAtom(arg) THEN Exit
    ELSE IF IsCell(arg[1]) THEN Abort
    ELSE LET axe == arg[1][1]
         IN IF axe = 1 \/ (axe > 1 /\ CapOf(axe) = 3)
            THEN Comp(<< <<7>>, <<arg[2], << <<2>>, << << <<0>>, <<1>> >>,
                        << <<0>>, <<axe>> >> >> >> >> >>, los, tel)
            ELSE IF axe = 0 THEN Exit
            ELSE Comp(arg[2], tel \/ los, FALSE)
                   \o << <<IF tel THEN "TICB" ELSE "KICB", <<axe>> >> >>

CompEdit(arg, los) ==
    IF IsAtom(arg) \/ IsAtom(arg[1]) THEN Exit
    ELSE LET axe == arg[1][1]
         IN Both(arg[2], arg[1][2],
                 CASE axe = <<2>> -> <<IF los THEN "MUTH" ELSE "KUTH">>
                   [] axe = <<3>> -> <<IF los THEN "MUTT" ELSE "KUTT">>
                   [] axe = <<6>> -> <<IF los THEN "MUSM" ELSE "KUSM">>
                   [] OTHER -> <<IF Below(axe, ByteMax) THEN (IF los THEN "MUTB" ELSE "KUTB")
                                 ELSE IF Below(axe, ShortMax) THEN (IF los THEN "MUTS" ELSE "KUTS")
                                 ELSE (IF los THEN "MITB" ELSE "KITB"), axe>>)

(* The frame of a dispatched hint: fore may ask to skip the formula, and   *)
(* what follows it puts the stack right in that case.                      *)
Dispatch(fore, nef, los, hind) ==
    LET fen == Comp(nef, los, FALSE) \o << <<hind>>, <<"SBIP", 1>> >>
    IN <<fore, <<"SBIN", Len(fen)>> >> \o fen \o << <<IF los THEN "TOSS" ELSE "SWAP">> >>

(* _n_bint() *)
CompHint(hif, nef, los, tel) ==
    IF IsAtom(hif)
    THEN IF hif[1] \in Dispatched
         THEN Dispatch(<<"HILB", <<hif, nef>> >>, nef, los, IF los THEN "HILL" ELSE "HILK")
         ELSE Comp(nef, los, tel)
    ELSE LET zep == IF IsAtom(hif[1]) THEN hif[1][1] ELSE 0
             hod == Comp(hif[2], FALSE, FALSE)
         IN CASE zep \in Dispatched ->
                   hod \o Dispatch(<<"HINB", <<hif[1], nef>> >>, nef, los,
                                   IF los THEN "HINL" ELSE "HINK")
              [] zep \in Traced ->
                   hod \o << <<"BUSH", hif[1]>> >> \o Comp(nef, los, FALSE) \o << <<"DROP">> >>
              [] zep = Live -> hod \o << <<"HECK">> >> \o Comp(nef, los, tel)
              [] zep = Slog -> hod \o << <<"SLOG">> >> \o Comp(nef, los, tel)
              [] zep = Fast -> Both(hif[2], nef, <<IF los THEN "BALT" ELSE "BAST">>)
              [] zep = Memo ->
                   LET mem == Comp(nef, TRUE, FALSE) \o << <<"SAVE">> >>
                   IN hod \o << <<"TOSS">> >>
                        \o << <<IF los THEN "SLIB" ELSE "SKIB", Len(mem), nef>> >> \o mem
              [] OTHER -> hod \o << <<"TOSS">> >> \o Comp(nef, los, tel)

Comp(fol, los, tel) ==
    IF IsAtom(fol) THEN Exit
    ELSE LET cod == fol[1]
             arg == fol[2]
             two(Op(_, _)) == IF IsAtom(arg) THEN Exit ELSE Op(arg[1], arg[2])
         IN IF IsCell(cod) THEN Both(cod, arg, <<IF los THEN "AULT" ELSE "AUTO">>)
            ELSE CASE cod[1] = 0 -> CompFrag(arg, los)
                   [] cod[1] = 1 -> CompLit(arg, los)
                   [] cod[1] = 2 ->
                        two(LAMBDA a, b : Both(a, b, <<IF tel THEN "NOCT"
                                                       ELSE IF los THEN "NOLK" ELSE "NOCK">>))
                   [] cod[1] = 3 -> Comp(arg, los, FALSE) \o << <<"DEEP">> >>
                   [] cod[1] = 4 -> Comp(arg, los, FALSE) \o << <<"BUMP">> >>
                   [] cod[1] = 5 -> CompSame(arg, los)
                   [] cod[1] = 6 -> CompIf(arg, los, tel)
                   [] cod[1] = 7 ->
                        two(LAMBDA a, b : Comp(a, los, FALSE) \o Comp(b, TRUE, tel))
                   [] cod[1] = 8 ->
                        two(LAMBDA a, b : Comp(a, FALSE, FALSE)
                                \o << <<IF los THEN "SNOL" ELSE "SNOC">> >> \o Comp(b, TRUE, tel))
                   [] cod[1] = 9 -> CompKick(arg, los, tel)
                   [] cod[1] = 10 -> CompEdit(arg, los)
                   [] cod[1] = 11 -> two(LAMBDA a, b : CompHint(a, b, los, tel))
                   [] cod[1] = 12 ->
                        two(LAMBDA a, b : Both(a, b, <<IF los THEN "WILS" ELSE "WISH">>))
                   [] OTHER -> Exit

=============================================================================
