-------------------------------- MODULE Noun --------------------------------
(***************************************************************************)
(* Nouns: an atom is <<n>> and a cell <<head, tail>>, compared by the walk *)
(* of _cr_sing() in pkg/noun/retrieve.c.  The modules that extend this one *)
(* hold the walks to axes, the treaps, the lists and the interpreter.      *)
(* Reference counts are left to module Loom.                               *)
(***************************************************************************)
EXTENDS Integers, Sequences, FiniteSets

Bail == <<>>

IsAtom(n) == Len(n) = 1

IsCell(n) == Len(n) = 2

Head1(n) == n[1]

Tail1(n) == n[2]

(* _cr_sing(): a stack of pairs still to be compared; the first pair that  *)
(* differs in kind or in atom ends the walk.  The stack is u3a_peek's, and *)
(* a cell's head is compared before its tail.                              *)
RECURSIVE SingStack(_)
SingStack(todo) ==
    IF todo = <<>> THEN TRUE
    ELSE LET a == todo[1][1]
             b == todo[1][2]
         IN CASE IsAtom(a) /\ IsAtom(b) -> a[1] = b[1] /\ SingStack(Tail(todo))
              [] IsCell(a) /\ IsCell(b) ->
                    SingStack(<< <<a[1], b[1]>>, <<a[2], b[2]>> >> \o Tail(todo))
              [] OTHER -> FALSE

Sing(a, b) == SingStack(<< <<a, b>> >>)

=============================================================================
