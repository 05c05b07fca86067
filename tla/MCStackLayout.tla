---------------------------- MODULE MCStackLayout ----------------------------
(***************************************************************************)
(* An instance of StackLayout for TLC.  The processes are interchangeable. *)
(***************************************************************************)
EXTENDS StackLayout, TLC

CONSTANTS p1, p2

MCProcs == {p1, p2}
Symmetry == Permutations(MCProcs)

(* A program of one page and a part, and one of a whole page. *)
MCImages == {4, 6}

(* A word, a page and a part, more than user memory, the largest int, and  *)
(* the same downwards with the smallest int.                               *)
MCIncrements == {-128, -49, -10, -6, -1, 0, 2, 5, 49, 127}
=============================================================================
