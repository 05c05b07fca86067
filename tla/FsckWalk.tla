------------------------------- MODULE FsckWalk -------------------------------
(***************************************************************************)
(* The last rule of the checker xv6_fsck, that directories trace back to   *)
(* the root, as it tests it, and all its complaints together.              *)
(***************************************************************************)
EXTENDS Fsck, FiniteSetsExt, SequencesExt

(* The walk up from each directory marks what it passes; it ends below the *)
(* root, and complains when it comes to a mark, be it an earlier walk's.   *)
RECURSIVE Up(_, _)
Up(d, loopdetect) ==
  IF parentinum(d) = ROOTINO THEN [seen |-> loopdetect, bad |-> FALSE]
  ELSE IF d \in loopdetect THEN [seen |-> loopdetect, bad |-> TRUE]
  ELSE Up(parentinum(d), loopdetect \cup {d})

Inaccessible ==
  LET Walk(w, d) == IF w.bad \/ d \in w.seen THEN w ELSE Up(d, w.seen)
  IN FoldLeft(Walk, [seen |-> {}, bad |-> FALSE],
              SetToSortSeq(dirarr, LAMBDA x, y : x < y)).bad

Complains == RuleBroken \/ Inaccessible
===============================================================================
