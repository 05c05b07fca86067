--------------------------- MODULE WalkedFileSystem ---------------------------
(***************************************************************************)
(* The whole of the checker on the disks of FileSystem: the rules of       *)
(* CheckedFileSystem and the walk up to the root.                          *)
(***************************************************************************)
EXTENDS CheckedFileSystem

Checker == INSTANCE FsckWalk WITH dirent <- [i \in Inodes |-> Dirents(i)]

(* A directory in a directory in a directory: the walk of the checker may  *)
(* meet the marks of an earlier one there.                                 *)
Deep == \E c, d \in Inodes : dots[c] = <<c, d>> /\ d # ROOTINO /\ dots[d] # <<d, ROOTINO>>

(* The checker complains just of the images that are not sound, among all  *)
(* that a crash can leave, deep trees apart; its rules do so in any tree;  *)
(* and what calls leave behind without a crash is sound.                   *)
CheckerExact ==
  /\ ~Deep => (Checker!Complains <=> ~Sound)
  /\ RulesExact
  /\ LeftSound
===============================================================================
