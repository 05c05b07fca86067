--------------------------------- MODULE Fsck ---------------------------------
(***************************************************************************)
(* The checker xv6_fsck (Project5-1/xv6_fsck.c) on an image of inodes and  *)
(* directories: what it counts in one pass over the inode table, and what  *)
(* it complains of.  It stops at the first complaint; here is the set of   *)
(* all it could come to but one, the walk to the root, which is FsckWalk.  *)
(* Left out: the rules about block addresses and the bitmap, and types     *)
(* that are none.  A directory is one block, or has none yet.              *)
(***************************************************************************)
EXTENDS Integers, FiniteSets

CONSTANTS Inodes, ROOTINO

VARIABLES type, nlink,
          dirent     \* the entries in use of each inode: [name, inum]

NoParent == 0
Dots == {".", ".."}

inodeinuse == {i \in Inodes : type[i] # "free"}
dirarr == {i \in Inodes : type[i] = "dir"}

(* The entries for inode i in all directories, as <<directory, entry>>:    *)
(* inoderefer[] counts "." and "..", dirreference[] does not.              *)
Entries(i) == UNION {{d} \X {e \in dirent[d] : e.inum = i} : d \in dirarr}
inoderefer(i) == Cardinality(Entries(i))
childentry(d) == {e.inum : e \in {e \in dirent[d] : e.name \notin Dots}} \cap dirarr
dirreference(i) == Cardinality({de \in Entries(i) : de[2].name \notin Dots})

(* The inode of "..", as far as there is one. *)
parentinum(d) ==
  IF d \in dirarr /\ \E e \in dirent[d] : e.name = ".."
  THEN (CHOOSE e \in dirent[d] : e.name = "..").inum ELSE NoParent

RootMissing ==
  ROOTINO \notin dirarr
    \/ \E e \in dirent[ROOTINO] : e.name = ".." /\ e.inum # ROOTINO

(* The test is made block by block: a directory without a block passes.    *)
BadFormat ==
  \E d \in dirarr :
    /\ dirent[d] # {}
    /\ \/ ~ \E e \in dirent[d] : e.name = ".."
       \/ ~ \E e \in dirent[d] : e.name = "." /\ e.inum = d

NotFound == \E i \in inodeinuse : inoderefer(i) < 1
MarkedFree == \E i \in Inodes \ inodeinuse : inoderefer(i) # 0
BadCount_Few == \E i \in Inodes : type[i] = "file" /\ nlink[i] < inoderefer(i)
BadCount == \E i \in Inodes : type[i] = "file" /\ nlink[i] # inoderefer(i)
MoreThanOnce == \E d \in dirarr : dirreference(d) # (IF d = ROOTINO THEN 0 ELSE 1)
Mismatch == \E d \in dirarr : \E c \in childentry(d) : parentinum(c) # d

RuleBroken ==
  \/ RootMissing \/ BadFormat \/ NotFound \/ MarkedFree \/ BadCount
  \/ MoreThanOnce \/ Mismatch
=============================================================================
