-------------------------- MODULE CheckedFileSystem --------------------------
(***************************************************************************)
(* The file system of FileSystem, and the rules of Fsck that its disk is   *)
(* held against: what a machine that stopped left, in whatever state.      *)
(***************************************************************************)
EXTENDS FileSystem

(* No call enters a dot: create() and link() find that name taken.         *)
NoDotNames == Names \cap {".", ".."} = {}

ASSUME NoDotNames

(* The entries of directory i, the first two of which are its dots.        *)
Dirents(i) ==
  {[name |-> n, inum |-> entry[i][n]] : n \in {n \in Names : entry[i][n] # None}}
  \cup {[name |-> IF k = 1 THEN "." ELSE "..", inum |-> dots[i][k]] : k \in DOMAIN dots[i]}

Rules == INSTANCE Fsck WITH dirent <- [i \in Inodes |-> Dirents(i)]

(* A sound tree: each inode has a name, a file as many as it has links, a  *)
(* directory just one, and dots that stand for itself and its parent.      *)
Sound ==
  \A i \in Inodes \ {ROOTINO} :
    /\ type[i] # "free" <=> Links(i) # {}
    /\ type[i] = "file" => nlink[i] = Cardinality(Links(i))
    /\ type[i] = "dir" => \E d \in Inodes : \E n \in Names :
         Links(i) = {<<d, n>>} /\ dots[i] = <<i, d>>

(* A rule of the checker other than the walk is broken just in the images  *)
(* that are not sound, among all that a crash can leave.                   *)
RulesExact == Rules!RuleBroken <=> ~Sound

(* What calls leave behind without a crash is sound, but for open files    *)
(* without a name and strays.                                              *)
LeftSound ==
  /\ Quiet /\ strays \cup damaged = {}
  /\ \A p \in Procs : file[p] # None => Links(file[p]) # {}
  => Sound
==============================================================================
