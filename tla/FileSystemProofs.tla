--------------------------- MODULE FileSystemProofs ---------------------------
(***************************************************************************)
(* The invariants of FileSystem, for any number of processes, inodes,      *)
(* names, calls and crashes: no panic and exact reference counts, a disk   *)
(* that every crash leaves safe, nothing lost when no call runs, and the   *)
(* rules of xv6_fsck broken just by the disks that are not sound.          *)
(*                                                                         *)
(* The proof counts.  Holds(l, f, i) is how many references to inode i a   *)
(* process in state l with file f still has to put, Claims(l, i) how many  *)
(* locks of it it has, Count(i) how many links inode i should have: its    *)
(* names, its subdirectories, and the links that a call has counted and    *)
(* not yet entered, or cleared and not yet counted down.  The inductive    *)
(* invariant Inv says that ref, busy and nlink are those counts, and what  *)
(* an inode is while only one process knows of it.  Good(p) is what a step *)
(* of p has to obey to preserve Inv; there is one lemma per action that it *)
(* does.                                                                   *)
(***************************************************************************)
EXTENDS CheckedFileSystem, SequenceTheorems, FiniteSetTheorems, TLAPS

(* What loc holds of a process. *)
Locs == [pc : PCs, call : CallNames, rest : Seq(Names), new : Seq(Names),
         cur : Inodes \cup {None}, dp : Inodes \cup {None}, ip : Inodes \cup {None},
         rel : Seq(Releases)]

(* The program counters: inside namex(), with an inode that create() sets *)
(* up, with dp locked, with ip locked, with an ip at all, and those that  *)
(* may still have something to release.                                   *)
WalkPcs == {"walk", "walked", "nowhere", "got"}
NewPcs == {"c_lock", "c_init", "c_dots", "c_dot", "c_dotdot", "c_link"}
DpLocked == NewPcs \cup {"create", "link_dir", "unlink", "u_lock", "u_check", "u_parent"}
IpLocked == (NewPcs \ {"c_lock"}) \cup
            {"found_locked", "opened", "link", "bad_locked", "u_check", "u_parent", "u_child"}
IpPcs == IpLocked \cup {"c_lock", "found", "link_dir", "bad", "u_lock"}

RelPcs == {"idle", "walk", "nowhere", "got", "found", "opened", "bad", "u_child"}

(* The counts the proof adds up: how many references to inode i, and how  *)
(* many locks of it, are at one of the four places of a list of releases. *)
One(b) == IF b THEN 1 ELSE 0
Has(r, k, D, i) == One(k <= Len(r) /\ r[k].do \in D /\ r[k].ino = i)
Count4(r, D, i) == Has(r, 1, D, i) + Has(r, 2, D, i) + Has(r, 3, D, i) + Has(r, 4, D, i)
Last == {"trunc", "free", "done"}
Puts(r, i) == Count4(r, Last \cup {"put"}, i)
Locks(r, i) == Count4(r, Last \cup {"unlock"}, i)

(* The references to i that a process in state l, with the file f, has to *)
(* put, and the locks of i that it has.                                   *)
Holds(l, f, i) ==
  One(l.cur = i) + One(l.dp = i) + One(l.ip = i) + One(f = i) + Puts(l.rel, i)
Claims(l, i) ==
  One(l.pc = "walked" /\ l.cur = i) + One(l.pc \in DpLocked /\ l.dp = i)
  + One(l.pc \in IpLocked /\ l.ip = i) + Locks(l.rel, i)
(* The release at the head of the list is one of D, of inode i. *)
HeadIs(l, D, i) == l.rel # <<>> /\ l.rel[1].do \in D /\ l.rel[1].ino = i

(* namex() stops at the parent directory. *)
Wants(l) == l.call \in {"create", "mkdir", "unlink"} \/ l.ip # None

(* A list of releases as the code makes them: the steps of a last iput()  *)
(* only at its head, and an iunlock() followed by the iput() of the same  *)
(* inode, but for the one iunlock() that leaves the reference to somebody *)
(* else.                                                                  *)
Tidy(r) ==
  /\ Len(r) <= 4
  /\ \A k \in 1..Len(r) : /\ r[k].do \in Last => k = 1
                          /\ r[k].do = "unlock" /\ Len(r) # 1 =>
                               k < Len(r) /\ r[k+1] = [do |-> "put", ino |-> r[k].ino]

(* What a process holds goes with where it is. *)
WellFormed(l, f) ==
  /\ l.cur # None <=> l.pc \in {"walk", "walked", "got"}
  /\ l.dp # None <=> l.pc \in DpLocked
  /\ l.pc \in IpPcs => l.ip # None
  /\ l.ip # None => l.pc \in IpPcs \/ (l.pc \in WalkPcs /\ l.call = "link")
  /\ l.pc \in NewPcs \cup {"create", "found", "found_locked"} => l.call \in {"create", "mkdir"}
  /\ l.pc \in {"c_dots", "c_dot", "c_dotdot"} => l.call = "mkdir"
  /\ l.pc \in {"link", "link_dir", "bad", "bad_locked"} => l.call = "link"
  /\ l.pc \in {"walk", "walked"} => Len(l.rest) >= 1
  /\ l.pc \in DpLocked \/ (l.pc = "got" /\ Wants(l)) => Len(l.rest) = 1
  /\ l.call = "link" => Len(l.new) >= 1
  /\ l.rel # <<>> => l.pc \in RelPcs
  /\ Tidy(l.rel)
  /\ Len(l.rel) = 1 /\ l.rel[1].do = "unlock" => Holds(l, f, l.rel[1].ino) >= 1

(* The locks are the claims of the processes, and ref counts what is held. *)
WFInv == \A p \in Procs : WellFormed(loc[p], file[p])

LockInv ==
  \A p \in Procs, i \in Inodes : Claims(loc[p], i) = One(busy[i] = p)

RefInv == \A i \in Inodes : ref[i] = Held(i)

(* Nobody holds a reference to a free inode, but for the process that has *)
(* just freed it.                                                         *)
NonFree ==
  \A p \in Procs, i \in Inodes :
    Holds(loc[p], file[p], i) >= 1 /\ type[i] = "free" => HeadIs(loc[p], {"done"}, i)

(* A directory has an entry for i. *)
Named(i) == \E d \in Inodes, n \in Names : entry[d][n] = i

(* An inode that only one process knows: it is being freed or set up.  The *)
(* one exception is an inode freed, and taken again by ialloc() before its *)
(* old reference is gone.                                                  *)
Private(l, i) == HeadIs(l, Last, i) \/ (l.pc \in NewPcs /\ l.ip = i)
Pair(p, q, i) == HeadIs(loc[p], {"done"}, i) /\ loc[q].pc = "c_lock" /\ loc[q].ip = i
PrivateInv ==
  \A p \in Procs, i \in Inodes :
    Private(loc[p], i) =>
      /\ Holds(loc[p], file[p], i) = 1 /\ i # ROOTINO /\ ~Named(i)
      /\ \A q \in Procs \ {p} : Holds(loc[q], file[q], i) >= 1 => Pair(p, q, i) \/ Pair(q, p, i)
      /\ HeadIs(loc[p], {"trunc", "free"}, i) \/ (loc[p].pc \in {"c_lock", "c_init"} /\ loc[p].ip = i) => nlink[i] = 0
      /\ HeadIs(loc[p], {"free"}, i) \/ loc[p].ip = i => entry[i] = NoEntries

(* If the inode a process has just freed is in use again, somebody is about *)
(* to lock it.                                                              *)
DoneInv ==
  \A p \in Procs, i \in Inodes :
    HeadIs(loc[p], {"done"}, i) /\ type[i] # "free" => \E q \in Procs : Pair(p, q, i)

(* The directories on the disk: names stand for inodes in use. *)
NamesInv ==
  /\ type[ROOTINO] = "dir"
  /\ \A d \in Inodes, n \in Names : entry[d][n] # None =>
       type[d] = "dir" /\ type[entry[d][n]] # "free" /\ entry[d][n] # ROOTINO
  /\ \A i \in Inodes : type[i] = "free" => nlink[i] = 0

(* The inodes in hand are of the type the call has checked, and the *)
(* directory under the lock still says what was looked up in it.    *)
Kind(l) ==
  /\ l.dp # None => type[l.dp] = "dir"
  /\ l.pc = "got" /\ Wants(l) => type[l.cur] = "dir"
  /\ l.pc \in NewPcs => type[l.ip] = IF l.call = "mkdir" THEN "dir" ELSE "file"
  /\ l.pc \in WalkPcs \cup {"link_dir", "bad", "bad_locked"} /\ l.ip # None => type[l.ip] = "file"
Look(l) ==
  /\ l.pc \in NewPcs => entry[l.dp][l.rest[1]] = None
  /\ l.pc \in {"u_lock", "u_check"} => entry[l.dp][l.rest[1]] = l.ip
KindInv == \A p \in Procs : Kind(loc[p]) /\ Look(loc[p])

(* Links counted that have no name yet, or whose name is gone already. *)
PendIp(l, i) ==
  l.ip = i /\ l.pc \in (NewPcs \ {"c_lock", "c_init"}) \cup WalkPcs \cup
                       {"link_dir", "bad", "bad_locked", "u_parent", "u_child"}
PendDp(l, i) ==
  l.dp = i /\ \/ l.pc \in {"c_dot", "c_dotdot"}
              \/ l.pc = "c_link" /\ l.call = "mkdir"
              \/ l.pc = "u_parent" /\ type[l.ip] = "dir"

Pending(i) == Cardinality({p \in Procs : PendIp(loc[p], i)})
PendingDp(i) == Cardinality({p \in Procs : PendDp(loc[p], i)})
(* How many links inode i should have, and that it has at least those, and *)
(* exactly those but for the damage of a crash.                            *)
Count(i) == Cardinality(Links(i)) + Cardinality(Subdirs(i)) + Pending(i) + PendingDp(i) + One(i = ROOTINO)
CountInv == \A i \in Inodes :
  /\ nlink[i] >= Count(i)
  /\ i \notin strays \cup damaged => nlink[i] = Count(i)
(* A directory has one name; what a removed directory took in is a stray; *)
(* an inode without links is cached and about to be freed.                *)
DirOnce == \A i \in Inodes : type[i] = "dir" => Cardinality(Links(i)) + Pending(i) <= 1
StraysInv == \A d \in Inodes, n \in Names :
   entry[d][n] # None /\ d # ROOTINO /\ ~Named(d) => d \in strays /\ entry[d][n] \in strays
Doomed == \A i \in Inodes : type[i] # "free" /\ nlink[i] = 0 /\ i \notin damaged =>
    ref[i] >= 1 /\ (valid[i] \/ \E p \in Procs : loc[p].pc = "c_lock" /\ loc[p].ip = i)
ValidInv == \A i \in Inodes : busy[i] # Nobody => valid[i]
-----------------------------------------------------------------------------
(* What is assumed of the constants. *)
LEMMA Constants ==
  /\ NINODES \in Nat /\ NINODES > 0 /\ MaxCrashes \in Nat
  /\ IsFiniteSet(Procs) /\ Nobody \notin Procs /\ IsFiniteSet(Names)
  /\ ROOTINO \in Inodes /\ None \notin Inodes
BY FileSystemAssumption DEF FileSystemAssumption, Inodes, ROOTINO, None

(* (What is counted is a number.) *)
LEMMA OneType == \A b : One(b) \in {0, 1} /\ (One(b) = 1 <=> b)
BY DEF One

(* (What is counted is a number.) *)
LEMMA CountType == \A r, D, i : Count4(r, D, i) \in Nat
<1> SUFFICES ASSUME NEW r, NEW D, NEW i PROVE Count4(r, D, i) \in Nat
  OBVIOUS
<1>1. \A k : Has(r, k, D, i) \in Nat
  BY DEF Has, One
<1> QED BY <1>1 DEF Count4

(* (What is counted is a number.) *)
LEMMA Few == \A n \in Nat : n # 0 /\ n <= 4 => n \in 1..4
  OBVIOUS

(* What the lists of releases that the code makes put and unlock. *)
LEMMA RelEmpty ==
  /\ <<>> \in Seq(Releases) /\ Len(<<>>) = 0 /\ Tidy(<<>>)
  /\ \A i : Puts(<<>>, i) = 0 /\ Locks(<<>>, i) = 0
BY DEF Puts, Locks, Count4, Has, One, Tidy

(* iunlock() *)
LEMMA RelUnlock ==
  ASSUME NEW j \in Inodes
  PROVE  /\ unlock(j) \in Seq(Releases) /\ Len(unlock(j)) = 1 /\ Tidy(unlock(j))
         /\ unlock(j) # <<>> /\ unlock(j)[1] = [do |-> "unlock", ino |-> j]
         /\ \A i : Puts(unlock(j), i) = 0 /\ Locks(unlock(j), i) = One(j = i)
<1>1. /\ unlock(j) \in Seq(Releases) /\ Len(unlock(j)) = 1
      /\ unlock(j)[1] = [do |-> "unlock", ino |-> j]
  BY DEF unlock, Releases
<1> DEFINE r == unlock(j)
<1> HIDE DEF r
<1>2. Tidy(r) /\ r # <<>>
  <2>1. Len(r) = 1 /\ r[1].do = "unlock" /\ "unlock" \notin Last
    BY <1>1 DEF r, Last
  <2>2. \A k \in 1..Len(r) : k = 1
    BY <2>1
  <2>3. r # <<>>
    BY <2>1, EmptySeq
  <2> QED BY <2>1, <2>2, <2>3 DEF Tidy
<1>3. \A i : Puts(r, i) = 0 /\ Locks(r, i) = One(j = i)
  BY <1>1 DEF r, Puts, Locks, Count4, Has, One, Last
<1> QED BY <1>1, <1>2, <1>3 DEF r

(* iput() *)
LEMMA RelPut ==
  ASSUME NEW j \in Inodes
  PROVE  /\ put(j) \in Seq(Releases) /\ Len(put(j)) = 1 /\ Tidy(put(j))
         /\ put(j) # <<>> /\ put(j)[1] = [do |-> "put", ino |-> j]
         /\ \A i : Puts(put(j), i) = One(j = i) /\ Locks(put(j), i) = 0
<1>1. /\ put(j) \in Seq(Releases) /\ Len(put(j)) = 1
      /\ put(j)[1] = [do |-> "put", ino |-> j]
  BY DEF put, Releases
<1> QED BY <1>1 DEF Puts, Locks, Count4, Has, One, Tidy, Last

(* iunlockput() *)
LEMMA RelUnlockput ==
  ASSUME NEW j \in Inodes
  PROVE  /\ unlockput(j) \in Seq(Releases) /\ Len(unlockput(j)) = 2 /\ Tidy(unlockput(j))
         /\ unlockput(j) # <<>>
         /\ unlockput(j)[1] = [do |-> "unlock", ino |-> j]
         /\ unlockput(j)[2] = [do |-> "put", ino |-> j]
         /\ \A i : Puts(unlockput(j), i) = One(j = i) /\ Locks(unlockput(j), i) = One(j = i)
<1>1. /\ unlockput(j) \in Seq(Releases) /\ Len(unlockput(j)) = 2
      /\ unlockput(j)[1] = [do |-> "unlock", ino |-> j]
      /\ unlockput(j)[2] = [do |-> "put", ino |-> j]
  <2>1. unlock(j) \in Seq(Releases) /\ Len(unlock(j)) = 1 /\ unlock(j)[1] = [do |-> "unlock", ino |-> j]
    BY RelUnlock
  <2>2. put(j) \in Seq(Releases) /\ Len(put(j)) = 1 /\ put(j)[1] = [do |-> "put", ino |-> j]
    BY RelPut
  <2>3. PICK u, v \in Seq(Releases) : u = unlock(j) /\ v = put(j)
    BY <2>1, <2>2
  <2>4. /\ u \o v \in Seq(Releases) /\ Len(u \o v) = Len(u) + Len(v)
        /\ \A k \in 1..Len(u)+Len(v) : (u \o v)[k] = IF k <= Len(u) THEN u[k] ELSE v[k - Len(u)]
    BY ConcatProperties
  <2> DEFINE w == u \o v
  <2> HIDE DEF w
  <2>7. Len(u) = 1 /\ Len(v) = 1
    BY <2>1, <2>2, <2>3
  <2>8. /\ w \in Seq(Releases) /\ Len(w) = 2
        /\ \A k \in 1..2 : w[k] = IF k <= 1 THEN u[k] ELSE v[k - 1]
    BY <2>4, <2>7 DEF w
  <2>5. w \in Seq(Releases) /\ Len(w) = 2 /\ w[1] = u[1] /\ w[2] = v[1]
    BY <2>8
  <2>6. unlockput(j) = u \o v
    BY <2>3 DEF unlockput
  <2> QED BY <2>1, <2>2, <2>3, <2>5, <2>6 DEF w
<1> QED BY <1>1 DEF Puts, Locks, Count4, Has, One, Tidy, Last

(* Two after each other *)
LEMMA RelBoth ==
  ASSUME NEW r \in Seq(Releases), NEW s \in Seq(Releases), Tidy(r), Tidy(s),
         Len(r) + Len(s) <= 4, Len(r) # 0, Len(s) # 0,
         Len(r) = 1 => r[1].do = "put",
         s[1].do \notin Last, Len(s) = 1 => s[1].do = "put"
  PROVE  /\ r \o s \in Seq(Releases) /\ Len(r \o s) = Len(r) + Len(s) /\ Tidy(r \o s)
         /\ r \o s # <<>> /\ (r \o s)[1] = r[1]
         /\ \A i : /\ Puts(r \o s, i) = Puts(r, i) + Puts(s, i)
                   /\ Locks(r \o s, i) = Locks(r, i) + Locks(s, i)
<1> DEFINE t == r \o s
<1>1. t \in Seq(Releases) /\ Len(t) = Len(r) + Len(s)
      /\ \A k \in 1..Len(t) : t[k] = IF k <= Len(r) THEN r[k] ELSE s[k - Len(r)]
  BY ConcatProperties
<1>2. Len(r) \in 1..3 /\ Len(s) \in 1..3 /\ Len(r) + Len(s) <= 4
  <2>1. Len(r) \in Nat /\ Len(s) \in Nat /\ Len(r) # 0 /\ Len(s) # 0 /\ Len(r) + Len(s) <= 4
    BY LenProperties
  <2>2. PICK a, b \in Nat : a = Len(r) /\ b = Len(s)
    BY <2>1
  <2>3. a \in 1..3 /\ b \in 1..3
    BY <2>1, <2>2
  <2> QED BY <2>1, <2>2, <2>3
<1> HIDE DEF t
<1>3. Tidy(t)
  <2>1. Len(t) <= 4 /\ Len(t) # 1
    BY <1>1, <1>2
  <2>2. ASSUME NEW k \in 1..Len(t), k <= Len(r)
        PROVE  /\ t[k].do \in Last => k = 1
               /\ t[k].do = "unlock" =>
                    k < Len(t) /\ t[k+1] = [do |-> "put", ino |-> t[k].ino]
    <3>1. k \in 1..Len(r) /\ t[k] = r[k]
      BY <1>1, <1>2, <2>2
    <3>4. Len(r) = 1 => k = 1
      BY <3>1
    <3>5. r[k].do = "unlock" => Len(r) # 1
      BY <3>4
    <3>2. r[k].do = "unlock" => Len(r) # 1 /\ k < Len(r)
      BY <3>1, <3>5 DEF Tidy
    <3>3. k < Len(r) => t[k+1] = r[k+1] /\ k < Len(t)
      BY <1>1, <1>2, <3>1
    <3> QED BY <3>1, <3>2, <3>3 DEF Tidy
  <2>3. ASSUME NEW k \in 1..Len(t), k > Len(r)
        PROVE  /\ t[k].do \notin Last
               /\ t[k].do = "unlock" =>
                    k < Len(t) /\ t[k+1] = [do |-> "put", ino |-> t[k].ino]
    <3>1. PICK m \in 1..Len(s) : m = k - Len(r)
      BY <1>1, <1>2, <2>3
    <3>2. t[k] = s[m] /\ (m < Len(s) => t[k+1] = s[m+1] /\ k < Len(t))
      BY <1>1, <1>2, <2>3, <3>1
    <3>3. s[m].do \notin Last
      BY <1>2 DEF Tidy
    <3>5. Len(s) = 1 => m = 1
      BY <3>1
    <3>6. s[m].do = "unlock" => Len(s) # 1
      BY <3>5
    <3>4. s[m].do = "unlock" => Len(s) # 1 /\ m < Len(s)
      BY <3>1, <3>6 DEF Tidy
    <3> QED BY <3>2, <3>3, <3>4 DEF Tidy
  <2> QED BY <1>1, <1>2, <2>1, <2>2, <2>3 DEF Tidy
<1>4. \A D, i : Count4(t, D, i) = Count4(r, D, i) + Count4(s, D, i)
  <2> SUFFICES ASSUME NEW D, NEW i PROVE Count4(t, D, i) = Count4(r, D, i) + Count4(s, D, i)
    OBVIOUS
  <2>1. CASE Len(r) = 1
    BY <1>1, <1>2, <2>1 DEF Count4, Has, One
  <2>2. CASE Len(r) = 2
    BY <1>1, <1>2, <2>2 DEF Count4, Has, One
  <2>3. CASE Len(r) = 3
    BY <1>1, <1>2, <2>3 DEF Count4, Has, One
  <2> QED BY <1>2, <2>1, <2>2, <2>3
<1> QED BY <1>1, <1>2, <1>3, <1>4 DEF t, Puts, Locks

(* What remains after the first *)
LEMMA RelTail ==
  ASSUME NEW r \in Seq(Releases), Tidy(r), r # <<>>
  PROVE  /\ Head(r) = r[1] /\ r[1] \in Releases
         /\ Tail(r) \in Seq(Releases) /\ Len(Tail(r)) = Len(r) - 1 /\ Len(r) \in 1..4
         /\ Tidy(Tail(r))
         /\ \A k \in 1..Len(Tail(r)) : Tail(r)[k] = r[k+1] /\ Tail(r)[k].do \notin Last
         /\ \A i : /\ Puts(r, i) = One(r[1].do # "unlock" /\ r[1].ino = i) + Puts(Tail(r), i)
                   /\ Locks(r, i) = One(r[1].do # "put" /\ r[1].ino = i) + Locks(Tail(r), i)
<1> DEFINE t == Tail(r)
<1>1. /\ Head(r) = r[1] /\ t \in Seq(Releases) /\ Len(t) = Len(r) - 1 /\ Len(r) \in 1..4
      /\ \A k \in 1..Len(t) : t[k] = r[k+1]
  <2>1. /\ Head(r) = r[1] /\ t \in Seq(Releases) /\ Len(t) = Len(r) - 1
        /\ \A k \in 1..Len(t) : t[k] = r[k+1]
    BY HeadTailProperties
  <2>2. Len(r) \in 1..4
    <3>2. Len(r) <= 4
      BY DEF Tidy
    <3>3. Len(r) \in Nat
      BY LenProperties
    <3>4. Len(r) # 0
      BY EmptySeq
    <3>1. Len(r) \in Nat /\ Len(r) # 0 /\ Len(r) <= 4
      BY <3>2, <3>3, <3>4
    <3> QED BY <3>1, Few
  <2> QED BY <2>1, <2>2
<1>2. r[1] \in Releases /\ r[1].do \in {"unlock", "put", "trunc", "free", "done"}
  <2>1. r[1] \in Releases
    BY <1>1, ElementOfSeq
  <2> QED BY <2>1 DEF Releases
<1> HIDE DEF t
<1>3. \A k \in 1..Len(t) : t[k].do \notin Last
  <2> SUFFICES ASSUME NEW k \in 1..Len(t) PROVE t[k].do \notin Last
    OBVIOUS
  <2>1. k + 1 \in 1..Len(r) /\ k + 1 # 1 /\ t[k] = r[k+1]
    BY <1>1
  <2> QED BY <2>1 DEF Tidy
<1>4. Tidy(t)
  BY <1>1, <1>3 DEF Tidy
<1>5. \A D, i : Count4(r, D, i) = One(r[1].do \in D /\ r[1].ino = i) + Count4(t, D, i)
  <2> SUFFICES ASSUME NEW D, NEW i
               PROVE  Count4(r, D, i) = One(r[1].do \in D /\ r[1].ino = i) + Count4(t, D, i)
    OBVIOUS
  <2>1. /\ Has(r, 1, D, i) = One(r[1].do \in D /\ r[1].ino = i)
        /\ Has(r, 2, D, i) = Has(t, 1, D, i) /\ Has(r, 3, D, i) = Has(t, 2, D, i)
        /\ Has(r, 4, D, i) = Has(t, 3, D, i) /\ Has(t, 4, D, i) = 0
    BY <1>1 DEF Has, One
  <2>2. \A k : Has(t, k, D, i) \in Nat /\ Has(r, k, D, i) \in Nat
    BY DEF Has, One
  <2> QED BY <2>1, <2>2 DEF Count4
<1>6. /\ r[1].do \in Last \cup {"put"} <=> r[1].do # "unlock"
      /\ r[1].do \in Last \cup {"unlock"} <=> r[1].do # "put"
  BY <1>2 DEF Last
<1> QED BY <1>1, <1>2, <1>3, <1>4, <1>5, <1>6 DEF t, Puts, Locks, One

(* iput() of a last reference goes on with another release. *)
LEMMA RelNext ==
  ASSUME NEW r \in Seq(Releases), Tidy(r), r # <<>>, NEW x \in Releases, x.do \in Last
  PROVE  LET s == <<x>> \o Tail(r)
         IN  /\ s \in Seq(Releases) /\ Tidy(s) /\ s # <<>> /\ s[1] = x /\ Len(s) = Len(r)
             /\ \A i : /\ Puts(s, i) = One(x.ino = i) + Puts(Tail(r), i)
                       /\ Locks(s, i) = One(x.ino = i) + Locks(Tail(r), i)
<1> DEFINE t == Tail(r)
           s == <<x>> \o t
<1>1. /\ t \in Seq(Releases) /\ Tidy(t) /\ Len(t) \in 0..3 /\ Len(t) = Len(r) - 1 /\ Len(r) \in 1..4
      /\ \A k \in 1..Len(t) : t[k] = r[k+1] /\ t[k].do \notin Last
  BY RelTail
<1>2. <<x>> \in Seq(Releases) /\ Len(<<x>>) = 1 /\ <<x>>[1] = x
  OBVIOUS
<1> HIDE DEF t
<1>3. /\ s \in Seq(Releases) /\ Len(s) = 1 + Len(t) /\ s[1] = x
      /\ \A k \in 2..Len(s) : s[k] = t[k-1]
  BY <1>1, <1>2, ConcatProperties
<1> HIDE DEF s
<1>4. Tidy(s)
  <2>1. \A k \in 2..Len(s) : s[k] = r[k] /\ s[k].do \notin Last
    BY <1>1, <1>3
  <2> QED BY <1>1, <1>3, <2>1 DEF Tidy, Last
<1>5. s # <<>> /\ Len(s) = Len(r)
  BY <1>1, <1>3
<1>6. \A D, i : Count4(s, D, i) = One(x.do \in D /\ x.ino = i) + Count4(t, D, i)
  <2> SUFFICES ASSUME NEW D, NEW i
               PROVE  Count4(s, D, i) = One(x.do \in D /\ x.ino = i) + Count4(t, D, i)
    OBVIOUS
  <2>1. /\ Has(s, 1, D, i) = One(x.do \in D /\ x.ino = i)
        /\ Has(s, 2, D, i) = Has(t, 1, D, i) /\ Has(s, 3, D, i) = Has(t, 2, D, i)
        /\ Has(s, 4, D, i) = Has(t, 3, D, i) /\ Has(t, 4, D, i) = 0
    BY <1>1, <1>3 DEF Has, One
  <2>2. \A k : Has(t, k, D, i) \in Nat /\ Has(s, k, D, i) \in Nat
    BY DEF Has, One
  <2> QED BY <2>1, <2>2 DEF Count4
<1> QED BY <1>3, <1>4, <1>5, <1>6 DEF s, t, Puts, Locks

(* The first name of a path and the others. *)
LEMMA RestTail ==
  ASSUME NEW s \in Seq(Names), Len(s) >= 1
  PROVE  /\ Head(s) \in Names /\ Head(s) = s[1] /\ Tail(s) \in Seq(Names)
         /\ Len(s) # 1 => Len(Tail(s)) >= 1
<1>1. s # <<>>
  BY EmptySeq
<1>2. Head(s) \in Names /\ Head(s) = s[1] /\ Tail(s) \in Seq(Names) /\ Len(Tail(s)) = Len(s) - 1
  BY <1>1, HeadTailProperties
<1>3. PICK n \in Nat : n = Len(s)
  BY LenProperties
<1>4. n >= 1 /\ n # 1 => n - 1 >= 1
  OBVIOUS
<1> QED BY <1>2, <1>3, <1>4

-----------------------------------------------------------------------------
(* Of Held(i), what the processes of a set hold.                           *)
Fields == {"cur", "dp", "ip"}
FieldsOf(L, P, i) == {pv \in P \X Fields : L[pv[1]][pv[2]] = i}
RelsOf(L, P, i) ==
  {pk \in P \X (1..4) : pk[2] <= Len(L[pk[1]].rel) /\ L[pk[1]].rel[pk[2]].ino = i
                        /\ L[pk[1]].rel[pk[2]].do # "unlock"}
FilesOf(F, P, i) == {p \in P : F[p] = i}
HeldBy(L, F, P, i) ==
  Cardinality(FieldsOf(L, P, i)) + Cardinality(RelsOf(L, P, i)) + Cardinality(FilesOf(F, P, i))

(* (Sums, for the steps that count.) *)
LEMMA AddUp ==
  /\ \A n, m, x \in Nat, y \in Nat : n = m + x /\ x = y => n = m + y
  /\ \A n, a, b, c \in Nat, x, y, z \in Nat :
       n = a + x /\ a = b + y /\ b = c + z => n = c + x + y + z
  /\ \A n, a, b, c, d \in Nat, x, y, z, w \in Nat :
       n = a + x /\ a = b + y /\ b = c + z /\ c = d + w => n = d + (x + y + z + w)
  /\ \A a, b, c, d, e, f \in Nat, x, y, z, u, v \in Nat :
       a = d + x + y + z /\ b = e + u /\ c = f + v
         => a + b + c \in Nat /\ d + e + f \in Nat
            /\ a + b + c = (d + e + f) + (x + y + z + v + u)
  OBVIOUS

(* (What is counted is a number.) *)
LEMMA OneNat == \A b : One(b) \in Nat
BY DEF One

(* One element less. *)
LEMMA Without ==
  ASSUME NEW S, IsFiniteSet(S), NEW x
  PROVE  /\ IsFiniteSet(S \ {x}) /\ Cardinality(S) \in Nat /\ Cardinality(S \ {x}) \in Nat
         /\ Cardinality(S) = Cardinality(S \ {x}) + One(x \in S)
<1>1. /\ IsFiniteSet(S \ {x})
      /\ Cardinality(S \ {x}) = IF x \in S THEN Cardinality(S) - 1 ELSE Cardinality(S)
  BY FS_RemoveElement
<1>2. Cardinality(S) \in Nat /\ Cardinality(S \ {x}) \in Nat
  BY <1>1, FS_CardinalityType
<1> QED BY <1>1, <1>2 DEF One

(* A set of pairs *)
LEMMA Pairs ==
  ASSUME NEW P \in SUBSET Procs, NEW K, IsFiniteSet(K), NEW S \in SUBSET (P \X K)
  PROVE  IsFiniteSet(S) /\ Cardinality(S) \in Nat
<1>1. IsFiniteSet(P)
  BY Constants, FS_Subset
<1>2. IsFiniteSet(P \X K)
  BY <1>1, FS_Product
<1> QED BY <1>2, FS_Subset, FS_CardinalityType

(* The references of P are those of one process and those of the others: *)
(* the fields,                                                           *)
LEMMA FieldsSplit ==
  ASSUME NEW L, NEW P \in SUBSET Procs, NEW p \in P, NEW i
  PROVE  /\ Cardinality(FieldsOf(L, P, i)) \in Nat
         /\ Cardinality(FieldsOf(L, P \ {p}, i)) \in Nat
         /\ Cardinality(FieldsOf(L, P, i)) =
              Cardinality(FieldsOf(L, P \ {p}, i))
              + One(L[p].cur = i) + One(L[p].dp = i) + One(L[p].ip = i)
<1> DEFINE S == FieldsOf(L, P, i)
           a == <<p, "cur">>
           b == <<p, "dp">>
           c == <<p, "ip">>
<1>1. IsFiniteSet(Fields)
  <2>1. Fields = {} \cup {"cur"} \cup {"dp"} \cup {"ip"}
    BY DEF Fields
  <2> QED BY <2>1, FS_EmptySet, FS_AddElement
<1>2. IsFiniteSet(S)
  BY <1>1, Pairs DEF FieldsOf
<1>3. /\ IsFiniteSet(S \ {a}) /\ Cardinality(S) = Cardinality(S \ {a}) + One(a \in S)
      /\ Cardinality(S) \in Nat /\ Cardinality(S \ {a}) \in Nat
  BY <1>2, Without
<1>4. /\ IsFiniteSet((S \ {a}) \ {b})
      /\ Cardinality(S \ {a}) = Cardinality((S \ {a}) \ {b}) + One(b \in S \ {a})
      /\ Cardinality((S \ {a}) \ {b}) \in Nat
  BY <1>3, Without
<1>5. /\ Cardinality((S \ {a}) \ {b}) = Cardinality(((S \ {a}) \ {b}) \ {c}) + One(c \in (S \ {a}) \ {b})
      /\ Cardinality(((S \ {a}) \ {b}) \ {c}) \in Nat
  BY <1>4, Without
<1>6. ((S \ {a}) \ {b}) \ {c} = FieldsOf(L, P \ {p}, i)
  BY DEF FieldsOf, Fields
<1>7. /\ a \in S <=> L[p].cur = i
      /\ b \in S \ {a} <=> L[p].dp = i
      /\ c \in (S \ {a}) \ {b} <=> L[p].ip = i
  BY DEF FieldsOf, Fields
<1>8. /\ One(a \in S) = One(L[p].cur = i)
      /\ One(b \in S \ {a}) = One(L[p].dp = i)
      /\ One(c \in (S \ {a}) \ {b}) = One(L[p].ip = i)
  BY <1>7 DEF One
<1> HIDE DEF S, a, b, c
<1>9. /\ Cardinality(S) \in Nat /\ Cardinality(FieldsOf(L, P \ {p}, i)) \in Nat
      /\ Cardinality(S) = Cardinality(FieldsOf(L, P \ {p}, i))
              + One(L[p].cur = i) + One(L[p].dp = i) + One(L[p].ip = i)
  <2>1. One(a \in S) \in Nat /\ One(b \in S \ {a}) \in Nat /\ One(c \in (S \ {a}) \ {b}) \in Nat
    BY OneNat
  <2>2. Cardinality(S) = Cardinality(((S \ {a}) \ {b}) \ {c})
                       + One(a \in S) + One(b \in S \ {a}) + One(c \in (S \ {a}) \ {b})
    BY <1>3, <1>4, <1>5, <2>1, AddUp
  <2> QED BY <1>3, <1>5, <1>6, <1>8, <2>2
<1> QED BY <1>9 DEF S

(* the lists of releases, *)
LEMMA RelsSplit ==
  ASSUME NEW L, NEW P \in SUBSET Procs, NEW p \in P, NEW i, L[p].rel \in Seq(Releases)
  PROVE  /\ Cardinality(RelsOf(L, P, i)) \in Nat
         /\ Cardinality(RelsOf(L, P \ {p}, i)) \in Nat
         /\ Cardinality(RelsOf(L, P, i)) =
              Cardinality(RelsOf(L, P \ {p}, i)) + Puts(L[p].rel, i)
<1> DEFINE S == RelsOf(L, P, i)
           D == Last \cup {"put"}
           a == <<p, 1>>
           b == <<p, 2>>
           c == <<p, 3>>
           d == <<p, 4>>
           Sa == S \ {a}
           Sb == Sa \ {b}
           Sc == Sb \ {c}
<1>1. IsFiniteSet(S)
  <2>1. IsFiniteSet(1..4)
    <3>1. PICK m, n \in Int : m = 1 /\ n = 4
      OBVIOUS
    <3>2. IsFiniteSet(m..n)
      BY FS_Interval
    <3> QED BY <3>1, <3>2
  <2>2. S \in SUBSET (P \X (1..4))
    BY DEF RelsOf
  <2> HIDE DEF S
  <2> QED BY <2>1, <2>2, Pairs
<1>2. /\ IsFiniteSet(Sa) /\ Cardinality(S) = Cardinality(Sa) + One(a \in S)
      /\ Cardinality(S) \in Nat /\ Cardinality(Sa) \in Nat
  BY <1>1, Without
<1>3. /\ IsFiniteSet(Sb) /\ Cardinality(Sa) = Cardinality(Sb) + One(b \in Sa)
      /\ Cardinality(Sb) \in Nat
  BY <1>2, Without
<1>4. /\ IsFiniteSet(Sc) /\ Cardinality(Sb) = Cardinality(Sc) + One(c \in Sb)
      /\ Cardinality(Sc) \in Nat
  BY <1>3, Without
<1>5. /\ Cardinality(Sc) = Cardinality(Sc \ {d}) + One(d \in Sc)
      /\ Cardinality(Sc \ {d}) \in Nat
  BY <1>4, Without
<1>6. Sc \ {d} = RelsOf(L, P \ {p}, i)
  <2>1. Sc \ {d} = {pk \in S : pk[1] # p}
    <3>1. \A pk \in S : pk = <<pk[1], pk[2]>> /\ pk[2] \in {1, 2, 3, 4}
      BY DEF RelsOf
    <3> QED BY <3>1
  <2>2. {pk \in S : pk[1] # p} = RelsOf(L, P \ {p}, i)
    BY DEF RelsOf
  <2> QED BY <2>1, <2>2
<1>7. \A k \in 1..4 : <<p, k>> \in S <=> k <= Len(L[p].rel) /\ L[p].rel[k].do \in D /\ L[p].rel[k].ino = i
  <2> SUFFICES ASSUME NEW k \in 1..4
               PROVE  <<p, k>> \in S <=> k <= Len(L[p].rel) /\ L[p].rel[k].do \in D /\ L[p].rel[k].ino = i
    OBVIOUS
  <2>1. <<p, k>> \in S <=> k <= Len(L[p].rel) /\ L[p].rel[k].ino = i /\ L[p].rel[k].do # "unlock"
    BY DEF RelsOf
  <2>2. k <= Len(L[p].rel) => (L[p].rel[k].do \in D <=> L[p].rel[k].do # "unlock")
    <3>1. SUFFICES ASSUME k <= Len(L[p].rel) PROVE L[p].rel[k].do \in D <=> L[p].rel[k].do # "unlock"
      OBVIOUS
    <3>2. L[p].rel[k] \in Releases
      BY <3>1, ElementOfSeq, LenProperties
    <3> QED BY <3>2 DEF Releases, Last
  <2> QED BY <2>1, <2>2
<1>8. /\ a \in S <=> 1 <= Len(L[p].rel) /\ L[p].rel[1].do \in D /\ L[p].rel[1].ino = i
      /\ b \in Sa <=> 2 <= Len(L[p].rel) /\ L[p].rel[2].do \in D /\ L[p].rel[2].ino = i
      /\ c \in Sb <=> 3 <= Len(L[p].rel) /\ L[p].rel[3].do \in D /\ L[p].rel[3].ino = i
      /\ d \in Sc <=> 4 <= Len(L[p].rel) /\ L[p].rel[4].do \in D /\ L[p].rel[4].ino = i
  <2>1. b \in Sa <=> b \in S
    OBVIOUS
  <2>2. c \in Sb <=> c \in S
    OBVIOUS
  <2>3. d \in Sc <=> d \in S
    OBVIOUS
  <2> HIDE DEF S, D, Sa, Sb, Sc
  <2> QED BY <1>7, <2>1, <2>2, <2>3
<1>9. /\ One(a \in S) = Has(L[p].rel, 1, D, i) /\ One(b \in Sa) = Has(L[p].rel, 2, D, i)
      /\ One(c \in Sb) = Has(L[p].rel, 3, D, i) /\ One(d \in Sc) = Has(L[p].rel, 4, D, i)
  BY <1>8 DEF One, Has
<1>10. Puts(L[p].rel, i) = Has(L[p].rel, 1, D, i) + Has(L[p].rel, 2, D, i) + Has(L[p].rel, 3, D, i) + Has(L[p].rel, 4, D, i)
  BY DEF Puts, Count4
<1> HIDE DEF S, a, b, c, d, Sa, Sb, Sc, D
<1>11. /\ Cardinality(S) \in Nat /\ Cardinality(RelsOf(L, P \ {p}, i)) \in Nat
       /\ Cardinality(S) = Cardinality(RelsOf(L, P \ {p}, i)) + Puts(L[p].rel, i)
  <2>1. One(a \in S) \in Nat /\ One(b \in Sa) \in Nat /\ One(c \in Sb) \in Nat /\ One(d \in Sc) \in Nat
    BY OneNat
  <2>2. Cardinality(S) = Cardinality(Sc \ {d})
                       + (One(a \in S) + One(b \in Sa) + One(c \in Sb) + One(d \in Sc))
    BY <1>2, <1>3, <1>4, <1>5, <2>1, AddUp
  <2> QED BY <1>2, <1>5, <1>6, <1>9, <1>10, <2>2
<1> QED BY <1>11 DEF S

(* the files, *)
LEMMA FilesSplit ==
  ASSUME NEW F, NEW P \in SUBSET Procs, NEW p \in P, NEW i
  PROVE  /\ Cardinality(FilesOf(F, P, i)) \in Nat
         /\ Cardinality(FilesOf(F, P \ {p}, i)) \in Nat
         /\ Cardinality(FilesOf(F, P, i)) = Cardinality(FilesOf(F, P \ {p}, i)) + One(F[p] = i)
<1> DEFINE S == FilesOf(F, P, i)
<1>1. IsFiniteSet(S)
  BY Constants, FS_Subset DEF FilesOf
<1>2. /\ Cardinality(S) = Cardinality(S \ {p}) + One(p \in S)
      /\ Cardinality(S) \in Nat /\ Cardinality(S \ {p}) \in Nat
  BY <1>1, Without
<1>3. S \ {p} = FilesOf(F, P \ {p}, i) /\ (p \in S <=> F[p] = i)
  BY DEF FilesOf
<1>4. One(p \in S) = One(F[p] = i)
  BY <1>3 DEF One
<1> QED BY <1>2, <1>3, <1>4

(* and all of them. *)
LEMMA HeldSplit ==
  ASSUME NEW L, NEW F, NEW P \in SUBSET Procs, NEW p \in P, NEW i, L[p].rel \in Seq(Releases)
  PROVE  /\ HeldBy(L, F, P, i) \in Nat /\ HeldBy(L, F, P \ {p}, i) \in Nat
         /\ HeldBy(L, F, P, i) = HeldBy(L, F, P \ {p}, i) + Holds(L[p], F[p], i)
<1>1. One(L[p].cur = i) \in Nat /\ One(L[p].dp = i) \in Nat /\ One(L[p].ip = i) \in Nat
      /\ One(F[p] = i) \in Nat /\ Puts(L[p].rel, i) \in Nat
  BY OneNat, CountType DEF Puts
<1>2. /\ Cardinality(FieldsOf(L, P, i)) \in Nat /\ Cardinality(FieldsOf(L, P \ {p}, i)) \in Nat
      /\ Cardinality(FieldsOf(L, P, i)) = Cardinality(FieldsOf(L, P \ {p}, i))
              + One(L[p].cur = i) + One(L[p].dp = i) + One(L[p].ip = i)
  BY FieldsSplit
<1>3. /\ Cardinality(RelsOf(L, P, i)) \in Nat /\ Cardinality(RelsOf(L, P \ {p}, i)) \in Nat
      /\ Cardinality(RelsOf(L, P, i)) = Cardinality(RelsOf(L, P \ {p}, i)) + Puts(L[p].rel, i)
  BY RelsSplit
<1>4. /\ Cardinality(FilesOf(F, P, i)) \in Nat /\ Cardinality(FilesOf(F, P \ {p}, i)) \in Nat
      /\ Cardinality(FilesOf(F, P, i)) = Cardinality(FilesOf(F, P \ {p}, i)) + One(F[p] = i)
  BY FilesSplit
<1>5. PICK a, b, c, d, e, f, x, y, z, u, v \in Nat :
        /\ a = Cardinality(FieldsOf(L, P, i)) /\ d = Cardinality(FieldsOf(L, P \ {p}, i))
        /\ b = Cardinality(RelsOf(L, P, i)) /\ e = Cardinality(RelsOf(L, P \ {p}, i))
        /\ c = Cardinality(FilesOf(F, P, i)) /\ f = Cardinality(FilesOf(F, P \ {p}, i))
        /\ x = One(L[p].cur = i) /\ y = One(L[p].dp = i) /\ z = One(L[p].ip = i)
        /\ u = Puts(L[p].rel, i) /\ v = One(F[p] = i)
  BY <1>1, <1>2, <1>3, <1>4
<1>6. a = d + x + y + z /\ b = e + u /\ c = f + v
  BY <1>2, <1>3, <1>4, <1>5
<1>7. /\ HeldBy(L, F, P, i) = a + b + c /\ HeldBy(L, F, P \ {p}, i) = d + e + f
      /\ Holds(L[p], F[p], i) = x + y + z + v + u
  BY <1>5 DEF HeldBy, Holds
<1> QED BY <1>6, <1>7

(* The same for use with any functions. *)
HeldParts(L, F, P, p, i) ==
  /\ HeldBy(L, F, P, i) \in Nat /\ HeldBy(L, F, P \ {p}, i) \in Nat
  /\ HeldBy(L, F, P, i) = HeldBy(L, F, P \ {p}, i) + Holds(L[p], F[p], i)

(* (The same in one predicate.) *)
LEMMA HeldParted ==
  \A L, F : \A P \in SUBSET Procs : \A p \in P : \A i :
    L[p].rel \in Seq(Releases) => HeldParts(L, F, P, p, i)
BY HeldSplit DEF HeldParts

-----------------------------------------------------------------------------
(* The types, and "." and ".." of the directories being made and freed. *)
TypeInv ==
  /\ type \in [Inodes -> {"free", "file", "dir"}]
  /\ nlink \in [Inodes -> Nat]
  /\ entry \in [Inodes -> [Names -> Inodes \cup {None}]]
  /\ ref \in [Inodes -> Nat]
  /\ busy \in [Inodes -> Procs \cup {Nobody}]
  /\ valid \in [Inodes -> BOOLEAN]
  /\ file \in [Procs -> Inodes \cup {None}]
  /\ loc \in [Procs -> Locs]
  /\ strays \subseteq Inodes /\ crashes \in 0..MaxCrashes /\ damaged \subseteq Inodes

DotsInv ==
  /\ dots \in [Inodes -> Seq(Inodes)] /\ \A i \in Inodes : Len(dots[i]) <= 2
  /\ \A i \in Inodes : type[i] = "free" => dots[i] = <<>>
  /\ \A p \in Procs, i \in Inodes :
       /\ HeadIs(loc[p], {"free"}, i) => dots[i] = <<>>
       /\ loc[p].pc \in {"c_lock", "c_init", "c_dots", "c_dot"} /\ loc[p].ip = i => dots[i] = <<>>
       /\ loc[p].pc = "c_dotdot" /\ loc[p].ip = i => Len(dots[i]) = 1

(* The locks and the references. *)
Base == TypeInv /\ WFInv /\ LockInv /\ RefInv

(* The types of one process. *)
LEMMA LocType ==
  ASSUME TypeInv, NEW p \in Procs
  PROVE  /\ loc[p] \in Locs /\ loc[p].rel \in Seq(Releases) /\ Len(loc[p].rel) \in Nat
         /\ file[p] \in Inodes \cup {None}
         /\ loc[p].cur \in Inodes \cup {None} /\ loc[p].dp \in Inodes \cup {None}
         /\ loc[p].ip \in Inodes \cup {None}
         /\ loc[p].pc \in PCs /\ loc[p].call \in CallNames
         /\ loc[p].rest \in Seq(Names) /\ loc[p].new \in Seq(Names)
<1>1. loc[p] \in Locs /\ file[p] \in Inodes \cup {None}
  BY DEF TypeInv
<1>2. loc[p].rel \in Seq(Releases)
  BY <1>1 DEF Locs
<1>3. Len(loc[p].rel) \in Nat
  BY <1>2, LenProperties
<1> QED BY <1>1, <1>2, <1>3 DEF Locs

(* The references of RefExact are those of HeldBy. *)
HeldSum == \A i \in Inodes : Held(i) = HeldBy(loc, file, Procs, i)
(* The references of RefExact are what HeldBy counts. *)
LEMMA HeldIs == TypeInv /\ WFInv => HeldSum
<1> SUFFICES ASSUME TypeInv, WFInv, NEW i \in Inodes
             PROVE  Held(i) = HeldBy(loc, file, Procs, i)
  BY DEF HeldSum
<1>1. UNION {{<<p, k>> : k \in {k \in 1..Len(loc[p].rel) :
        loc[p].rel[k].ino = i /\ loc[p].rel[k].do # "unlock"}} : p \in Procs}
      = RelsOf(loc, Procs, i)
  <2>1. \A p \in Procs : Len(loc[p].rel) \in Nat /\ Len(loc[p].rel) <= 4
    BY LocType DEF WFInv, WellFormed, Tidy
  <2>2. \A p \in Procs : \A k : k \in 1..Len(loc[p].rel) <=> k \in 1..4 /\ k <= Len(loc[p].rel)
    <3> SUFFICES ASSUME NEW p \in Procs, NEW k
                 PROVE  k \in 1..Len(loc[p].rel) <=> k \in 1..4 /\ k <= Len(loc[p].rel)
      OBVIOUS
    <3>1. PICK n \in Nat : n = Len(loc[p].rel) /\ n <= 4
      BY <2>1
    <3>2. k \in 1..n <=> k \in 1..4 /\ k <= n
      BY <3>1
    <3> QED BY <3>1, <3>2
  <2>3. \A p \in Procs : \A k : k \in {k1 \in 1..Len(loc[p].rel) :
              loc[p].rel[k1].ino = i /\ loc[p].rel[k1].do # "unlock"}
            <=> k \in 1..4 /\ k <= Len(loc[p].rel) /\ loc[p].rel[k].ino = i /\ loc[p].rel[k].do # "unlock"
    BY <2>2
  <2> DEFINE R(p) == {k \in 1..Len(loc[p].rel) : loc[p].rel[k].ino = i /\ loc[p].rel[k].do # "unlock"}
  <2>4. \A p \in Procs : \A k : k \in R(p)
            <=> k \in 1..4 /\ k <= Len(loc[p].rel) /\ loc[p].rel[k].ino = i /\ loc[p].rel[k].do # "unlock"
    BY <2>3
  <2> HIDE DEF R
  <2>5. UNION {{<<p, k>> : k \in R(p)} : p \in Procs} = RelsOf(loc, Procs, i)
    <3>1. ASSUME NEW x, x \in UNION {{<<p, k>> : k \in R(p)} : p \in Procs}
          PROVE  x \in RelsOf(loc, Procs, i)
      <4>1. PICK p \in Procs : \E k \in R(p) : x = <<p, k>>
        BY <3>1
      <4> QED BY <4>1, <2>4 DEF RelsOf
    <3>2. ASSUME NEW x \in RelsOf(loc, Procs, i)
          PROVE  x \in UNION {{<<p, k>> : k \in R(p)} : p \in Procs}
      <4>1. x = <<x[1], x[2]>> /\ x[1] \in Procs /\ x[2] \in R(x[1])
        BY <2>4 DEF RelsOf
      <4> QED BY <4>1
    <3> QED BY <3>1, <3>2
  <2> QED BY <2>5 DEF R
<1>2. /\ {pv \in Procs \X {"cur", "dp", "ip"} : loc[pv[1]][pv[2]] = i} = FieldsOf(loc, Procs, i)
      /\ {p \in Procs : file[p] = i} = FilesOf(file, Procs, i)
  BY DEF FieldsOf, FilesOf, Fields
<1> QED BY <1>1, <1>2 DEF Held, HeldBy

(* (What is counted is a number.) *)
LEMMA HoldsType == \A l, f, i : Holds(l, f, i) \in Nat
<1> SUFFICES ASSUME NEW l, NEW f, NEW i PROVE Holds(l, f, i) \in Nat
  OBVIOUS
<1>1. /\ One(l.cur = i) \in Nat /\ One(l.dp = i) \in Nat /\ One(l.ip = i) \in Nat
      /\ One(f = i) \in Nat /\ Puts(l.rel, i) \in Nat
  BY OneNat, CountType DEF Puts
<1> QED BY <1>1 DEF Holds

(* One process apart from the others. *)
LEMMA HeldMinus ==
  ASSUME NEW P \in SUBSET Procs, NEW q \in P, loc[q].rel \in Seq(Releases), NEW i
  PROVE  /\ HeldBy(loc, file, P, i) \in Nat /\ HeldBy(loc, file, P \ {q}, i) \in Nat
         /\ HeldBy(loc, file, P, i) = HeldBy(loc, file, P \ {q}, i) + Holds(loc[q], file[q], i)
<1>1. HeldParts(loc, file, P, q, i)
  BY HeldParted
<1> QED BY <1>1 DEF HeldParts

(* ref counts what one process holds and what another does. *)
LEMMA RefHolds ==
  ASSUME Base, NEW p \in Procs, NEW i \in Inodes
  PROVE  /\ ref[i] \in Nat /\ ref[i] >= Holds(loc[p], file[p], i)
         /\ \A q \in Procs \ {p} :
              ref[i] >= Holds(loc[p], file[p], i) + Holds(loc[q], file[q], i)
<1>1. ref[i] = HeldBy(loc, file, Procs, i)
  BY HeldIs DEF Base, RefInv, HeldSum
<1>2. \A q \in Procs : loc[q].rel \in Seq(Releases)
  BY LocType DEF Base
<1>3. /\ HeldBy(loc, file, Procs, i) \in Nat /\ HeldBy(loc, file, Procs \ {p}, i) \in Nat
      /\ HeldBy(loc, file, Procs, i) = HeldBy(loc, file, Procs \ {p}, i) + Holds(loc[p], file[p], i)
  BY <1>2, HeldSplit
<1>4. ASSUME NEW q \in Procs \ {p}
      PROVE  HeldBy(loc, file, Procs \ {p}, i) >= Holds(loc[q], file[q], i)
  <2>1. PICK P \in SUBSET Procs : P = Procs \ {p}
    OBVIOUS
  <2>4. q \in P /\ loc[q].rel \in Seq(Releases)
    BY <1>2, <2>1
  <2>5. /\ HeldBy(loc, file, P, i) \in Nat /\ HeldBy(loc, file, P \ {q}, i) \in Nat
        /\ HeldBy(loc, file, P, i) = HeldBy(loc, file, P \ {q}, i) + Holds(loc[q], file[q], i)
    BY <2>1, <2>4, HeldMinus
  <2>2. /\ HeldBy(loc, file, Procs \ {p}, i) \in Nat /\ HeldBy(loc, file, (Procs \ {p}) \ {q}, i) \in Nat
        /\ HeldBy(loc, file, Procs \ {p}, i)
             = HeldBy(loc, file, (Procs \ {p}) \ {q}, i) + Holds(loc[q], file[q], i)
    BY <2>1, <2>5
  <2>3. Holds(loc[q], file[q], i) \in Nat
    BY HoldsType
  <2> QED BY <2>2, <2>3
<1>5. Holds(loc[p], file[p], i) \in Nat /\ \A q \in Procs : Holds(loc[q], file[q], i) \in Nat
  BY HoldsType
<1>6. ref[i] \in Nat /\ ref[i] >= Holds(loc[p], file[p], i)
  BY <1>1, <1>3, <1>5
<1>7. ASSUME NEW q \in Procs \ {p}
      PROVE  ref[i] >= Holds(loc[p], file[p], i) + Holds(loc[q], file[q], i)
  BY <1>1, <1>3, <1>4, <1>5
<1> QED BY <1>6, <1>7

(* A count is positive when there is something to count. *)
LEMMA CountSome ==
  ASSUME NEW r, NEW D, NEW i
  PROVE  /\ Count4(r, D, i) >= 1 => \E k \in 1..4 : k <= Len(r) /\ r[k].do \in D /\ r[k].ino = i
         /\ \A k \in 1..4 : k <= Len(r) /\ r[k].do \in D /\ r[k].ino = i => Count4(r, D, i) >= 1
<1>1. PICK a, b, c, d \in {0, 1} : /\ a = Has(r, 1, D, i) /\ b = Has(r, 2, D, i)
                                   /\ c = Has(r, 3, D, i) /\ d = Has(r, 4, D, i)
  BY DEF Has, One
<1>2. Count4(r, D, i) = a + b + c + d
  BY <1>1 DEF Count4
<1>3. \A k : Has(r, k, D, i) = 1 <=> k <= Len(r) /\ r[k].do \in D /\ r[k].ino = i
  BY DEF Has, One
<1>4. a + b + c + d >= 1 <=> a = 1 \/ b = 1 \/ c = 1 \/ d = 1
  OBVIOUS
<1>5. Count4(r, D, i) >= 1 <=> \E k \in 1..4 : Has(r, k, D, i) = 1
  <2>1. \A k \in 1..4 : k = 1 \/ k = 2 \/ k = 3 \/ k = 4
    OBVIOUS
  <2> QED BY <1>1, <1>2, <1>4, <2>1
<1> QED BY <1>3, <1>5

(* What is unlocked is put later, but for a single iunlock(). *)
LEMMA LocksPut ==
  ASSUME NEW r \in Seq(Releases), Tidy(r), NEW i, Locks(r, i) >= 1
  PROVE  Puts(r, i) >= 1 \/ (Len(r) = 1 /\ r[1].do = "unlock" /\ r[1].ino = i)
<1>3. PICK k \in 1..4 : k <= Len(r) /\ r[k].do \in Last \cup {"unlock"} /\ r[k].ino = i
  BY CountSome DEF Locks
<1>4. Len(r) \in Nat /\ Len(r) <= 4 /\ k \in 1..Len(r)
  <2>1. Len(r) \in Nat
    BY LenProperties
  <2>2. PICK n \in Nat : n = Len(r)
    BY <2>1
  <2>3. k \in 1..n
    BY <1>3, <2>2
  <2> QED BY <2>1, <2>2, <2>3 DEF Tidy
<1>5. ASSUME NEW m \in 1..4, m <= Len(r), r[m].do \in Last \cup {"put"}, r[m].ino = i
      PROVE  Puts(r, i) >= 1
  BY <1>5, CountSome DEF Puts
<1>6. CASE r[k].do \in Last
  BY <1>3, <1>5, <1>6
<1>7. CASE r[k].do = "unlock"
  <2>1. CASE Len(r) = 1
    <3>1. k = 1
      BY <1>4, <2>1
    <3> QED BY <1>3, <1>7, <2>1, <3>1
  <2>2. CASE Len(r) # 1
    <3>1. k < Len(r) /\ r[k+1] = [do |-> "put", ino |-> i]
      BY <1>3, <1>4, <1>7, <2>2 DEF Tidy
    <3>2. k + 1 \in 1..4 /\ k + 1 <= Len(r)
      BY <1>4, <3>1
    <3>3. r[k+1].do \in Last \cup {"put"} /\ r[k+1].ino = i
      BY <3>1
    <3> QED BY <1>5, <3>2, <3>3
  <2> QED BY <2>1, <2>2
<1> QED BY <1>3, <1>6, <1>7

(* Who has locked an inode holds a reference to it. *)
LEMMA ClaimsHold ==
  ASSUME NEW l \in Locs, NEW f \in Inodes \cup {None}, WellFormed(l, f), NEW i \in Inodes,
         Claims(l, i) >= 1
  PROVE  Holds(l, f, i) >= 1
<1>1. /\ One(l.cur = i) \in Nat /\ One(l.dp = i) \in Nat /\ One(l.ip = i) \in Nat
      /\ One(f = i) \in Nat /\ Puts(l.rel, i) \in Nat
  BY OneNat, CountType DEF Puts
<1>2. \/ l.cur = i \/ l.dp = i \/ l.ip = i \/ Locks(l.rel, i) >= 1
  <2>1. Locks(l.rel, i) \in Nat
    BY CountType DEF Locks
  <2> QED BY <2>1 DEF Claims, One
<1>3. CASE l.cur = i \/ l.dp = i \/ l.ip = i
  <2>1. \/ One(l.cur = i) = 1 \/ One(l.dp = i) = 1 \/ One(l.ip = i) = 1
    BY <1>3 DEF One
  <2> QED BY <1>1, <2>1 DEF Holds
<1>4. CASE Locks(l.rel, i) >= 1
  <2>1. l.rel \in Seq(Releases) /\ Tidy(l.rel)
    BY DEF Locs, WellFormed
  <2>2. Puts(l.rel, i) >= 1 \/ (Len(l.rel) = 1 /\ l.rel[1].do = "unlock" /\ l.rel[1].ino = i)
    BY <1>4, <2>1, LocksPut
  <2>3. Puts(l.rel, i) >= 1 => Holds(l, f, i) >= 1
    BY <1>1 DEF Holds
  <2>4. Len(l.rel) = 1 /\ l.rel[1].do = "unlock" => Holds(l, f, l.rel[1].ino) >= 1
    BY DEF WellFormed
  <2> QED BY <2>2, <2>3, <2>4
<1> QED BY <1>2, <1>3, <1>4

(* ... and two, when it is about to put one. *)
LEMMA ClaimsHoldTwo ==
  ASSUME NEW l \in Locs, NEW f \in Inodes \cup {None}, WellFormed(l, f), NEW i \in Inodes,
         HeadIs(l, {"put"}, i), Claims(l, i) >= 1
  PROVE  Holds(l, f, i) >= 2
<1> DEFINE r == l.rel
           t == Tail(l.rel)
<1>1. r \in Seq(Releases) /\ Tidy(r) /\ r # <<>> /\ r[1].do = "put" /\ r[1].ino = i
  BY DEF Locs, WellFormed, HeadIs
<1>2. /\ t \in Seq(Releases) /\ Tidy(t) /\ Len(t) = Len(r) - 1
      /\ Puts(r, i) = One(r[1].do # "unlock" /\ r[1].ino = i) + Puts(t, i)
      /\ Locks(r, i) = One(r[1].do # "put" /\ r[1].ino = i) + Locks(t, i)
      /\ \A k \in 1..Len(t) : t[k] = r[k+1]
      /\ Len(r) \in 1..4
  BY <1>1, RelTail
<1> HIDE DEF r, t
<1>3. Puts(t, i) \in Nat /\ Locks(t, i) \in Nat
  BY CountType DEF Puts, Locks
<1>4. Puts(r, i) = 1 + Puts(t, i) /\ Locks(r, i) = Locks(t, i)
  BY <1>1, <1>2, <1>3 DEF One
<1>5. /\ One(l.cur = i) \in Nat /\ One(l.dp = i) \in Nat /\ One(l.ip = i) \in Nat
      /\ One(f = i) \in Nat
      /\ Holds(l, f, i) = One(l.cur = i) + One(l.dp = i) + One(l.ip = i) + One(f = i) + 1 + Puts(t, i)
  <2>1. /\ One(l.cur = i) \in Nat /\ One(l.dp = i) \in Nat /\ One(l.ip = i) \in Nat
        /\ One(f = i) \in Nat
    BY OneNat
  <2>2. Holds(l, f, i) = One(l.cur = i) + One(l.dp = i) + One(l.ip = i) + One(f = i) + Puts(r, i)
    BY DEF Holds, r
  <2> QED BY <1>3, <1>4, <2>1, <2>2
<1>6. \/ l.cur = i \/ l.dp = i \/ l.ip = i \/ Locks(t, i) >= 1
  <2>1. Claims(l, i) = One(l.pc = "walked" /\ l.cur = i) + One(l.pc \in DpLocked /\ l.dp = i)
                       + One(l.pc \in IpLocked /\ l.ip = i) + Locks(t, i)
    BY <1>4 DEF Claims, r
  <2> QED BY <1>3, <2>1 DEF One
<1>7. CASE l.cur = i \/ l.dp = i \/ l.ip = i
  <2>1. \/ One(l.cur = i) = 1 \/ One(l.dp = i) = 1 \/ One(l.ip = i) = 1
    BY <1>7 DEF One
  <2> QED BY <1>3, <1>5, <2>1
<1>8. CASE Locks(t, i) >= 1
  <2>1. Puts(t, i) >= 1 \/ (Len(t) = 1 /\ t[1].do = "unlock" /\ t[1].ino = i)
    BY <1>2, <1>8, LocksPut
  <2>2. ~(Len(t) = 1 /\ t[1].do = "unlock")
    <3>1. SUFFICES ASSUME Len(t) = 1, t[1].do = "unlock" PROVE FALSE
      OBVIOUS
    <3>4. PICK n \in 1..4 : n = Len(r)
      BY <1>2
    <3>5. n - 1 = 1
      BY <1>2, <3>1, <3>4
    <3>6. n = 2
      BY <3>5
    <3>2. Len(r) = 2 /\ r[2].do = "unlock"
      BY <1>2, <3>1, <3>4, <3>6
    <3>3. 2 \in 1..Len(r) /\ 2 < Len(r)
      BY <1>1, <3>2 DEF Tidy
    <3> QED BY <3>2, <3>3
  <2> QED BY <1>3, <1>5, <2>1, <2>2
<1> QED BY <1>6, <1>7, <1>8

(* (What is counted is a number.) *)
LEMMA ClaimsType == \A l, i : Claims(l, i) \in Nat
<1> SUFFICES ASSUME NEW l, NEW i PROVE Claims(l, i) \in Nat
  OBVIOUS
<1>1. /\ One(l.pc = "walked" /\ l.cur = i) \in Nat /\ One(l.pc \in DpLocked /\ l.dp = i) \in Nat
      /\ One(l.pc \in IpLocked /\ l.ip = i) \in Nat /\ Locks(l.rel, i) \in Nat
  BY OneNat, CountType DEF Locks
<1> QED BY <1>1 DEF Claims

(* The owner of a lock holds a reference; one that is not about to put it, *)
(* if its next release is an iput() of the same inode.                     *)
LEMMA Owner ==
  ASSUME Base, NEW p \in Procs, NEW i \in Inodes
  PROVE  /\ busy[i] = p <=> Claims(loc[p], i) >= 1
         /\ Claims(loc[p], i) \in {0, 1}
         /\ busy[i] = p => Holds(loc[p], file[p], i) >= 1
         /\ busy[i] = p /\ HeadIs(loc[p], {"put"}, i) => Holds(loc[p], file[p], i) >= 2
<1>1. Claims(loc[p], i) = One(busy[i] = p)
  BY DEF Base, LockInv
<1>2. busy[i] = p <=> Claims(loc[p], i) >= 1
  BY <1>1 DEF One
<1>3. Claims(loc[p], i) \in {0, 1}
  BY <1>1 DEF One
<1>4. loc[p] \in Locs /\ file[p] \in Inodes \cup {None} /\ WellFormed(loc[p], file[p])
  BY LocType DEF Base, WFInv
<1> QED BY <1>2, <1>3, <1>4, ClaimsHold, ClaimsHoldTwo

-----------------------------------------------------------------------------
(* A step of p: the others stay where they are, ref follows what p holds, *)
(* and busy what p claims.                                                *)
Frame(p) ==
  /\ loc' \in [Procs -> Locs] /\ file' \in [Procs -> Inodes \cup {None}]
  /\ \A q \in Procs \ {p} : loc'[q] = loc[q] /\ file'[q] = file[q]
  /\ WellFormed(loc'[p], file'[p])

Accounts(p) ==
  /\ ref' \in [Inodes -> Nat]
  /\ \A i \in Inodes : ref'[i] + Holds(loc[p], file[p], i) = ref[i] + Holds(loc'[p], file'[p], i)

LocksMove(p) ==
  /\ busy' \in [Inodes -> Procs \cup {Nobody}]
  /\ \A i \in Inodes : /\ Claims(loc'[p], i) = One(busy'[i] = p)
                       /\ \A q \in Procs \ {p} : busy'[i] = q <=> busy[i] = q

(* Such a step keeps the locks and the references in order. *)
LEMMA BaseStep ==
  ASSUME Base, NEW p \in Procs, Frame(p), Accounts(p), LocksMove(p), TypeInv'
  PROVE  Base'
<1>1. WFInv'
  BY DEF Base, WFInv, Frame
<1>2. LockInv'
  <2> SUFFICES ASSUME NEW q \in Procs, NEW i \in Inodes
               PROVE  Claims(loc'[q], i) = One(busy'[i] = q)
    BY DEF LockInv
  <2>1. CASE q = p
    BY <2>1 DEF LocksMove
  <2>2. CASE q # p
    <3>1. loc'[q] = loc[q] /\ (busy'[i] = q <=> busy[i] = q)
      BY <2>2 DEF Frame, LocksMove
    <3>2. Claims(loc[q], i) = One(busy[i] = q)
      BY DEF Base, LockInv
    <3> QED BY <3>1, <3>2 DEF One
  <2> QED BY <2>1, <2>2
<1>3. RefInv'
  <2> SUFFICES ASSUME NEW i \in Inodes PROVE ref'[i] = Held(i)'
    BY DEF RefInv
  <2>1. Held(i)' = HeldBy(loc', file', Procs, i)
    <3>1. TypeInv' /\ WFInv' => HeldSum'
      BY HeldIs, PTL
    <3> QED BY <1>1, <3>1 DEF HeldSum
  <2>2. ref[i] = HeldBy(loc, file, Procs, i)
    BY HeldIs DEF Base, RefInv, HeldSum
  <2>3. loc[p].rel \in Seq(Releases) /\ loc'[p].rel \in Seq(Releases)
    BY LocType DEF Base, Frame, Locs
  <2>4. HeldBy(loc', file', Procs \ {p}, i) = HeldBy(loc, file, Procs \ {p}, i)
    <3>1. \A q \in Procs \ {p} : loc'[q] = loc[q] /\ file'[q] = file[q]
      BY DEF Frame
    <3>2. FieldsOf(loc', Procs \ {p}, i) = FieldsOf(loc, Procs \ {p}, i)
      BY <3>1 DEF FieldsOf
    <3>3. RelsOf(loc', Procs \ {p}, i) = RelsOf(loc, Procs \ {p}, i)
      BY <3>1 DEF RelsOf
    <3>4. FilesOf(file', Procs \ {p}, i) = FilesOf(file, Procs \ {p}, i)
      BY <3>1 DEF FilesOf
    <3> QED BY <3>2, <3>3, <3>4 DEF HeldBy
  <2>5. HeldParts(loc, file, Procs, p, i) /\ HeldParts(loc', file', Procs, p, i)
    BY <2>3, HeldParted
  <2>6. /\ HeldBy(loc, file, Procs, i) = HeldBy(loc, file, Procs \ {p}, i) + Holds(loc[p], file[p], i)
        /\ HeldBy(loc', file', Procs, i) = HeldBy(loc', file', Procs \ {p}, i) + Holds(loc'[p], file'[p], i)
        /\ HeldBy(loc, file, Procs, i) \in Nat /\ HeldBy(loc, file, Procs \ {p}, i) \in Nat
        /\ HeldBy(loc', file', Procs, i) \in Nat
    BY <2>5 DEF HeldParts
  <2>7. ref'[i] \in Nat /\ ref'[i] + Holds(loc[p], file[p], i) = ref[i] + Holds(loc'[p], file'[p], i)
    BY DEF Accounts
  <2>8. Holds(loc[p], file[p], i) \in Nat /\ Holds(loc'[p], file'[p], i) \in Nat
    BY HoldsType
  <2> QED BY <2>1, <2>2, <2>4, <2>6, <2>7, <2>8
<1> QED BY <1>1, <1>2, <1>3 DEF Base

(* A process between two operations has nothing to release. *)
LEMMA AtFacts ==
  ASSUME Base, NEW p \in Procs, loc[p].rel = <<>>
  PROVE  /\ WellFormed(loc[p], file[p]) /\ loc[p] \in Locs /\ file[p] \in Inodes \cup {None}
         /\ \A i : Puts(loc[p].rel, i) = 0 /\ Locks(loc[p].rel, i) = 0 /\ \A D : ~HeadIs(loc[p], D, i)
<1>1. WellFormed(loc[p], file[p]) /\ loc[p] \in Locs /\ file[p] \in Inodes \cup {None}
  BY LocType DEF Base, WFInv
<1> QED BY <1>1, RelEmpty DEF HeadIs

(* Only p moves, and what it becomes is a record. *)
Moves(p) ==
  /\ loc' = [q \in Procs |-> IF q = p THEN loc'[p] ELSE loc[q]]
  /\ loc'[p] = [pc |-> loc'[p].pc, call |-> loc'[p].call, rest |-> loc'[p].rest,
                new |-> loc'[p].new, cur |-> loc'[p].cur, dp |-> loc'[p].dp,
                ip |-> loc'[p].ip, rel |-> loc'[p].rel]

(* The types after a move. *)
LEMMA Moved ==
  ASSUME Base, NEW p \in Procs, Moves(p),
         loc'[p].pc \in PCs, loc'[p].call \in CallNames, loc'[p].rest \in Seq(Names),
         loc'[p].new \in Seq(Names), loc'[p].cur \in Inodes \cup {None},
         loc'[p].dp \in Inodes \cup {None}, loc'[p].ip \in Inodes \cup {None},
         loc'[p].rel \in Seq(Releases)
  PROVE  loc'[p] \in Locs /\ loc' \in [Procs -> Locs] /\ \A q \in Procs \ {p} : loc'[q] = loc[q]
<1>1. loc'[p] \in Locs
  BY DEF Locs, Moves
<1>2. loc \in [Procs -> Locs]
  BY DEF Base, TypeInv
<1>3. loc' = [q \in Procs |-> IF q = p THEN loc'[p] ELSE loc[q]]
  BY DEF Moves
<1>4. \A q \in Procs : loc'[q] \in Locs
  BY <1>1, <1>2, <1>3
<1> QED BY <1>1, <1>2, <1>3, <1>4

(* A step that takes a reference to x, if any, and locks y, if any. *)
Igets(x) == ref' \in [Inodes -> Nat] /\ \A j \in Inodes : ref'[j] = ref[j] + One(x = j)
Ilocks(p, y) ==
  /\ busy' \in [Inodes -> Procs \cup {Nobody}]
  /\ \A j \in Inodes : busy'[j] = IF y = j THEN p ELSE busy[j]
  /\ y \in Inodes => busy[y] = Nobody
  /\ valid' \in [Inodes -> BOOLEAN] /\ \A j \in Inodes : valid'[j] <=> valid[j] \/ y = j

(* No iget(). *)
LEMMA IgetNone == ASSUME Base, ref' = ref PROVE Igets(None)
BY Constants DEF Igets, Base, TypeInv, One, None, Inodes

(* An iget(). *)
LEMMA IgetSome == ASSUME Base, NEW x \in Inodes, iget(x) PROVE Igets(x)
<1>1. ref \in [Inodes -> Nat] /\ ref' = [ref EXCEPT ![x] = @ + 1]
  BY DEF Base, TypeInv, iget
<1>2. ref' \in [Inodes -> Nat] /\ \A j \in Inodes : ref'[j] = ref[j] + IF x = j THEN 1 ELSE 0
  BY <1>1
<1> QED BY <1>2 DEF Igets, One

(* No ilock(). *)
LEMMA IlockNone == ASSUME Base, NEW p \in Procs, busy' = busy, valid' = valid
  PROVE  Ilocks(p, None)
BY Constants DEF Ilocks, Base, TypeInv

(* An ilock(). *)
LEMMA IlockSome == ASSUME Base, NEW p \in Procs, NEW y \in Inodes, ilock(p, y) PROVE Ilocks(p, y)
BY Constants DEF Ilocks, Base, TypeInv, ilock

(* A step with one iget() and one ilock() at most. *)
LEMMA Locally ==
  ASSUME Base, NEW p \in Procs, NEW x, NEW y, Igets(x), Ilocks(p, y),
         \A j \in Inodes : Holds(loc'[p], file'[p], j) = Holds(loc[p], file[p], j) + One(x = j),
         \A j \in Inodes : Claims(loc'[p], j) = Claims(loc[p], j) + One(y = j)
  PROVE  Accounts(p) /\ LocksMove(p)
<1>1. Accounts(p)
  <2>1. \A j \in Inodes : Holds(loc[p], file[p], j) \in Nat /\ One(x = j) \in Nat /\ ref[j] \in Nat
    BY HoldsType, OneNat DEF Base, TypeInv
  <2> QED BY <2>1 DEF Accounts, Igets
<1>2. ASSUME NEW j \in Inodes PROVE Claims(loc'[p], j) = One(busy'[j] = p)
  <2>1. Claims(loc[p], j) = One(busy[j] = p)
    BY DEF Base, LockInv
  <2>2. One(busy[j] = p) + One(y = j) = One(busy'[j] = p)
    BY Constants DEF One, Ilocks
  <2> QED BY <2>1, <2>2
<1>3. ASSUME NEW j \in Inodes, NEW q \in Procs \ {p} PROVE busy'[j] = q <=> busy[j] = q
  BY Constants DEF Ilocks
<1> QED BY <1>1, <1>2, <1>3 DEF LocksMove, Ilocks

(* A call that is over has only to release what it held and had locked. *)
LEMMA Returned ==
  ASSUME Base, NEW p \in Procs, NEW r \in Seq(Releases), Tidy(r), Return(p, r),
         file' \in [Procs -> Inodes \cup {None}], \A q \in Procs \ {p} : file'[q] = file[q],
         r # <<>> /\ Len(r) = 1 /\ r[1].do = "unlock" => r[1].ino = file'[p],
         ref' = ref, busy' = busy, valid' = valid,
         \A j \in Inodes : Holds(loc[p], file[p], j) = One(file'[p] = j) + Puts(r, j),
         \A j \in Inodes : Claims(loc[p], j) = Locks(r, j)
  PROVE  /\ Frame(p) /\ Accounts(p) /\ LocksMove(p)
         /\ loc'[p] = [Idle EXCEPT !.rel = r]
         /\ loc'[p].pc = "idle" /\ loc'[p].cur = None /\ loc'[p].dp = None /\ loc'[p].ip = None
         /\ loc'[p].rel = r
<1> DEFINE m == loc'[p]
<1>1. loc \in [Procs -> Locs] /\ loc' = [loc EXCEPT ![p] = [Idle EXCEPT !.rel = r]]
  BY DEF Base, TypeInv, Return
<1>2. m = [Idle EXCEPT !.rel = r]
  BY <1>1
<1>3. /\ m.pc = "idle" /\ m.call = "open" /\ m.rest = <<>> /\ m.new = <<>>
      /\ m.cur = None /\ m.dp = None /\ m.ip = None /\ m.rel = r
  BY <1>2 DEF Idle
<1>4. Moves(p)
  <2>1. loc' = [q \in Procs |-> IF q = p THEN loc'[p] ELSE loc[q]]
    BY <1>1
  <2>2. m = [pc |-> m.pc, call |-> m.call, rest |-> m.rest, new |-> m.new, cur |-> m.cur,
             dp |-> m.dp, ip |-> m.ip, rel |-> m.rel]
    BY <1>2 DEF Idle
  <2> QED BY <2>1, <2>2 DEF Moves
<1>5. m \in Locs /\ loc' \in [Procs -> Locs] /\ \A q \in Procs \ {p} : loc'[q] = loc[q]
  <2>1. m.pc \in PCs /\ m.call \in CallNames /\ m.rest \in Seq(Names) /\ m.new \in Seq(Names)
    BY <1>3 DEF PCs, CallNames
  <2> HIDE DEF m
  <2> QED BY <1>3, <1>4, <2>1, Moved DEF m
<1>6. \A j \in Inodes : Holds(m, file'[p], j) = One(file'[p] = j) + Puts(r, j)
  <2> SUFFICES ASSUME NEW j \in Inodes PROVE Holds(m, file'[p], j) = One(file'[p] = j) + Puts(r, j)
    OBVIOUS
  <2>1. One(m.cur = j) = 0 /\ One(m.dp = j) = 0 /\ One(m.ip = j) = 0
    BY <1>3, Constants DEF One
  <2>2. One(file'[p] = j) \in Nat /\ Puts(r, j) \in Nat
    BY OneNat, CountType DEF Puts
  <2> QED BY <1>3, <2>1, <2>2 DEF Holds
<1>7. \A j \in Inodes : Claims(m, j) = Locks(r, j)
  <2> SUFFICES ASSUME NEW j \in Inodes PROVE Claims(m, j) = Locks(r, j)
    OBVIOUS
  <2>1. One(m.pc = "walked" /\ m.cur = j) = 0 /\ One(m.pc \in DpLocked /\ m.dp = j) = 0
        /\ One(m.pc \in IpLocked /\ m.ip = j) = 0
    BY <1>3, Constants DEF One
  <2>2. Locks(r, j) \in Nat
    BY CountType DEF Locks
  <2> QED BY <1>3, <2>1, <2>2 DEF Claims
<1>8. Accounts(p) /\ LocksMove(p)
  <2>1. \A j \in Inodes : Holds(loc'[p], file'[p], j) = Holds(loc[p], file[p], j) + One(None = j)
    BY <1>6, HoldsType, Constants DEF One
  <2>2. \A j \in Inodes : Claims(loc'[p], j) = Claims(loc[p], j) + One(None = j)
    BY <1>7, ClaimsType, Constants DEF One
  <2> QED BY <2>1, <2>2, IgetNone, IlockNone, Locally
<1>9. WellFormed(m, file'[p])
  <2>1. /\ m.pc \notin DpLocked /\ m.pc \notin IpPcs /\ m.pc \notin NewPcs /\ m.pc \in RelPcs
    BY <1>3 DEF DpLocked, IpLocked, IpPcs, NewPcs, RelPcs
  <2>2. Len(r) = 1 /\ r[1].do = "unlock" => Holds(m, file'[p], r[1].ino) >= 1
    <3>1. SUFFICES ASSUME Len(r) = 1, r[1].do = "unlock" PROVE Holds(m, file'[p], r[1].ino) >= 1
      OBVIOUS
    <3>2. r # <<>>
      BY <3>1, RelEmpty
    <3>3. r[1].ino = file'[p] /\ r[1].ino \in Inodes
      <4>1. r[1] \in Releases
        BY <3>2, RelTail
      <4> QED BY <3>1, <3>2, <4>1 DEF Releases
    <3>4. One(file'[p] = r[1].ino) = 1 /\ Puts(r, r[1].ino) \in Nat
      BY <3>3, CountType DEF One, Puts
    <3> QED BY <1>6, <3>3, <3>4
  <2> QED BY <1>3, <2>1, <2>2 DEF WellFormed
<1> QED BY <1>2, <1>3, <1>5, <1>8, <1>9 DEF Frame

-----------------------------------------------------------------------------
(* The inductive invariant. *)
Inv == Base /\ NonFree /\ PrivateInv /\ DoneInv /\ NamesInv /\ KindInv /\ CountInv
       /\ DirOnce /\ StraysInv /\ Doomed /\ ValidInv /\ DotsInv

(* What a step of p has to obey to preserve what the other processes rely *)
(* on: new references only to inodes that have a name or are new, no type *)
(* changed that somebody else has looked at, nothing written but what p   *)
(* holds, and entries only under the lock.                                *)
Gains(p) == \A i \in Inodes : ref'[i] > ref[i] =>
  i = ROOTINO \/ Named(i)
  \/ (type[i] = "free" /\ type'[i] # "free" /\ loc'[p].pc = "c_lock" /\ loc'[p].ip = i)

Ends(p) == \A i \in Inodes :
  HeadIs(loc[p], {"done"}, i) => Holds(loc'[p], file'[p], i) = 0

Types(p) == \A i \in Inodes : type'[i] # type[i] =>
  /\ \A q \in Procs \ {p} : loc[q].cur # i /\ loc[q].dp # i /\ loc[q].ip # i
  /\ type[i] = "free" => loc'[p].pc = "c_lock" /\ loc'[p].ip = i
  /\ type'[i] = "free" => /\ HeadIs(loc'[p], {"done"}, i)
                          /\ \A q \in Procs \ {p} : Holds(loc[q], file[q], i) = 0

Touches(p) == \A i \in Inodes :
  /\ nlink'[i] # nlink[i] \/ entry'[i] # entry[i] \/ dots'[i] # dots[i] \/ (Named(i)' /\ ~Named(i)) =>
       Holds(loc[p], file[p], i) >= 1 /\ loc[p].pc # "c_lock" /\ ~HeadIs(loc[p], {"done"}, i)
  /\ entry'[i] # entry[i] => busy[i] = p

Waits(p) == loc[p].pc = "c_lock" => busy[loc[p].ip] = Nobody

PrivateOwn(l, f, i) ==
  /\ Holds(l, f, i) = 1 /\ i # ROOTINO /\ ~Named(i)
  /\ HeadIs(l, {"trunc", "free"}, i) \/ (l.pc \in {"c_lock", "c_init"} /\ l.ip = i) => nlink[i] = 0
  /\ HeadIs(l, {"free"}, i) \/ l.ip = i => entry[i] = NoEntries

Fresh(p) == \A i \in Inodes :
  /\ Private(loc'[p], i) =>
       /\ PrivateOwn(loc[p], file[p], i)'
       /\ \/ Private(loc[p], i)
          \/ type[i] = "free" /\ loc'[p].pc = "c_lock" /\ loc'[p].ip = i
          \/ \A q \in Procs \ {p} : Holds(loc[q], file[q], i) = 0
  /\ HeadIs(loc'[p], {"done"}, i) => type'[i] = "free"

DotsOwn(p) ==
  /\ dots' \in [Inodes -> Seq(Inodes)]
  /\ \A i \in Inodes :
       /\ Len(dots'[i]) <= 2
       /\ type'[i] = "free" => dots'[i] = <<>>
       /\ HeadIs(loc'[p], {"free"}, i) => dots'[i] = <<>>
       /\ loc'[p].pc \in {"c_lock", "c_init", "c_dots", "c_dot"} /\ loc'[p].ip = i => dots'[i] = <<>>
       /\ loc'[p].pc = "c_dotdot" /\ loc'[p].ip = i => Len(dots'[i]) = 1

Good(p) ==
  /\ TypeInv' /\ Frame(p) /\ Accounts(p) /\ LocksMove(p)
  /\ Gains(p) /\ Ends(p) /\ Types(p) /\ Touches(p) /\ Waits(p) /\ Fresh(p) /\ DotsOwn(p)
  /\ (Kind(loc[p]) /\ Look(loc[p]))'
  /\ NamesInv' /\ CountInv' /\ DirOnce' /\ StraysInv' /\ Doomed' /\ ValidInv'

(* The other processes do not move. *)
LEMMA FrameFacts ==
  ASSUME NEW p \in Procs, Frame(p), NEW q \in Procs \ {p}
  PROVE  /\ loc'[q] = loc[q] /\ file'[q] = file[q]
         /\ \A i : Holds(loc'[q], file'[q], i) = Holds(loc[q], file[q], i)
         /\ \A D, i : HeadIs(loc'[q], D, i) <=> HeadIs(loc[q], D, i)
         /\ \A i : Private(loc'[q], i) <=> Private(loc[q], i)
BY DEF Frame

(* A new reference adds to ref. *)
LEMMA HeldGain ==
  ASSUME Base, NEW p \in Procs, Accounts(p), NEW i \in Inodes,
         Holds(loc'[p], file'[p], i) >= 1
  PROVE  Holds(loc[p], file[p], i) >= 1 \/ ref'[i] > ref[i]
<1>1. Holds(loc[p], file[p], i) \in Nat /\ Holds(loc'[p], file'[p], i) \in Nat
  BY HoldsType
<1>2. ref'[i] \in Nat /\ ref[i] \in Nat
      /\ ref'[i] + Holds(loc[p], file[p], i) = ref[i] + Holds(loc'[p], file'[p], i)
  BY DEF Accounts, Base, TypeInv
<1> QED BY <1>1, <1>2

(* One conjunct of the invariant after the other: nobody holds a free *)
(* inode,                                                             *)
LEMMA NonFreeStep == ASSUME Inv, NEW p \in Procs, Good(p) PROVE NonFree'
<1> SUFFICES ASSUME NEW q \in Procs, NEW i \in Inodes,
                    Holds(loc'[q], file'[q], i) >= 1, type'[i] = "free"
             PROVE  HeadIs(loc'[q], {"done"}, i)
  BY DEF NonFree
<1>1. CASE q # p
  <2>1. Holds(loc[q], file[q], i) >= 1 /\ (HeadIs(loc'[q], {"done"}, i) <=> HeadIs(loc[q], {"done"}, i))
    BY <1>1, FrameFacts DEF Good
  <2>2. type[i] = "free"
    <3>1. type[i] # "free" => Holds(loc[q], file[q], i) = 0
      BY <1>1 DEF Good, Types
    <3> QED BY <2>1, <3>1
  <2> QED BY <2>1, <2>2 DEF Inv, NonFree
<1>2. CASE q = p
  <2>1. CASE type[i] # "free"
    BY <1>2, <2>1 DEF Good, Types
  <2>2. CASE type[i] = "free"
    <3>1. CASE Holds(loc[p], file[p], i) >= 1
      <4>1. HeadIs(loc[p], {"done"}, i)
        BY <2>2, <3>1 DEF Inv, NonFree
      <4>2. Holds(loc'[p], file'[p], i) = 0
        BY <4>1 DEF Good, Ends
      <4> QED BY <1>2, <4>2
    <3>2. CASE ref'[i] > ref[i]
      <4>1. i = ROOTINO \/ Named(i)
        BY <3>2 DEF Good, Gains
      <4>2. i # ROOTINO
        BY <2>2 DEF Inv, NamesInv
      <4>3. ~Named(i)
        <5>1. ASSUME NEW d \in Inodes, NEW n \in Names, entry[d][n] = i PROVE FALSE
          BY <2>2, <5>1, Constants DEF Inv, NamesInv
        <5> QED BY <5>1 DEF Named
      <4> QED BY <4>1, <4>2, <4>3
    <3> QED BY <1>2, <3>1, <3>2, HeldGain DEF Inv, Good
  <2> QED BY <2>1, <2>2
<1> QED BY <1>1, <1>2

(* Who else holds a private inode waits for its lock, or has freed it. *)
LEMMA Excluded ==
  ASSUME Inv, NEW p \in Procs, Waits(p), NEW q \in Procs \ {p}, NEW i \in Inodes,
         Private(loc[q], i), Holds(loc[p], file[p], i) >= 1
  PROVE  HeadIs(loc[p], {"done"}, i)
<1>1. Pair(q, p, i) \/ Pair(p, q, i)
  BY DEF Inv, PrivateInv
<1>2. CASE Pair(p, q, i)
  BY <1>2 DEF Pair
<1>3. CASE Pair(q, p, i)
  <2>1. HeadIs(loc[q], {"done"}, i) /\ loc[p].pc = "c_lock" /\ loc[p].ip = i
    BY <1>3 DEF Pair
  <2>2. busy[i] = Nobody
    BY <2>1 DEF Waits
  <2>3. Claims(loc[q], i) >= 1
    <3>1. loc[q].rel \in Seq(Releases) /\ loc[q].rel # <<>> /\ loc[q].rel[1].do \in Last \cup {"unlock"}
          /\ loc[q].rel[1].ino = i
      BY <2>1, LocType DEF Inv, Base, HeadIs, Last
    <3>2. 1 \in 1..4 /\ 1 <= Len(loc[q].rel)
      <4>1. Len(loc[q].rel) \in Nat /\ Len(loc[q].rel) # 0
        BY <3>1, LenProperties, EmptySeq
      <4> QED BY <4>1
    <3>3. Locks(loc[q].rel, i) >= 1
      BY <3>1, <3>2, CountSome DEF Locks
    <3>4. /\ One(loc[q].pc = "walked" /\ loc[q].cur = i) \in Nat
          /\ One(loc[q].pc \in DpLocked /\ loc[q].dp = i) \in Nat
          /\ One(loc[q].pc \in IpLocked /\ loc[q].ip = i) \in Nat /\ Locks(loc[q].rel, i) \in Nat
      BY OneNat, CountType DEF Locks
    <3> QED BY <3>3, <3>4 DEF Claims
  <2>4. busy[i] = q
    BY <2>3, Owner DEF Inv
  <2> QED BY <2>2, <2>4, Constants
<1> QED BY <1>1, <1>2, <1>3

(* private inodes stay private, *)
LEMMA PrivateStep == ASSUME Inv, NEW p \in Procs, Good(p) PROVE PrivateInv'
<1> USE DEF Good
<1> SUFFICES ASSUME NEW q \in Procs, NEW i \in Inodes, Private(loc'[q], i)
             PROVE  /\ PrivateOwn(loc[q], file[q], i)'
                    /\ \A r \in Procs \ {q} : Holds(loc'[r], file'[r], i) >= 1 => Pair(q, r, i)' \/ Pair(r, q, i)'
  BY DEF PrivateInv, PrivateOwn
<1>1. CASE q # p
  <2>1. /\ Private(loc[q], i) /\ loc'[q] = loc[q] /\ file'[q] = file[q]
        /\ Holds(loc'[q], file'[q], i) = Holds(loc[q], file[q], i)
    BY <1>1, FrameFacts
  <2>2. /\ Holds(loc[q], file[q], i) = 1 /\ i # ROOTINO /\ ~Named(i)
        /\ HeadIs(loc[q], {"trunc", "free"}, i) \/ (loc[q].pc \in {"c_lock", "c_init"} /\ loc[q].ip = i) => nlink[i] = 0
        /\ HeadIs(loc[q], {"free"}, i) \/ loc[q].ip = i => entry[i] = NoEntries
    BY <2>1 DEF Inv, PrivateInv
  <2>3. Holds(loc[p], file[p], i) >= 1 => HeadIs(loc[p], {"done"}, i)
    BY <1>1, <2>1, Excluded
  <2>4. nlink'[i] = nlink[i] /\ entry'[i] = entry[i] /\ ~Named(i)'
    BY <2>2, <2>3 DEF Touches
  <2>5. PrivateOwn(loc[q], file[q], i)'
    BY <2>1, <2>2, <2>4 DEF PrivateOwn
  <2>6. ASSUME NEW r \in Procs \ {q}, Holds(loc'[r], file'[r], i) >= 1
        PROVE  Pair(q, r, i)' \/ Pair(r, q, i)'
    <3>1. CASE r # p
      <4>1. loc'[r] = loc[r] /\ Holds(loc[r], file[r], i) >= 1
        BY <2>6, <3>1, FrameFacts
      <4>2. Pair(q, r, i) \/ Pair(r, q, i)
        BY <2>1, <4>1 DEF Inv, PrivateInv
      <4> QED BY <2>1, <4>1, <4>2 DEF Pair
    <3>2. CASE r = p
      <4>1. CASE Holds(loc[p], file[p], i) >= 1
        <5>1. Holds(loc'[p], file'[p], i) = 0
          BY <2>3, <4>1 DEF Ends
        <5> QED BY <2>6, <3>2, <5>1
      <4>2. CASE ref'[i] > ref[i]
        <5>1. type[i] = "free" /\ loc'[p].pc = "c_lock" /\ loc'[p].ip = i
          BY <2>2, <4>2 DEF Gains
        <5>2. HeadIs(loc[q], {"done"}, i)
          BY <2>2, <5>1 DEF Inv, NonFree
        <5> QED BY <2>1, <3>2, <5>1, <5>2 DEF Pair
      <4> QED BY <2>6, <3>2, <4>1, <4>2, HeldGain DEF Inv
    <3> QED BY <3>1, <3>2
  <2> QED BY <2>5, <2>6
<1>2. CASE q = p
  <2>1. /\ PrivateOwn(loc[p], file[p], i)'
        /\ \/ Private(loc[p], i)
           \/ type[i] = "free" /\ loc'[p].pc = "c_lock" /\ loc'[p].ip = i
           \/ \A r \in Procs \ {p} : Holds(loc[r], file[r], i) = 0
    BY <1>2 DEF Fresh
  <2>2. ASSUME NEW r \in Procs \ {p}, Holds(loc'[r], file'[r], i) >= 1
        PROVE  Pair(p, r, i)' \/ Pair(r, p, i)'
    <3>1. loc'[r] = loc[r] /\ Holds(loc[r], file[r], i) >= 1
      BY <2>2, FrameFacts
    <3>2. CASE Private(loc[p], i)
      <4>1. Pair(p, r, i) \/ Pair(r, p, i)
        BY <3>1, <3>2 DEF Inv, PrivateInv
      <4>2. CASE Pair(p, r, i)
        <5>1. Holds(loc'[p], file'[p], i) = 0
          BY <4>2 DEF Ends, Pair
        <5> QED BY <2>1, <5>1 DEF PrivateOwn
      <4>3. CASE Pair(r, p, i)
        <5>1. Private(loc[r], i) /\ ~Pair(p, r, i) => HeadIs(loc[p], {"done"}, i)
          <6>1. Holds(loc[p], file[p], i) >= 1
            BY <3>2 DEF Inv, PrivateInv
          <6> QED BY <6>1, Excluded
        <5>2. Private(loc[r], i)
          BY <4>3 DEF Pair, Private, HeadIs, Last
        <5>3. ~HeadIs(loc[p], {"done"}, i)
          <6>1. WellFormed(loc[p], file[p]) /\ loc[p].pc = "c_lock"
            BY <4>3 DEF Inv, Base, WFInv, Pair
          <6> QED BY <6>1 DEF WellFormed, RelPcs, HeadIs
        <5> QED BY <4>2, <5>1, <5>2, <5>3
      <4> QED BY <4>1, <4>2, <4>3
    <3>3. CASE type[i] = "free" /\ loc'[p].pc = "c_lock" /\ loc'[p].ip = i
      <4>1. HeadIs(loc[r], {"done"}, i)
        BY <3>1, <3>3 DEF Inv, NonFree
      <4> QED BY <3>1, <3>3, <4>1 DEF Pair
    <3>4. CASE \A s \in Procs \ {p} : Holds(loc[s], file[s], i) = 0
      BY <3>1, <3>4
    <3> QED BY <2>1, <3>2, <3>3, <3>4
  <2> QED BY <1>2, <2>1, <2>2
<1> QED BY <1>1, <1>2

(* a freed inode in use again is about to be locked, *)
LEMMA DoneStep == ASSUME Inv, NEW p \in Procs, Good(p) PROVE DoneInv'
<1> USE DEF Good
<1> SUFFICES ASSUME NEW q \in Procs, NEW i \in Inodes, HeadIs(loc'[q], {"done"}, i), type'[i] # "free"
             PROVE  \E r \in Procs : Pair(q, r, i)'
  BY DEF DoneInv
<1>1. CASE q = p
  BY <1>1 DEF Fresh
<1>2. CASE q # p
  <2>1. loc'[q] = loc[q] /\ HeadIs(loc[q], {"done"}, i)
    BY <1>2, FrameFacts
  <2>2. CASE type[i] = "free"
    <3>1. loc'[p].pc = "c_lock" /\ loc'[p].ip = i
      BY <2>2 DEF Types
    <3> QED BY <2>1, <3>1 DEF Pair
  <2>3. CASE type[i] # "free"
    <3>1. PICK r \in Procs : Pair(q, r, i)
      BY <2>1, <2>3 DEF Inv, DoneInv
    <3>2. CASE r # p
      <4>1. loc'[r] = loc[r]
        BY <3>2, FrameFacts
      <4> QED BY <2>1, <3>1, <4>1 DEF Pair
    <3>3. CASE r = p
      <4>1. Private(loc[q], i) /\ Private(loc[p], i)
        BY <2>1, <3>1, <3>3 DEF Pair, Private, HeadIs, Last, NewPcs
      <4>2. Holds(loc[p], file[p], i) >= 1
        BY <4>1 DEF Inv, PrivateInv
      <4>3. HeadIs(loc[p], {"done"}, i)
        BY <1>2, <4>1, <4>2, Excluded
      <4>4. WellFormed(loc[p], file[p]) /\ loc[p].pc = "c_lock"
        BY <3>1, <3>3 DEF Inv, Base, WFInv, Pair
      <4> QED BY <4>3, <4>4 DEF WellFormed, RelPcs, HeadIs
    <3> QED BY <3>2, <3>3
  <2> QED BY <2>2, <2>3
<1> QED BY <1>1, <1>2

(* what the others have checked still holds, *)
LEMMA KindStep == ASSUME Inv, NEW p \in Procs, Good(p) PROVE KindInv'
<1> USE DEF Good
<1> SUFFICES ASSUME NEW q \in Procs PROVE (Kind(loc[q]) /\ Look(loc[q]))'
  BY DEF KindInv
<1>1. CASE q = p
  BY <1>1
<1>2. CASE q # p
  <2>1. loc'[q] = loc[q] /\ Kind(loc[q]) /\ Look(loc[q])
    BY <1>2, FrameFacts DEF Inv, KindInv
  <2>2. /\ loc[q].cur \in Inodes \cup {None} /\ loc[q].dp \in Inodes \cup {None}
        /\ loc[q].ip \in Inodes \cup {None} /\ WellFormed(loc[q], file[q])
    BY LocType DEF Inv, Base, WFInv
  <2>3. \A i \in Inodes : loc[q].cur = i \/ loc[q].dp = i \/ loc[q].ip = i => type'[i] = type[i]
    BY <1>2 DEF Types
  <2>4. Kind(loc[q])'
    <3>1. /\ loc[q].dp # None => type'[loc[q].dp] = type[loc[q].dp]
          /\ loc[q].cur # None => type'[loc[q].cur] = type[loc[q].cur]
          /\ loc[q].ip # None => type'[loc[q].ip] = type[loc[q].ip]
      BY <2>2, <2>3
    <3>2. /\ loc[q].pc = "got" => loc[q].cur # None
          /\ loc[q].pc \in NewPcs => loc[q].ip # None
      BY <2>2 DEF WellFormed, IpPcs, IpLocked, NewPcs
    <3> QED BY <2>1, <3>1, <3>2 DEF Kind
  <2>5. Look(loc[q])'
    <3>1. ASSUME loc[q].pc \in DpLocked PROVE entry'[loc[q].dp] = entry[loc[q].dp]
      <4>1. loc[q].dp \in Inodes
        BY <2>2, <3>1 DEF WellFormed
      <4>2. One(loc[q].pc \in DpLocked /\ loc[q].dp = loc[q].dp) = 1
        BY <3>1 DEF One
      <4>3. Claims(loc[q], loc[q].dp) >= 1
        <5>1. /\ One(loc[q].pc = "walked" /\ loc[q].cur = loc[q].dp) \in Nat
              /\ One(loc[q].pc \in IpLocked /\ loc[q].ip = loc[q].dp) \in Nat
              /\ Locks(loc[q].rel, loc[q].dp) \in Nat
          BY OneNat, CountType DEF Locks
        <5> QED BY <4>2, <5>1 DEF Claims
      <4>4. busy[loc[q].dp] = q
        BY <4>1, <4>3, Owner DEF Inv
      <4> QED BY <1>2, <4>1, <4>4 DEF Touches
    <3>2. NewPcs \subseteq DpLocked /\ {"u_lock", "u_check"} \subseteq DpLocked
      BY DEF DpLocked
    <3> QED BY <2>1, <3>1, <3>2 DEF Look
  <2> QED BY <2>4, <2>5
<1> QED BY <1>1, <1>2

(* "." and ".." of the directories in the making, *)
LEMMA DotsStep == ASSUME Inv, NEW p \in Procs, Good(p) PROVE DotsInv'
<1> USE DEF Good
<1>1. ASSUME NEW q \in Procs \ {p}, NEW i \in Inodes, Private(loc[q], i)
      PROVE  dots'[i] = dots[i]
  BY <1>1, Excluded DEF Touches
<1>2. ASSUME NEW q \in Procs \ {p}, NEW i \in Inodes
      PROVE  /\ HeadIs(loc'[q], {"free"}, i) => dots'[i] = <<>>
             /\ loc'[q].pc \in {"c_lock", "c_init", "c_dots", "c_dot"} /\ loc'[q].ip = i => dots'[i] = <<>>
             /\ loc'[q].pc = "c_dotdot" /\ loc'[q].ip = i => Len(dots'[i]) = 1
  <2>1. /\ loc'[q] = loc[q]
        /\ HeadIs(loc[q], {"free"}, i) => dots[i] = <<>>
        /\ loc[q].pc \in {"c_lock", "c_init", "c_dots", "c_dot"} /\ loc[q].ip = i => dots[i] = <<>>
        /\ loc[q].pc = "c_dotdot" /\ loc[q].ip = i => Len(dots[i]) = 1
    BY FrameFacts DEF Inv, DotsInv
  <2>2. /\ HeadIs(loc[q], {"free"}, i) => Private(loc[q], i)
        /\ loc[q].pc \in {"c_lock", "c_init", "c_dots", "c_dot", "c_dotdot"} /\ loc[q].ip = i => Private(loc[q], i)
    BY DEF Private, HeadIs, Last, NewPcs
  <2> QED BY <1>1, <2>1, <2>2
<1> QED BY <1>2 DEF DotsInv, DotsOwn

(* and all of it. *)
LEMMA GoodStep == ASSUME Inv, NEW p \in Procs, Good(p) PROVE Inv'
<1>1. Base'
  BY BaseStep DEF Inv, Good
<1> QED BY <1>1, NonFreeStep, PrivateStep, DoneStep, KindStep, DotsStep DEF Inv, Good

-----------------------------------------------------------------------------
(* The entries that name i, and the entries of a directory that name       *)
(* directories.                                                            *)
Entries(E, i) == {dn \in Inodes \X Names : E[dn[1]][dn[2]] = i}
Subs(e, T) == {n \in Names : e[n] # None /\ T[e[n]] = "dir"}

(* Links and Entries are the same set. *)
LinksAre == \A i \in Inodes : Links(i) = Entries(entry, i)
(* (Directories only have entries.) *)
LEMMA LinksEntries == TypeInv /\ NamesInv => LinksAre
<1> SUFFICES ASSUME TypeInv, NamesInv, NEW i \in Inodes PROVE Links(i) = Entries(entry, i)
  BY DEF LinksAre
<1>1. \A dn \in Inodes \X Names : entry[dn[1]][dn[2]] = i => type[dn[1]] = "dir"
  BY Constants DEF NamesInv
<1> QED BY <1>1 DEF Links, Entries

(* Subdirs and Subs are the same set. *)
LEMMA SubdirsSubs == \A i : Subdirs(i) = Subs(entry[i], type)
BY DEF Subdirs, Subs

(* (The sets counted are finite.) *)
LEMMA InodesFinite == IsFiniteSet(Inodes) /\ IsFiniteSet(Inodes \X Names)
<1>1. IsFiniteSet(Inodes)
  <2>1. PICK m, n \in Int : m = 1 /\ n = NINODES
    BY Constants
  <2>2. IsFiniteSet(m..n)
    BY FS_Interval
  <2> QED BY <2>1, <2>2 DEF Inodes
<1> QED BY <1>1, Constants, FS_Product

(* (The sets counted are finite.) *)
LEMMA CardOfTwo ==
  \A s, t, c \in Nat : \A x, y \in Nat : s = c + x /\ t = c + y => t + x = s + y
  OBVIOUS

(* Two sets that differ at most in x. *)
LEMMA DifferInOne ==
  ASSUME NEW S, NEW T, IsFiniteSet(S), NEW x, S \ {x} = T \ {x}
  PROVE  /\ IsFiniteSet(T) /\ Cardinality(S) \in Nat /\ Cardinality(T) \in Nat
         /\ Cardinality(T) + One(x \in S) = Cardinality(S) + One(x \in T)
<1>1. IsFiniteSet(S \ {x}) /\ Cardinality(S) \in Nat /\ Cardinality(S \ {x}) \in Nat
      /\ Cardinality(S) = Cardinality(S \ {x}) + One(x \in S)
  BY Without
<1>2. IsFiniteSet(T)
  <2>1. IsFiniteSet((S \ {x}) \cup {x})
    BY <1>1, FS_AddElement
  <2>2. T \subseteq (S \ {x}) \cup {x}
    OBVIOUS
  <2> QED BY <2>1, <2>2, FS_Subset
<1>3. Cardinality(T) \in Nat /\ Cardinality(T) = Cardinality(T \ {x}) + One(x \in T)
  BY <1>2, Without
<1>4. One(x \in S) \in Nat /\ One(x \in T) \in Nat
  BY OneNat
<1>5. PICK a, b, c, u, v \in Nat :
        /\ a = Cardinality(S) /\ b = Cardinality(T) /\ c = Cardinality(S \ {x})
        /\ u = One(x \in S) /\ v = One(x \in T)
  BY <1>1, <1>3, <1>4
<1>6. a = c + u
  BY <1>1, <1>5
<1>7. Cardinality(T \ {x}) = Cardinality(S \ {x})
  OBVIOUS
<1>8. b = c + v
  BY <1>3, <1>5, <1>7
<1>9. b + u = a + v
  BY <1>6, <1>8, CardOfTwo
<1> QED BY <1>2, <1>5, <1>9

(* (What is counted is a number.) *)
LEMMA EntriesType ==
  \A E, i : IsFiniteSet(Entries(E, i)) /\ Cardinality(Entries(E, i)) \in Nat
<1> SUFFICES ASSUME NEW E, NEW i PROVE IsFiniteSet(Entries(E, i)) /\ Cardinality(Entries(E, i)) \in Nat
  OBVIOUS
<1>1. IsFiniteSet(Entries(E, i))
  BY InodesFinite, FS_Subset DEF Entries
<1> QED BY <1>1, FS_CardinalityType

(* (What is counted is a number.) *)
LEMMA SubsType ==
  \A e, T : IsFiniteSet(Subs(e, T)) /\ Cardinality(Subs(e, T)) \in Nat
<1> SUFFICES ASSUME NEW e, NEW T PROVE IsFiniteSet(Subs(e, T)) /\ Cardinality(Subs(e, T)) \in Nat
  OBVIOUS
<1>1. IsFiniteSet(Subs(e, T))
  BY Constants, FS_Subset DEF Subs
<1> QED BY <1>1, FS_CardinalityType

(* Writing x into one entry. *)
EntryCounted(F, E, d, n, x, i) ==
  Cardinality(Entries(F, i)) + One(E[d][n] = i) = Cardinality(Entries(E, i)) + One(x = i)
(* Writing an entry moves one name from the old inode to the new one, *)
LEMMA EntryWritten ==
  ASSUME NEW E \in [Inodes -> [Names -> Inodes \cup {None}]], NEW d \in Inodes, NEW n \in Names,
         NEW x, NEW i, NEW E2, E2[d][n] = x,
         \A e \in Inodes, k \in Names : e # d \/ k # n => E2[e][k] = E[e][k]
  PROVE  EntryCounted(E2, E, d, n, x, i)
<1> DEFINE S == Entries(E, i)
           T == Entries(E2, i)
           y == <<d, n>>
<1>1. S \ {y} = T \ {y}
  <2>1. ASSUME NEW dn \in Inodes \X Names, dn # y PROVE E2[dn[1]][dn[2]] = E[dn[1]][dn[2]]
    <3>1. dn = <<dn[1], dn[2]>> /\ dn[1] \in Inodes /\ dn[2] \in Names
      OBVIOUS
    <3>2. dn[1] # d \/ dn[2] # n
      BY <2>1, <3>1
    <3> QED BY <3>1, <3>2
  <2> HIDE DEF y
  <2> QED BY <2>1 DEF Entries
<1>2. (y \in S <=> E[d][n] = i) /\ (y \in T <=> x = i)
  <2>1. E2[d][n] = x
    OBVIOUS
  <2> QED BY <2>1 DEF Entries
<1>3. IsFiniteSet(S)
  BY EntriesType
<1>4. One(y \in S) = One(E[d][n] = i) /\ One(y \in T) = One(x = i)
  BY <1>2 DEF One
<1> HIDE DEF S, T, y
<1>5. Cardinality(T) + One(y \in S) = Cardinality(S) + One(y \in T)
  BY <1>1, <1>3, DifferInOne
<1>6. Cardinality(T) + One(E[d][n] = i) = Cardinality(S) + One(x = i)
  BY <1>4, <1>5
<1> QED BY <1>6 DEF S, T, EntryCounted

(* and one subdirectory. *)
LEMMA SubWritten ==
  ASSUME NEW e \in [Names -> Inodes \cup {None}], NEW n \in Names, NEW x, NEW T
  PROVE  LET e2 == [e EXCEPT ![n] = x]
         IN Cardinality(Subs(e2, T)) + One(e[n] # None /\ T[e[n]] = "dir")
              = Cardinality(Subs(e, T)) + One(x # None /\ T[x] = "dir")
<1> DEFINE e2 == [e EXCEPT ![n] = x]
           S == Subs(e, T)
           U == Subs(e2, T)
<1>1. S \ {n} = U \ {n}
  <2>1. \A k \in Names : k # n => e2[k] = e[k]
    OBVIOUS
  <2> HIDE DEF e2
  <2> QED BY <2>1 DEF Subs
<1>2. (n \in S <=> e[n] # None /\ T[e[n]] = "dir") /\ (n \in U <=> x # None /\ T[x] = "dir")
  <2>1. e2[n] = x
    OBVIOUS
  <2> HIDE DEF e2
  <2> QED BY <2>1 DEF Subs
<1>3. IsFiniteSet(S)
  BY SubsType
<1>4. One(n \in S) = One(e[n] # None /\ T[e[n]] = "dir") /\ One(n \in U) = One(x # None /\ T[x] = "dir")
  BY <1>2 DEF One
<1> HIDE DEF S, U
<1>5. Cardinality(U) + One(n \in S) = Cardinality(S) + One(n \in U)
  BY <1>1, <1>3, DifferInOne
<1>6. Cardinality(U) + One(e[n] # None /\ T[e[n]] = "dir") = Cardinality(S) + One(x # None /\ T[x] = "dir")
  BY <1>4, <1>5
<1> QED BY <1>6 DEF S, U

(* The links that calls are about to count or to enter. *)
LEMMA PendStep ==
  ASSUME Inv, NEW p \in Procs, Frame(p), Types(p), NEW i \in Inodes
  PROVE  /\ Pending(i) \in Nat /\ Pending(i)' \in Nat
         /\ PendingDp(i) \in Nat /\ PendingDp(i)' \in Nat
         /\ Pending(i)' + One(PendIp(loc[p], i)) = Pending(i) + One(PendIp(loc'[p], i))
         /\ PendingDp(i)' + One(PendDp(loc[p], i)) = PendingDp(i) + One(PendDp(loc[p], i)')
<1> DEFINE S == {q \in Procs : PendIp(loc[q], i)}
           T == {q \in Procs : PendIp(loc'[q], i)}
           U == {q \in Procs : PendDp(loc[q], i)}
           V == {q \in Procs : PendDp(loc[q], i)'}
<1>1. IsFiniteSet(S) /\ IsFiniteSet(U)
  BY Constants, FS_Subset
<1>2. \A q \in Procs \ {p} : loc'[q] = loc[q]
  BY DEF Frame
<1>3. S \ {p} = T \ {p}
  BY <1>2
<1>4. ASSUME NEW q \in Procs \ {p} PROVE PendDp(loc[q], i)' <=> PendDp(loc[q], i)
  <2>1. loc[q].pc = "u_parent" => type'[loc[q].ip] = type[loc[q].ip]
    <3>1. WellFormed(loc[q], file[q]) /\ loc[q].ip \in Inodes \cup {None}
      BY LocType DEF Inv, Base, WFInv
    <3>2. loc[q].pc = "u_parent" => loc[q].ip \in Inodes
      BY <3>1 DEF WellFormed, IpPcs, IpLocked
    <3> QED BY <3>2 DEF Types
  <2> QED BY <1>2, <2>1 DEF PendDp
<1>5. U \ {p} = V \ {p}
  BY <1>4
<1>6. /\ p \in S <=> PendIp(loc[p], i)
      /\ p \in T <=> PendIp(loc'[p], i)
      /\ p \in U <=> PendDp(loc[p], i)
      /\ p \in V <=> PendDp(loc[p], i)'
  OBVIOUS
<1>7. /\ Pending(i) = Cardinality(S) /\ Pending(i)' = Cardinality(T)
      /\ PendingDp(i) = Cardinality(U) /\ PendingDp(i)' = Cardinality(V)
  BY DEF Pending, PendingDp
<1>8. /\ One(p \in S) = One(PendIp(loc[p], i)) /\ One(p \in T) = One(PendIp(loc'[p], i))
      /\ One(p \in U) = One(PendDp(loc[p], i)) /\ One(p \in V) = One(PendDp(loc[p], i)')
  BY <1>6 DEF One
<1> HIDE DEF S, T, U, V
<1>9. /\ Cardinality(S) \in Nat /\ Cardinality(T) \in Nat
      /\ Cardinality(T) + One(p \in S) = Cardinality(S) + One(p \in T)
  BY <1>1, <1>3, DifferInOne
<1>10. /\ Cardinality(U) \in Nat /\ Cardinality(V) \in Nat
       /\ Cardinality(V) + One(p \in U) = Cardinality(U) + One(p \in V)
  BY <1>1, <1>5, DifferInOne
<1> QED BY <1>7, <1>8, <1>9, <1>10

-----------------------------------------------------------------------------
(* What a step does to the links of i and to what is counted for them. *)
Had(p, i) == Cardinality(Entries(entry, i)) + Cardinality(Subs(entry[i], type))
             + One(PendIp(loc[p], i)) + One(PendDp(loc[p], i))
HasNow(p, i) == Cardinality(Entries(entry', i)) + Cardinality(Subs(entry'[i], type'))
             + One(PendIp(loc'[p], i)) + One(PendDp(loc[p], i)')

(* (Sums, for the steps that count.) *)
LEMMA CountArith ==
  \A e, s, a, b, r, e2, s2, a2, b2, n, n2 \in Nat : \A x, y, x2, y2 \in Nat :
    a2 + x = a + x2 /\ b2 + y = b + y2 =>
      /\ n2 + (e + s + x + y) >= n + (e2 + s2 + x2 + y2) /\ n >= e + s + a + b + r
            => n2 >= e2 + s2 + a2 + b2 + r
      /\ n2 + (e + s + x + y) = n + (e2 + s2 + x2 + y2) /\ n = e + s + a + b + r
            => n2 = e2 + s2 + a2 + b2 + r
  OBVIOUS

(* The links counted stay exact if the step counts what it changes. *)
LEMMA CountStep ==
  ASSUME Inv, NEW p \in Procs, Frame(p), Types(p), TypeInv', NamesInv',
         damaged' = damaged, strays \subseteq strays',
         \A i \in Inodes : /\ nlink'[i] + Had(p, i) >= nlink[i] + HasNow(p, i)
                           /\ i \notin strays' => nlink'[i] + Had(p, i) = nlink[i] + HasNow(p, i)
  PROVE  CountInv'
<1> SUFFICES ASSUME NEW i \in Inodes
             PROVE  /\ nlink'[i] >= Count(i)'
                    /\ i \notin strays' \cup damaged' => nlink'[i] = Count(i)'
  BY DEF CountInv
<1>1. /\ Pending(i) \in Nat /\ Pending(i)' \in Nat
      /\ PendingDp(i) \in Nat /\ PendingDp(i)' \in Nat
      /\ Pending(i)' + One(PendIp(loc[p], i)) = Pending(i) + One(PendIp(loc'[p], i))
      /\ PendingDp(i)' + One(PendDp(loc[p], i)) = PendingDp(i) + One(PendDp(loc[p], i)')
  BY PendStep
<1>2. LinksAre /\ LinksAre'
  <2>1. TypeInv' /\ NamesInv' => LinksAre'
    BY LinksEntries, PTL
  <2> QED BY <2>1, LinksEntries DEF Inv, Base
<1>3. /\ Count(i) = Cardinality(Entries(entry, i)) + Cardinality(Subs(entry[i], type))
                    + Pending(i) + PendingDp(i) + One(i = ROOTINO)
      /\ Count(i)' = Cardinality(Entries(entry', i)) + Cardinality(Subs(entry'[i], type'))
                    + Pending(i)' + PendingDp(i)' + One(i = ROOTINO)
  <2>1. Links(i) = Entries(entry, i) /\ Links(i)' = Entries(entry', i)
    BY <1>2 DEF LinksAre
  <2>2. Subdirs(i) = Subs(entry[i], type) /\ Subdirs(i)' = Subs(entry'[i], type')
    BY DEF Subdirs, Subs
  <2> QED BY <2>1, <2>2 DEF Count
<1>4. PICK e, s, a, b, r, e2, s2, a2, b2, n, n2 \in Nat, x, y, x2, y2 \in Nat :
        /\ e = Cardinality(Entries(entry, i)) /\ e2 = Cardinality(Entries(entry', i))
        /\ s = Cardinality(Subs(entry[i], type)) /\ s2 = Cardinality(Subs(entry'[i], type'))
        /\ a = Pending(i) /\ a2 = Pending(i)' /\ b = PendingDp(i) /\ b2 = PendingDp(i)'
        /\ r = One(i = ROOTINO) /\ n = nlink[i] /\ n2 = nlink'[i]
        /\ x = One(PendIp(loc[p], i)) /\ x2 = One(PendIp(loc'[p], i))
        /\ y = One(PendDp(loc[p], i)) /\ y2 = One(PendDp(loc[p], i)')
  <2>1. nlink[i] \in Nat /\ nlink'[i] \in Nat
    BY DEF Inv, Base, TypeInv
  <2>2. /\ Cardinality(Entries(entry, i)) \in Nat /\ Cardinality(Entries(entry', i)) \in Nat
        /\ Cardinality(Subs(entry[i], type)) \in Nat /\ Cardinality(Subs(entry'[i], type')) \in Nat
    BY EntriesType, SubsType
  <2>3. /\ One(i = ROOTINO) \in Nat /\ One(PendIp(loc[p], i)) \in Nat /\ One(PendIp(loc'[p], i)) \in Nat
        /\ One(PendDp(loc[p], i)) \in Nat /\ One(PendDp(loc[p], i)') \in Nat
    BY OneNat
  <2> QED BY <1>1, <2>1, <2>2, <2>3
<1>5. a2 + x = a + x2 /\ b2 + y = b + y2
  BY <1>1, <1>4
<1>6. /\ n2 + (e + s + x + y) >= n + (e2 + s2 + x2 + y2)
      /\ i \notin strays' => n2 + (e + s + x + y) = n + (e2 + s2 + x2 + y2)
  BY <1>4 DEF Had, HasNow
<1>7. /\ n >= e + s + a + b + r
      /\ i \notin strays \cup damaged => n = e + s + a + b + r
  BY <1>3, <1>4 DEF Inv, CountInv
<1>8. /\ n2 >= e2 + s2 + a2 + b2 + r
      /\ i \notin strays' \cup damaged => n2 = e2 + s2 + a2 + b2 + r
  BY <1>5, <1>6, <1>7, CountArith
<1> QED BY <1>3, <1>4, <1>8

(* When no entry and no type changes, the links counted follow what is pending. *)
LEMMA NlinkStep ==
  ASSUME Inv, NEW p \in Procs, Frame(p), TypeInv', type' = type, entry' = entry,
         strays' = strays, damaged' = damaged,
         \A i \in Inodes : nlink'[i] + One(PendIp(loc[p], i)) + One(PendDp(loc[p], i))
                             = nlink[i] + One(PendIp(loc'[p], i)) + One(PendDp(loc[p], i)'),
         \A i \in Inodes : type[i] = "free" => nlink'[i] = nlink[i],
         \A i \in Inodes : type[i] = "dir" /\ PendIp(loc'[p], i) => PendIp(loc[p], i) \/ nlink[i] = 0
  PROVE  NamesInv' /\ CountInv' /\ DirOnce' /\ StraysInv'
<1>1. NamesInv'
  BY DEF Inv, NamesInv
<1>2. Types(p)
  BY DEF Types
<1>3. CountInv'
  <2>1. ASSUME NEW i \in Inodes PROVE nlink'[i] + Had(p, i) = nlink[i] + HasNow(p, i)
    <3>1. PICK e, s, n, n2 \in Nat, x, y, x2, y2 \in Nat :
          /\ e = Cardinality(Entries(entry, i)) /\ s = Cardinality(Subs(entry[i], type))
          /\ n = nlink[i] /\ n2 = nlink'[i]
          /\ x = One(PendIp(loc[p], i)) /\ x2 = One(PendIp(loc'[p], i))
          /\ y = One(PendDp(loc[p], i)) /\ y2 = One(PendDp(loc[p], i)')
      <4>1. nlink[i] \in Nat /\ nlink'[i] \in Nat
        BY DEF Inv, Base, TypeInv
      <4>2. /\ Cardinality(Entries(entry, i)) \in Nat /\ Cardinality(Subs(entry[i], type)) \in Nat
        BY EntriesType, SubsType
      <4>3. /\ One(PendIp(loc[p], i)) \in Nat /\ One(PendIp(loc'[p], i)) \in Nat
            /\ One(PendDp(loc[p], i)) \in Nat /\ One(PendDp(loc[p], i)') \in Nat
        BY OneNat
      <4> QED BY <4>1, <4>2, <4>3
    <3>2. Had(p, i) = e + s + x + y /\ HasNow(p, i) = e + s + x2 + y2
      BY <3>1 DEF Had, HasNow
    <3>3. n2 + x + y = n + x2 + y2
      BY <3>1
    <3> QED BY <3>1, <3>2, <3>3
  <2>2. ASSUME NEW i \in Inodes PROVE nlink'[i] + Had(p, i) >= nlink[i] + HasNow(p, i)
    <3>1. Had(p, i) \in Nat /\ nlink'[i] \in Nat
      <4>1. nlink'[i] \in Nat
        BY DEF TypeInv
      <4>2. /\ Cardinality(Entries(entry, i)) \in Nat /\ Cardinality(Subs(entry[i], type)) \in Nat
            /\ One(PendIp(loc[p], i)) \in Nat /\ One(PendDp(loc[p], i)) \in Nat
        BY EntriesType, SubsType, OneNat
      <4> QED BY <4>1, <4>2 DEF Had
    <3>2. nlink'[i] + Had(p, i) \in Nat
      BY <3>1
    <3> QED BY <2>1, <3>2
  <2> QED BY <1>1, <1>2, <2>1, <2>2, CountStep
<1>4. DirOnce'
  <2> SUFFICES ASSUME NEW i \in Inodes, type[i] = "dir"
               PROVE  Cardinality(Links(i)') + Pending(i)' <= 1
    BY DEF DirOnce
  <2>1. Links(i)' = Links(i)
    BY DEF Links
  <2>2. Cardinality(Links(i)) + Pending(i) <= 1
    BY DEF Inv, DirOnce
  <2>3. /\ Pending(i) \in Nat /\ Pending(i)' \in Nat
        /\ Pending(i)' + One(PendIp(loc[p], i)) = Pending(i) + One(PendIp(loc'[p], i))
    BY <1>2, PendStep
  <2>4. Cardinality(Links(i)) \in Nat
    <3>1. LinksAre
      BY LinksEntries DEF Inv, Base
    <3> QED BY <3>1, EntriesType DEF LinksAre
  <2>5. CASE PendIp(loc'[p], i) => PendIp(loc[p], i)
    <3>1. Pending(i)' <= Pending(i)
      BY <2>3, <2>5 DEF One
    <3> QED BY <2>1, <2>2, <2>3, <2>4, <3>1
  <2>6. CASE nlink[i] = 0
    <3>1. Cardinality(Links(i)) = 0 /\ Pending(i) = 0
      <4>1. nlink[i] >= Count(i)
        BY DEF Inv, CountInv
      <4>2. PICK e, s, a, b, r \in Nat :
              /\ e = Cardinality(Links(i)) /\ s = Cardinality(Subdirs(i)) /\ a = Pending(i)
              /\ b = PendingDp(i) /\ r = One(i = ROOTINO)
        <5>1. Cardinality(Subdirs(i)) \in Nat
          BY SubsType, SubdirsSubs
        <5>2. PendingDp(i) \in Nat /\ One(i = ROOTINO) \in Nat
          BY <1>2, PendStep, OneNat
        <5> QED BY <2>3, <2>4, <5>1, <5>2
      <4>3. 0 >= e + s + a + b + r
        BY <2>6, <4>1, <4>2 DEF Count
      <4>4. e = 0 /\ a = 0
        BY <4>3
      <4> QED BY <4>2, <4>4
    <3>2. Pending(i)' <= 1
      BY <2>3, <3>1 DEF One
    <3> QED BY <2>1, <2>3, <3>1, <3>2
  <2> QED BY <2>5, <2>6
<1>5. StraysInv'
  BY DEF Inv, StraysInv, Named
<1> QED BY <1>1, <1>3, <1>4, <1>5

(* An inode with a name, or with a link pending, has a link; one without *)
(* has neither.                                                          *)
LEMMA CountFacts ==
  ASSUME Inv, NEW i \in Inodes
  PROVE  /\ Named(i) => nlink[i] >= 1
         /\ \A p \in Procs : PendIp(loc[p], i) \/ PendDp(loc[p], i) => nlink[i] >= 1
         /\ nlink[i] = 0 => /\ Cardinality(Entries(entry, i)) = 0 /\ Subs(entry[i], type) = {}
                            /\ Pending(i) = 0 /\ i # ROOTINO
<1>1. nlink[i] >= Count(i) /\ LinksAre /\ nlink[i] \in Nat
  BY LinksEntries DEF Inv, CountInv, Base, TypeInv
<1>2. Links(i) = Entries(entry, i) /\ Subdirs(i) = Subs(entry[i], type)
  BY <1>1 DEF LinksAre, Subdirs, Subs
<1> DEFINE S == {q \in Procs : PendIp(loc[q], i)}
           U == {q \in Procs : PendDp(loc[q], i)}
<1>3. IsFiniteSet(S) /\ IsFiniteSet(U)
  BY Constants, FS_Subset
<1>4. PICK n, e, s, a, b, r \in Nat :
        /\ n = nlink[i] /\ e = Cardinality(Entries(entry, i)) /\ s = Cardinality(Subs(entry[i], type))
        /\ a = Cardinality(S) /\ b = Cardinality(U) /\ r = One(i = ROOTINO)
  <2> HIDE DEF S, U
  <2> QED BY <1>1, <1>3, EntriesType, SubsType, FS_CardinalityType, OneNat
<1>5. n >= e + s + a + b + r
  BY <1>1, <1>2, <1>4 DEF Count, Pending, PendingDp
<1>6. /\ e >= 1 \/ a >= 1 \/ b >= 1 => n >= 1
      /\ n = 0 => e = 0 /\ s = 0 /\ a = 0 /\ r = 0
  BY <1>5
<1>7. Named(i) => e >= 1
  <2> SUFFICES ASSUME Named(i) PROVE e >= 1
    OBVIOUS
  <2>1. PICK d \in Inodes, n1 \in Names : entry[d][n1] = i
    BY DEF Named
  <2>2. <<d, n1>> \in Entries(entry, i)
    BY <2>1 DEF Entries
  <2>3. Entries(entry, i) # {}
    BY <2>2
  <2>4. e # 0
    BY <1>4, <2>3, EntriesType, FS_EmptySet
  <2> QED BY <2>4
<1>8. ASSUME NEW p \in Procs, PendIp(loc[p], i) \/ PendDp(loc[p], i) PROVE a >= 1 \/ b >= 1
  <2>1. p \in S \/ p \in U
    BY <1>8
  <2> HIDE DEF S, U
  <2>2. a # 0 \/ b # 0
    BY <1>3, <1>4, <2>1, FS_EmptySet
  <2> QED BY <2>2
<1>9. s = 0 => Subs(entry[i], type) = {}
  BY <1>4, SubsType, FS_EmptySet
<1>10. r = 0 => i # ROOTINO
  BY <1>4 DEF One
<1>11. Pending(i) = a
  BY <1>4 DEF Pending
<1> QED BY <1>4, <1>6, <1>7, <1>8, <1>9, <1>10, <1>11

(* A step that changes nothing on the disk and makes nothing private. *)
Calm(p) ==
  /\ UNCHANGED <<type, nlink, entry, dots, strays, crashes, damaged>>
  /\ valid' \in [Inodes -> BOOLEAN]
  /\ Frame(p) /\ Accounts(p) /\ LocksMove(p)
  /\ Kind(loc'[p]) /\ Look(loc'[p])
  /\ \A i \in Inodes :
       /\ PendIp(loc'[p], i) <=> PendIp(loc[p], i)
       /\ ref'[i] >= ref[i]
       /\ ref'[i] > ref[i] => i = ROOTINO \/ Named(i)
       /\ valid[i] => valid'[i]
       /\ busy'[i] # Nobody => busy[i] # Nobody \/ valid'[i]
       /\ ~HeadIs(loc'[p], Last, i)
  /\ loc[p].rel = <<>>
  /\ loc[p].pc \notin NewPcs \cup {"u_parent"} /\ loc'[p].pc \notin NewPcs \cup {"u_parent"}

(* An inode without links stays cached while its references stay. *)
LEMMA DoomedStep ==
  ASSUME Inv, NEW p \in Procs, Frame(p), damaged' = damaged, loc[p].pc # "c_lock",
         NEW i \in Inodes, type[i] # "free", nlink[i] = 0, i \notin damaged,
         ref'[i] \in Nat, ref'[i] >= ref[i], valid[i] => valid'[i]
  PROVE  ref'[i] >= 1 /\ (valid'[i] \/ \E q \in Procs : loc'[q].pc = "c_lock" /\ loc'[q].ip = i)
<1>1. ref[i] \in Nat /\ ref[i] >= 1 /\ (valid[i] \/ \E q \in Procs : loc[q].pc = "c_lock" /\ loc[q].ip = i)
  BY DEF Inv, Doomed, Base, TypeInv
<1>2. ref'[i] >= 1
  BY <1>1
<1>3. \A q \in Procs : loc[q].pc = "c_lock" => loc'[q] = loc[q]
  BY DEF Frame
<1> QED BY <1>1, <1>2, <1>3

(* Such a step is good. *)
LEMMA CalmGood == ASSUME Inv, NEW p \in Procs, Calm(p) PROVE Good(p)
<1> USE DEF Calm
<1>1. TypeInv'
  BY DEF Inv, Base, TypeInv, Accounts, LocksMove, Frame
<1>2. \A i, D : ~HeadIs(loc[p], D, i)
  BY DEF HeadIs
<1>3. \A i \in Inodes : ~PendDp(loc[p], i) /\ ~PendDp(loc[p], i)'
  BY DEF PendDp, NewPcs
<1>4. NamesInv' /\ CountInv' /\ DirOnce' /\ StraysInv'
  <2>1. \A i \in Inodes : /\ One(PendIp(loc[p], i)) = One(PendIp(loc'[p], i))
                          /\ One(PendDp(loc[p], i)) = One(PendDp(loc[p], i)')
    BY <1>3 DEF One
  <2> QED BY <1>1, <2>1, NlinkStep
<1>5. Doomed'
  <2> SUFFICES ASSUME NEW i \in Inodes, type[i] # "free", nlink[i] = 0, i \notin damaged
               PROVE  ref'[i] >= 1 /\ (valid'[i] \/ \E q \in Procs : loc'[q].pc = "c_lock" /\ loc'[q].ip = i)
    BY DEF Doomed
  <2>1. loc[p].pc # "c_lock" /\ ref'[i] \in Nat
    BY DEF NewPcs, Accounts
  <2> QED BY <2>1, DoomedStep
<1>6. ValidInv'
  BY DEF ValidInv, Inv
<1>7. (Kind(loc[p]) /\ Look(loc[p]))'
  BY DEF Kind, Look
<1>8. Gains(p) /\ Ends(p) /\ Types(p) /\ Waits(p)
  BY <1>2 DEF Gains, Ends, Types, Waits, NewPcs
<1>9. Touches(p)
  BY DEF Touches, Named
<1>10. Fresh(p)
  <2>1. \A i \in Inodes : ~Private(loc'[p], i) /\ ~HeadIs(loc'[p], {"done"}, i)
    BY DEF Private, HeadIs, Last
  <2> QED BY <2>1 DEF Fresh
<1>11. DotsOwn(p)
  <2>1. \A i \in Inodes : ~HeadIs(loc'[p], {"free"}, i)
    BY DEF HeadIs, Last
  <2> QED BY <2>1 DEF DotsOwn, Inv, DotsInv, NewPcs
<1> QED BY <1>1, <1>4, <1>5, <1>6, <1>7, <1>8, <1>9, <1>10, <1>11 DEF Good

-----------------------------------------------------------------------------
(* Steps that change nothing but the place of the call. *)
LEMMA PcMoved ==
  ASSUME Base, NEW p \in Procs, loc[p].rel = <<>>, NEW pc \in PCs, loc' = [loc EXCEPT ![p].pc = pc]
  PROVE  /\ loc'[p] \in Locs /\ loc' \in [Procs -> Locs] /\ \A q \in Procs \ {p} : loc'[q] = loc[q]
         /\ loc'[p].pc = pc /\ loc'[p].call = loc[p].call /\ loc'[p].rest = loc[p].rest
         /\ loc'[p].new = loc[p].new /\ loc'[p].cur = loc[p].cur /\ loc'[p].dp = loc[p].dp
         /\ loc'[p].ip = loc[p].ip /\ loc'[p].rel = <<>>
         /\ \A f, j : Holds(loc'[p], f, j) = Holds(loc[p], f, j)
         /\ \A j : Puts(loc'[p].rel, j) = 0 /\ Locks(loc'[p].rel, j) = 0
         /\ \A D, j : ~HeadIs(loc'[p], D, j)
<1> DEFINE l == loc[p]
           m == loc'[p]
<1>1. loc \in [Procs -> Locs] /\ l \in Locs
  BY DEF Base, TypeInv
<1>2. /\ m.pc = pc /\ m.call = l.call /\ m.rest = l.rest /\ m.new = l.new /\ m.cur = l.cur
      /\ m.dp = l.dp /\ m.ip = l.ip /\ m.rel = l.rel
  BY <1>1
<1>3. Moves(p)
  <2>1. loc' = [q \in Procs |-> IF q = p THEN loc'[p] ELSE loc[q]]
    BY <1>1
  <2>2. m = [pc |-> m.pc, call |-> m.call, rest |-> m.rest, new |-> m.new, cur |-> m.cur,
             dp |-> m.dp, ip |-> m.ip, rel |-> m.rel]
    BY <1>1 DEF Locs
  <2> QED BY <2>1, <2>2 DEF Moves
<1>4. /\ l.call \in CallNames /\ l.rest \in Seq(Names) /\ l.new \in Seq(Names)
      /\ l.cur \in Inodes \cup {None} /\ l.dp \in Inodes \cup {None} /\ l.ip \in Inodes \cup {None}
      /\ l.rel \in Seq(Releases)
  BY <1>1 DEF Locs
<1> HIDE DEF l, m
<1>5. m \in Locs /\ loc' \in [Procs -> Locs] /\ \A q \in Procs \ {p} : loc'[q] = loc[q]
  BY <1>2, <1>3, <1>4, Moved DEF m
<1>6. \A f, j : Holds(m, f, j) = Holds(l, f, j)
  BY <1>2 DEF Holds
<1>7. m.rel = <<>>
  BY <1>2 DEF l
<1> QED BY <1>2, <1>5, <1>6, <1>7, RelEmpty DEF l, m, HeadIs

(* Calm steps within a call, and the calm end of a call. *)
LEMMA MovedGood ==
  ASSUME Inv, NEW p \in Procs, loc[p].rel = <<>>, loc'[p] \in Locs,
         loc' \in [Procs -> Locs], \A q \in Procs \ {p} : loc'[q] = loc[q],
         WellFormed(loc'[p], file[p]),
         UNCHANGED <<type, nlink, entry, dots, file, strays, crashes, damaged>>,
         NEW x, NEW y, Igets(x), Ilocks(p, y), x \in Inodes => x = ROOTINO \/ Named(x),
         \A j \in Inodes : Holds(loc'[p], file[p], j) = Holds(loc[p], file[p], j) + One(x = j),
         \A j \in Inodes : Claims(loc'[p], j) = Claims(loc[p], j) + One(y = j),
         \A j \in Inodes : PendIp(loc'[p], j) <=> PendIp(loc[p], j),
         \A j \in Inodes : ~HeadIs(loc'[p], Last, j),
         Kind(loc'[p]), Look(loc'[p]),
         loc[p].pc \notin NewPcs \cup {"u_parent"}, loc'[p].pc \notin NewPcs \cup {"u_parent"}
  PROVE  Good(p)
<1>1. Frame(p)
  BY DEF Frame, Inv, Base, TypeInv
<1>2. Accounts(p) /\ LocksMove(p)
  BY Locally DEF Inv
<1>3. ASSUME NEW i \in Inodes
      PROVE  /\ ref'[i] >= ref[i]
             /\ ref'[i] > ref[i] => i = ROOTINO \/ Named(i)
             /\ valid[i] => valid'[i]
             /\ busy'[i] # Nobody => busy[i] # Nobody \/ valid'[i]
  <2>1. ref[i] \in Nat
    BY DEF Inv, Base, TypeInv
  <2> QED BY <2>1 DEF Igets, Ilocks, One
<1>4. Calm(p)
  BY <1>1, <1>2, <1>3 DEF Calm, Ilocks
<1> QED BY <1>4, CalmGood

(* A call that ends with something to release. *)
LEMMA ReturnedGood ==
  ASSUME Inv, NEW p \in Procs, loc[p].rel = <<>>, NEW r \in Seq(Releases), Tidy(r),
         r # <<>> => r[1].do \notin Last, Return(p, r),
         file' \in [Procs -> Inodes \cup {None}], \A q \in Procs \ {p} : file'[q] = file[q],
         r # <<>> /\ Len(r) = 1 /\ r[1].do = "unlock" => r[1].ino = file'[p],
         UNCHANGED <<type, nlink, entry, dots, ref, busy, valid, strays, crashes, damaged>>,
         \A j \in Inodes : Holds(loc[p], file[p], j) = One(file'[p] = j) + Puts(r, j),
         \A j \in Inodes : Claims(loc[p], j) = Locks(r, j),
         \A j \in Inodes : ~PendIp(loc[p], j),
         loc[p].pc \notin NewPcs \cup {"u_parent"}
  PROVE  Good(p)
<1>1. /\ Frame(p) /\ Accounts(p) /\ LocksMove(p)
      /\ loc'[p].pc = "idle" /\ loc'[p].cur = None /\ loc'[p].dp = None /\ loc'[p].ip = None
      /\ loc'[p].rel = r
  BY Returned DEF Inv
<1>2. Kind(loc'[p]) /\ Look(loc'[p])
  BY <1>1 DEF Kind, Look, NewPcs
<1>3. \A j \in Inodes : ~PendIp(loc'[p], j) /\ ~HeadIs(loc'[p], Last, j)
  BY <1>1, Constants DEF PendIp, HeadIs
<1>4. \A j \in Inodes : ref'[j] >= ref[j] /\ ~(ref'[j] > ref[j])
  BY DEF Inv, Base, TypeInv
<1>5. valid' \in [Inodes -> BOOLEAN]
  BY DEF Inv, Base, TypeInv
<1>6. Calm(p)
  BY <1>1, <1>2, <1>3, <1>4, <1>5 DEF Calm, NewPcs
<1> QED BY <1>6, CalmGood

-----------------------------------------------------------------------------
(* namex() locks the directory, *)
LEMMA WalkLockGood ==
  ASSUME Inv, NEW p \in Procs, WalkLock(p), UNCHANGED past
  PROVE  Good(p)
<1> DEFINE l == loc[p]
           m == loc'[p]
<1>1. l.pc = "walk" /\ l.rel = <<>> /\ ilock(p, l.cur) /\ loc' = [loc EXCEPT ![p].pc = "walked"]
      /\ UNCHANGED <<type, nlink, entry, dots, ref, file, strays, crashes, damaged>>
  BY DEF WalkLock, At, disk, past
<1>2. WellFormed(l, file[p]) /\ l \in Locs /\ \A j : Puts(l.rel, j) = 0 /\ Locks(l.rel, j) = 0
  BY <1>1, AtFacts DEF Inv
<1>3. l.cur \in Inodes
  BY <1>1, <1>2 DEF WellFormed, Locs
<1>4. /\ m \in Locs /\ loc' \in [Procs -> Locs] /\ \A q \in Procs \ {p} : loc'[q] = loc[q]
      /\ m.pc = "walked" /\ m.call = l.call /\ m.rest = l.rest /\ m.new = l.new
      /\ m.cur = l.cur /\ m.dp = l.dp /\ m.ip = l.ip /\ m.rel = <<>>
      /\ \A f, j : Holds(m, f, j) = Holds(l, f, j)
      /\ \A j : Puts(m.rel, j) = 0 /\ Locks(m.rel, j) = 0
      /\ \A D, j : ~HeadIs(m, D, j)
  <2>1. "walked" \in PCs
    BY DEF PCs
  <2> QED BY <1>1, <2>1, PcMoved DEF Inv
<1>5. WellFormed(m, file[p])
  <2>1. /\ l.pc \notin DpLocked \cup IpPcs \cup NewPcs /\ m.pc \notin DpLocked \cup IpPcs \cup NewPcs
        /\ l.pc \in WalkPcs /\ m.pc \in WalkPcs
    BY <1>1, <1>4 DEF DpLocked, IpPcs, IpLocked, NewPcs, WalkPcs
  <2> QED BY <1>1, <1>2, <1>4, <2>1, RelEmpty DEF WellFormed
<1>6. \A j \in Inodes : Claims(m, j) = Claims(l, j) + One(l.cur = j)
  BY <1>1, <1>2, <1>4 DEF Claims, One, DpLocked, IpLocked, NewPcs
<1>7. \A j \in Inodes : Holds(m, file[p], j) = Holds(l, file[p], j) + One(None = j)
  BY <1>4, HoldsType, Constants DEF One
<1>8. /\ \A j \in Inodes : PendIp(m, j) <=> PendIp(l, j)
      /\ Kind(m) /\ Look(m)
  <2>1. Kind(l) /\ Look(l)
    BY DEF Inv, KindInv
  <2> QED BY <1>1, <1>4, <2>1 DEF PendIp, Kind, Look, WalkPcs, NewPcs
<1>9. l.pc \notin NewPcs \cup {"u_parent"} /\ m.pc \notin NewPcs \cup {"u_parent"}
  BY <1>1, <1>4 DEF NewPcs
<1>10. Igets(None) /\ Ilocks(p, l.cur)
  BY <1>1, <1>3, IgetNone, IlockSome DEF Inv
<1> HIDE DEF l, m
<1> QED BY <1>1, <1>4, <1>5, <1>6, <1>7, <1>8, <1>9, <1>10, Constants, MovedGood DEF l, m

(* create() locks the file it found, *)
LEMMA FoundLockGood ==
  ASSUME Inv, NEW p \in Procs, FoundLock(p), UNCHANGED past
  PROVE  Good(p)
<1> DEFINE l == loc[p]
           m == loc'[p]
<1>1. l.pc = "found" /\ l.rel = <<>> /\ ilock(p, l.ip) /\ loc' = [loc EXCEPT ![p].pc = "found_locked"]
      /\ UNCHANGED <<type, nlink, entry, dots, ref, file, strays, crashes, damaged>>
  BY DEF FoundLock, At, disk, past
<1>2. WellFormed(l, file[p]) /\ l \in Locs /\ \A j : Puts(l.rel, j) = 0 /\ Locks(l.rel, j) = 0
  BY <1>1, AtFacts DEF Inv
<1>3. l.ip \in Inodes
  BY <1>1, <1>2 DEF WellFormed, Locs, IpPcs
<1>4. /\ m \in Locs /\ loc' \in [Procs -> Locs] /\ \A q \in Procs \ {p} : loc'[q] = loc[q]
      /\ m.pc = "found_locked" /\ m.call = l.call /\ m.rest = l.rest /\ m.new = l.new
      /\ m.cur = l.cur /\ m.dp = l.dp /\ m.ip = l.ip /\ m.rel = <<>>
      /\ \A f, j : Holds(m, f, j) = Holds(l, f, j)
      /\ \A j : Puts(m.rel, j) = 0 /\ Locks(m.rel, j) = 0
      /\ \A D, j : ~HeadIs(m, D, j)
  <2>1. "found_locked" \in PCs
    BY DEF PCs
  <2> QED BY <1>1, <2>1, PcMoved DEF Inv
<1>5. WellFormed(m, file[p])
  <2>1. /\ l.pc \notin DpLocked \cup NewPcs \cup WalkPcs /\ l.pc \in IpPcs
        /\ m.pc \notin DpLocked \cup NewPcs \cup WalkPcs /\ m.pc \in IpPcs
    BY <1>1, <1>4 DEF DpLocked, IpPcs, IpLocked, NewPcs, WalkPcs
  <2> QED BY <1>1, <1>2, <1>4, <2>1, RelEmpty DEF WellFormed
<1>6. \A j \in Inodes : Claims(m, j) = Claims(l, j) + One(l.ip = j)
  BY <1>1, <1>2, <1>4 DEF Claims, One, DpLocked, IpLocked, NewPcs
<1>7. \A j \in Inodes : Holds(m, file[p], j) = Holds(l, file[p], j) + One(None = j)
  BY <1>4, HoldsType, Constants DEF One
<1>8. /\ \A j \in Inodes : PendIp(m, j) <=> PendIp(l, j)
      /\ Kind(m) /\ Look(m)
  <2>1. Kind(l) /\ Look(l)
    BY DEF Inv, KindInv
  <2> QED BY <1>1, <1>4, <2>1 DEF PendIp, Kind, Look, WalkPcs, NewPcs
<1>9. l.pc \notin NewPcs \cup {"u_parent"} /\ m.pc \notin NewPcs \cup {"u_parent"}
  BY <1>1, <1>4 DEF NewPcs
<1>10. Igets(None) /\ Ilocks(p, l.ip)
  BY <1>1, <1>3, IgetNone, IlockSome DEF Inv
<1> HIDE DEF l, m
<1> QED BY <1>1, <1>4, <1>5, <1>6, <1>7, <1>8, <1>9, <1>10, Constants, MovedGood DEF l, m

(* sys_link() locks the inode again at bad:, *)
LEMMA BadLockGood ==
  ASSUME Inv, NEW p \in Procs, BadLock(p), UNCHANGED past
  PROVE  Good(p)
<1> DEFINE l == loc[p]
           m == loc'[p]
<1>1. l.pc = "bad" /\ l.rel = <<>> /\ ilock(p, l.ip) /\ loc' = [loc EXCEPT ![p].pc = "bad_locked"]
      /\ UNCHANGED <<type, nlink, entry, dots, ref, file, strays, crashes, damaged>>
  BY DEF BadLock, At, disk, past
<1>2. WellFormed(l, file[p]) /\ l \in Locs /\ \A j : Puts(l.rel, j) = 0 /\ Locks(l.rel, j) = 0
  BY <1>1, AtFacts DEF Inv
<1>3. l.ip \in Inodes
  BY <1>1, <1>2 DEF WellFormed, Locs, IpPcs
<1>4. /\ m \in Locs /\ loc' \in [Procs -> Locs] /\ \A q \in Procs \ {p} : loc'[q] = loc[q]
      /\ m.pc = "bad_locked" /\ m.call = l.call /\ m.rest = l.rest /\ m.new = l.new
      /\ m.cur = l.cur /\ m.dp = l.dp /\ m.ip = l.ip /\ m.rel = <<>>
      /\ \A f, j : Holds(m, f, j) = Holds(l, f, j)
      /\ \A j : Puts(m.rel, j) = 0 /\ Locks(m.rel, j) = 0
      /\ \A D, j : ~HeadIs(m, D, j)
  <2>1. "bad_locked" \in PCs
    BY DEF PCs
  <2> QED BY <1>1, <2>1, PcMoved DEF Inv
<1>5. WellFormed(m, file[p])
  <2>1. /\ l.pc \notin DpLocked \cup NewPcs \cup WalkPcs /\ l.pc \in IpPcs
        /\ m.pc \notin DpLocked \cup NewPcs \cup WalkPcs /\ m.pc \in IpPcs
    BY <1>1, <1>4 DEF DpLocked, IpPcs, IpLocked, NewPcs, WalkPcs
  <2> QED BY <1>1, <1>2, <1>4, <2>1, RelEmpty DEF WellFormed
<1>6. \A j \in Inodes : Claims(m, j) = Claims(l, j) + One(l.ip = j)
  BY <1>1, <1>2, <1>4 DEF Claims, One, DpLocked, IpLocked, NewPcs
<1>7. \A j \in Inodes : Holds(m, file[p], j) = Holds(l, file[p], j) + One(None = j)
  BY <1>4, HoldsType, Constants DEF One
<1>8. /\ \A j \in Inodes : PendIp(m, j) <=> PendIp(l, j)
      /\ Kind(m) /\ Look(m)
  <2>1. Kind(l) /\ Look(l)
    BY DEF Inv, KindInv
  <2> QED BY <1>1, <1>4, <2>1 DEF PendIp, Kind, Look, WalkPcs, NewPcs
<1>9. l.pc \notin NewPcs \cup {"u_parent"} /\ m.pc \notin NewPcs \cup {"u_parent"}
  BY <1>1, <1>4 DEF NewPcs
<1>10. Igets(None) /\ Ilocks(p, l.ip)
  BY <1>1, <1>3, IgetNone, IlockSome DEF Inv
<1> HIDE DEF l, m
<1> QED BY <1>1, <1>4, <1>5, <1>6, <1>7, <1>8, <1>9, <1>10, Constants, MovedGood DEF l, m

(* sys_unlink() locks what it is to unlink. *)
LEMMA UnlinkLockGood ==
  ASSUME Inv, NEW p \in Procs, UnlinkLock(p), UNCHANGED past
  PROVE  Good(p)
<1> DEFINE l == loc[p]
           m == loc'[p]
<1>1. l.pc = "u_lock" /\ l.rel = <<>> /\ ilock(p, l.ip) /\ loc' = [loc EXCEPT ![p].pc = "u_check"]
      /\ UNCHANGED <<type, nlink, entry, dots, ref, file, strays, crashes, damaged>>
  BY DEF UnlinkLock, At, disk, past
<1>2. WellFormed(l, file[p]) /\ l \in Locs /\ \A j : Puts(l.rel, j) = 0 /\ Locks(l.rel, j) = 0
  BY <1>1, AtFacts DEF Inv
<1>3. l.ip \in Inodes
  BY <1>1, <1>2 DEF WellFormed, Locs, IpPcs
<1>4. /\ m \in Locs /\ loc' \in [Procs -> Locs] /\ \A q \in Procs \ {p} : loc'[q] = loc[q]
      /\ m.pc = "u_check" /\ m.call = l.call /\ m.rest = l.rest /\ m.new = l.new
      /\ m.cur = l.cur /\ m.dp = l.dp /\ m.ip = l.ip /\ m.rel = <<>>
      /\ \A f, j : Holds(m, f, j) = Holds(l, f, j)
      /\ \A j : Puts(m.rel, j) = 0 /\ Locks(m.rel, j) = 0
      /\ \A D, j : ~HeadIs(m, D, j)
  <2>1. "u_check" \in PCs
    BY DEF PCs
  <2> QED BY <1>1, <2>1, PcMoved DEF Inv
<1>5. WellFormed(m, file[p])
  <2>1. /\ l.pc \notin NewPcs \cup WalkPcs /\ l.pc \in IpPcs /\ l.pc \in DpLocked
        /\ m.pc \notin NewPcs \cup WalkPcs /\ m.pc \in IpPcs /\ m.pc \in DpLocked
    BY <1>1, <1>4 DEF DpLocked, IpPcs, IpLocked, NewPcs, WalkPcs
  <2> QED BY <1>1, <1>2, <1>4, <2>1, RelEmpty DEF WellFormed
<1>6. \A j \in Inodes : Claims(m, j) = Claims(l, j) + One(l.ip = j)
  BY <1>1, <1>2, <1>4 DEF Claims, One, DpLocked, IpLocked, NewPcs
<1>7. \A j \in Inodes : Holds(m, file[p], j) = Holds(l, file[p], j) + One(None = j)
  BY <1>4, HoldsType, Constants DEF One
<1>8. /\ \A j \in Inodes : PendIp(m, j) <=> PendIp(l, j)
      /\ Kind(m) /\ Look(m)
  <2>1. Kind(l) /\ Look(l)
    BY DEF Inv, KindInv
  <2> QED BY <1>1, <1>4, <2>1 DEF PendIp, Kind, Look, WalkPcs, NewPcs
<1>9. l.pc \notin NewPcs \cup {"u_parent"} /\ m.pc \notin NewPcs \cup {"u_parent"}
  BY <1>1, <1>4 DEF NewPcs
<1>10. Igets(None) /\ Ilocks(p, l.ip)
  BY <1>1, <1>3, IgetNone, IlockSome DEF Inv
<1> HIDE DEF l, m
<1> QED BY <1>1, <1>4, <1>5, <1>6, <1>7, <1>8, <1>9, <1>10, Constants, MovedGood DEF l, m

(* namex() found nothing. *)
LEMMA NowhereEnds ==
  ASSUME Inv, NEW p \in Procs, Nowhere(p), loc[p].ip = None, UNCHANGED past
  PROVE  Good(p)
<1> DEFINE l == loc[p]
           r == <<>>
<1>1. l.pc = "nowhere" /\ l.rel = <<>> /\ Return(p, r) /\ file' = file
      /\ UNCHANGED <<type, nlink, entry, dots, ref, busy, valid, strays, crashes, damaged>>
  BY DEF Nowhere, At, disk, icache, past, Return, Idle
<1>2. /\ WellFormed(l, file[p]) /\ l \in Locs /\ file[p] \in Inodes \cup {None}
      /\ \A j : Puts(l.rel, j) = 0 /\ Locks(l.rel, j) = 0
  BY <1>1, AtFacts DEF Inv
<1>3. l.cur = None /\ l.dp = None /\ l.ip = None
  BY <1>1, <1>2, loc[p].ip = None DEF WellFormed, Locs, IpPcs, IpLocked, DpLocked, NewPcs, WalkPcs
<1>4. file \in [Procs -> Inodes \cup {None}]
  BY DEF Inv, Base, TypeInv
<1>5. /\ file' \in [Procs -> Inodes \cup {None}] /\ \A q \in Procs \ {p} : file'[q] = file[q]
      /\ file'[p] = file[p]
  BY <1>1, <1>3, <1>4
<1>6. /\ r \in Seq(Releases) /\ Tidy(r) /\ (r # <<>> => r[1].do \notin Last)
      /\ (r # <<>> /\ Len(r) = 1 /\ r[1].do = "unlock" => r[1].ino = file'[p])
      /\ \A j \in Inodes : Puts(r, j) = 0 /\ Locks(r, j) = 0
  BY RelEmpty DEF One
<1> HIDE DEF r
<1>7. \A j \in Inodes : Holds(l, file[p], j) = One(file'[p] = j) + Puts(r, j)
  BY <1>1, <1>2, <1>3, <1>5, <1>6, Constants DEF Holds, One
<1>8. \A j \in Inodes : Claims(l, j) = Locks(r, j)
  BY <1>1, <1>2, <1>3, <1>6, Constants DEF Claims, One, DpLocked, IpLocked, NewPcs
<1>9. l.pc \notin NewPcs \cup {"u_parent"} /\ \A j \in Inodes : ~PendIp(l, j)
  BY <1>1, <1>3, Constants DEF PendIp, NewPcs, WalkPcs
<1> QED BY <1>1, <1>5, <1>6, <1>7, <1>8, <1>9, ReturnedGood DEF l

(* What create() found is no file to open. *)
LEMMA FoundEnds ==
  ASSUME Inv, NEW p \in Procs, Found(p), ~(loc[p].call = "create" /\ type[loc[p].ip] = "file"), UNCHANGED past
  PROVE  Good(p)
<1> DEFINE l == loc[p]
           r == unlockput(l.ip)
<1>1. l.pc = "found_locked" /\ l.rel = <<>> /\ Return(p, r) /\ file' = file
      /\ UNCHANGED <<type, nlink, entry, dots, ref, busy, valid, strays, crashes, damaged>>
  BY DEF Found, At, disk, icache, past
<1>2. /\ WellFormed(l, file[p]) /\ l \in Locs /\ file[p] \in Inodes \cup {None}
      /\ \A j : Puts(l.rel, j) = 0 /\ Locks(l.rel, j) = 0
  BY <1>1, AtFacts DEF Inv
<1>3. l.cur = None /\ l.dp = None /\ l.ip \in Inodes
  BY <1>1, <1>2, ~(loc[p].call = "create" /\ type[loc[p].ip] = "file")
       DEF WellFormed, Locs, IpPcs, IpLocked, DpLocked, NewPcs, WalkPcs
<1>4. file \in [Procs -> Inodes \cup {None}]
  BY DEF Inv, Base, TypeInv
<1>5. /\ file' \in [Procs -> Inodes \cup {None}] /\ \A q \in Procs \ {p} : file'[q] = file[q]
      /\ file'[p] = file[p]
  BY <1>1, <1>3, <1>4
<1>6. /\ r \in Seq(Releases) /\ Tidy(r) /\ (r # <<>> => r[1].do \notin Last)
      /\ (r # <<>> /\ Len(r) = 1 /\ r[1].do = "unlock" => r[1].ino = file'[p])
      /\ \A j \in Inodes : Puts(r, j) = One(l.ip = j) /\ Locks(r, j) = One(l.ip = j)
  <2>1. /\ r \in Seq(Releases) /\ Len(r) = 2 /\ Tidy(r) /\ r[1] = [do |-> "unlock", ino |-> l.ip]
        /\ \A j : Puts(r, j) = One(l.ip = j) /\ Locks(r, j) = One(l.ip = j)
    BY <1>3, RelUnlockput
  <2> HIDE DEF r
  <2> QED BY <2>1 DEF Last
<1> HIDE DEF r
<1>7. \A j \in Inodes : Holds(l, file[p], j) = One(file'[p] = j) + Puts(r, j)
  BY <1>1, <1>2, <1>3, <1>5, <1>6, Constants DEF Holds, One
<1>8. \A j \in Inodes : Claims(l, j) = Locks(r, j)
  BY <1>1, <1>2, <1>3, <1>6, Constants DEF Claims, One, DpLocked, IpLocked, NewPcs
<1>9. l.pc \notin NewPcs \cup {"u_parent"} /\ \A j \in Inodes : ~PendIp(l, j)
  BY <1>1, <1>3, Constants DEF PendIp, NewPcs, WalkPcs
<1> QED BY <1>1, <1>5, <1>6, <1>7, <1>8, <1>9, ReturnedGood DEF l

(* open() has a free descriptor ... *)
LEMMA OpenedKept ==
  ASSUME Inv, NEW p \in Procs, Opened(p), file[p] = None, UNCHANGED past
  PROVE  Good(p)
<1> DEFINE l == loc[p]
           r == unlock(l.ip)
<1>1. l.pc = "opened" /\ l.rel = <<>> /\ Return(p, r) /\ file' = [file EXCEPT ![p] = l.ip]
      /\ UNCHANGED <<type, nlink, entry, dots, ref, busy, valid, strays, crashes, damaged>>
  BY DEF Opened, At, disk, icache, past
<1>2. /\ WellFormed(l, file[p]) /\ l \in Locs /\ file[p] \in Inodes \cup {None}
      /\ \A j : Puts(l.rel, j) = 0 /\ Locks(l.rel, j) = 0
  BY <1>1, AtFacts DEF Inv
<1>3. l.cur = None /\ l.dp = None /\ l.ip \in Inodes
  BY <1>1, <1>2, file[p] = None DEF WellFormed, Locs, IpPcs, IpLocked, DpLocked, NewPcs, WalkPcs
<1>4. file \in [Procs -> Inodes \cup {None}]
  BY DEF Inv, Base, TypeInv
<1>5. /\ file' \in [Procs -> Inodes \cup {None}] /\ \A q \in Procs \ {p} : file'[q] = file[q]
      /\ file'[p] = l.ip
  BY <1>1, <1>3, <1>4
<1>6. /\ r \in Seq(Releases) /\ Tidy(r) /\ (r # <<>> => r[1].do \notin Last)
      /\ (r # <<>> /\ Len(r) = 1 /\ r[1].do = "unlock" => r[1].ino = file'[p])
      /\ \A j \in Inodes : Puts(r, j) = 0 /\ Locks(r, j) = One(l.ip = j)
  <2>1. /\ r \in Seq(Releases) /\ Len(r) = 1 /\ Tidy(r) /\ r # <<>> /\ r[1] = [do |-> "unlock", ino |-> l.ip]
        /\ \A j : Puts(r, j) = 0 /\ Locks(r, j) = One(l.ip = j)
    BY <1>3, RelUnlock
  <2> HIDE DEF r
  <2> QED BY <1>5, <2>1 DEF Last
<1> HIDE DEF r
<1>7. \A j \in Inodes : Holds(l, file[p], j) = One(file'[p] = j) + Puts(r, j)
  BY <1>1, <1>2, <1>3, <1>5, <1>6, Constants, file[p] = None DEF Holds, One
<1>8. \A j \in Inodes : Claims(l, j) = Locks(r, j)
  BY <1>1, <1>2, <1>3, <1>6, Constants DEF Claims, One, DpLocked, IpLocked, NewPcs
<1>9. l.pc \notin NewPcs \cup {"u_parent"} /\ \A j \in Inodes : ~PendIp(l, j)
  BY <1>1, <1>3, Constants DEF PendIp, NewPcs, WalkPcs
<1> QED BY <1>1, <1>5, <1>6, <1>7, <1>8, <1>9, ReturnedGood DEF l

(* ... or has none. *)
LEMMA OpenedEnds ==
  ASSUME Inv, NEW p \in Procs, Opened(p), file[p] # None, UNCHANGED past
  PROVE  Good(p)
<1> DEFINE l == loc[p]
           r == unlockput(l.ip)
<1>1. l.pc = "opened" /\ l.rel = <<>> /\ Return(p, r) /\ file' = file
      /\ UNCHANGED <<type, nlink, entry, dots, ref, busy, valid, strays, crashes, damaged>>
  BY DEF Opened, At, disk, icache, past
<1>2. /\ WellFormed(l, file[p]) /\ l \in Locs /\ file[p] \in Inodes \cup {None}
      /\ \A j : Puts(l.rel, j) = 0 /\ Locks(l.rel, j) = 0
  BY <1>1, AtFacts DEF Inv
<1>3. l.cur = None /\ l.dp = None /\ l.ip \in Inodes
  BY <1>1, <1>2, file[p] # None DEF WellFormed, Locs, IpPcs, IpLocked, DpLocked, NewPcs, WalkPcs
<1>4. file \in [Procs -> Inodes \cup {None}]
  BY DEF Inv, Base, TypeInv
<1>5. /\ file' \in [Procs -> Inodes \cup {None}] /\ \A q \in Procs \ {p} : file'[q] = file[q]
      /\ file'[p] = file[p]
  BY <1>1, <1>3, <1>4
<1>6. /\ r \in Seq(Releases) /\ Tidy(r) /\ (r # <<>> => r[1].do \notin Last)
      /\ (r # <<>> /\ Len(r) = 1 /\ r[1].do = "unlock" => r[1].ino = file'[p])
      /\ \A j \in Inodes : Puts(r, j) = One(l.ip = j) /\ Locks(r, j) = One(l.ip = j)
  <2>1. /\ r \in Seq(Releases) /\ Len(r) = 2 /\ Tidy(r) /\ r[1] = [do |-> "unlock", ino |-> l.ip]
        /\ \A j : Puts(r, j) = One(l.ip = j) /\ Locks(r, j) = One(l.ip = j)
    BY <1>3, RelUnlockput
  <2> HIDE DEF r
  <2> QED BY <2>1 DEF Last
<1> HIDE DEF r
<1>7. \A j \in Inodes : Holds(l, file[p], j) = One(file'[p] = j) + Puts(r, j)
  BY <1>1, <1>2, <1>3, <1>5, <1>6, Constants, file[p] # None DEF Holds, One
<1>8. \A j \in Inodes : Claims(l, j) = Locks(r, j)
  BY <1>1, <1>2, <1>3, <1>6, Constants DEF Claims, One, DpLocked, IpLocked, NewPcs
<1>9. l.pc \notin NewPcs \cup {"u_parent"} /\ \A j \in Inodes : ~PendIp(l, j)
  BY <1>1, <1>3, Constants DEF PendIp, NewPcs, WalkPcs
<1> QED BY <1>1, <1>5, <1>6, <1>7, <1>8, <1>9, ReturnedGood DEF l

(* close() *)
LEMMA CloseGood ==
  ASSUME Inv, NEW p \in Procs, Close(p), UNCHANGED past
  PROVE  Good(p)
<1> DEFINE l == loc[p]
           r == put(file[p])
<1>1. l.pc = "idle" /\ l.rel = <<>> /\ Return(p, r) /\ file[p] # None /\ file' = [file EXCEPT ![p] = None]
      /\ UNCHANGED <<type, nlink, entry, dots, ref, busy, valid, strays, crashes, damaged>>
  BY DEF Close, At, disk, icache, past
<1>2. /\ WellFormed(l, file[p]) /\ l \in Locs /\ file[p] \in Inodes \cup {None}
      /\ \A j : Puts(l.rel, j) = 0 /\ Locks(l.rel, j) = 0
  BY <1>1, AtFacts DEF Inv
<1>3. l.cur = None /\ l.dp = None /\ l.ip = None /\ file[p] \in Inodes
  BY <1>1, <1>2 DEF WellFormed, Locs, IpPcs, IpLocked, DpLocked, NewPcs, WalkPcs
<1>4. file \in [Procs -> Inodes \cup {None}]
  BY DEF Inv, Base, TypeInv
<1>5. /\ file' \in [Procs -> Inodes \cup {None}] /\ \A q \in Procs \ {p} : file'[q] = file[q]
      /\ file'[p] = None
  BY <1>1, <1>3, <1>4
<1>6. /\ r \in Seq(Releases) /\ Tidy(r) /\ (r # <<>> => r[1].do \notin Last)
      /\ (r # <<>> /\ Len(r) = 1 /\ r[1].do = "unlock" => r[1].ino = file'[p])
      /\ \A j \in Inodes : Puts(r, j) = One(file[p] = j) /\ Locks(r, j) = 0
  <2>1. /\ r \in Seq(Releases) /\ Len(r) = 1 /\ Tidy(r) /\ r # <<>> /\ r[1] = [do |-> "put", ino |-> file[p]]
        /\ \A j : Puts(r, j) = One(file[p] = j) /\ Locks(r, j) = 0
    BY <1>3, RelPut
  <2> HIDE DEF r
  <2> QED BY <2>1 DEF Last
<1> HIDE DEF r
<1>7. \A j \in Inodes : Holds(l, file[p], j) = One(file'[p] = j) + Puts(r, j)
  BY <1>1, <1>2, <1>3, <1>5, <1>6, Constants DEF Holds, One
<1>8. \A j \in Inodes : Claims(l, j) = Locks(r, j)
  BY <1>1, <1>2, <1>3, <1>6, Constants DEF Claims, One, DpLocked, IpLocked, NewPcs
<1>9. l.pc \notin NewPcs \cup {"u_parent"} /\ \A j \in Inodes : ~PendIp(l, j)
  BY <1>1, <1>3, Constants DEF PendIp, NewPcs, WalkPcs
<1> QED BY <1>1, <1>5, <1>6, <1>7, <1>8, <1>9, ReturnedGood DEF l

(* link() of a directory. *)
LEMMA LinkEnds ==
  ASSUME Inv, NEW p \in Procs, Link(p), type[loc[p].ip] = "dir", UNCHANGED past
  PROVE  Good(p)
<1> DEFINE l == loc[p]
           r == unlockput(l.ip)
<1>1. l.pc = "link" /\ l.rel = <<>> /\ Return(p, r) /\ file' = file
      /\ UNCHANGED <<type, nlink, entry, dots, ref, busy, valid, strays, crashes, damaged>>
  BY DEF Link, At, disk, icache, past
<1>2. /\ WellFormed(l, file[p]) /\ l \in Locs /\ file[p] \in Inodes \cup {None}
      /\ \A j : Puts(l.rel, j) = 0 /\ Locks(l.rel, j) = 0
  BY <1>1, AtFacts DEF Inv
<1>3. l.cur = None /\ l.dp = None /\ l.ip \in Inodes
  BY <1>1, <1>2, type[loc[p].ip] = "dir" DEF WellFormed, Locs, IpPcs, IpLocked, DpLocked, NewPcs, WalkPcs
<1>4. file \in [Procs -> Inodes \cup {None}]
  BY DEF Inv, Base, TypeInv
<1>5. /\ file' \in [Procs -> Inodes \cup {None}] /\ \A q \in Procs \ {p} : file'[q] = file[q]
      /\ file'[p] = file[p]
  BY <1>1, <1>3, <1>4
<1>6. /\ r \in Seq(Releases) /\ Tidy(r) /\ (r # <<>> => r[1].do \notin Last)
      /\ (r # <<>> /\ Len(r) = 1 /\ r[1].do = "unlock" => r[1].ino = file'[p])
      /\ \A j \in Inodes : Puts(r, j) = One(l.ip = j) /\ Locks(r, j) = One(l.ip = j)
  <2>1. /\ r \in Seq(Releases) /\ Len(r) = 2 /\ Tidy(r) /\ r[1] = [do |-> "unlock", ino |-> l.ip]
        /\ \A j : Puts(r, j) = One(l.ip = j) /\ Locks(r, j) = One(l.ip = j)
    BY <1>3, RelUnlockput
  <2> HIDE DEF r
  <2> QED BY <2>1 DEF Last
<1> HIDE DEF r
<1>7. \A j \in Inodes : Holds(l, file[p], j) = One(file'[p] = j) + Puts(r, j)
  BY <1>1, <1>2, <1>3, <1>5, <1>6, Constants DEF Holds, One
<1>8. \A j \in Inodes : Claims(l, j) = Locks(r, j)
  BY <1>1, <1>2, <1>3, <1>6, Constants DEF Claims, One, DpLocked, IpLocked, NewPcs
<1>9. l.pc \notin NewPcs \cup {"u_parent"} /\ \A j \in Inodes : ~PendIp(l, j)
  BY <1>1, <1>3, Constants DEF PendIp, NewPcs, WalkPcs
<1> QED BY <1>1, <1>5, <1>6, <1>7, <1>8, <1>9, ReturnedGood DEF l

(* unlink() of a name that is not there ... *)
LEMMA UnlinkLookupEnds ==
  ASSUME Inv, NEW p \in Procs, UnlinkLookup(p), dirlookup(loc[p].dp, Name(p)) = None, UNCHANGED past
  PROVE  Good(p)
<1> DEFINE l == loc[p]
           r == unlockput(l.dp)
<1>1. l.pc = "unlink" /\ l.rel = <<>> /\ Return(p, r) /\ file' = file
      /\ UNCHANGED <<type, nlink, entry, dots, ref, busy, valid, strays, crashes, damaged>>
  BY DEF UnlinkLookup, At, disk, icache, past
<1>2. /\ WellFormed(l, file[p]) /\ l \in Locs /\ file[p] \in Inodes \cup {None}
      /\ \A j : Puts(l.rel, j) = 0 /\ Locks(l.rel, j) = 0
  BY <1>1, AtFacts DEF Inv
<1>3. l.cur = None /\ l.ip = None /\ l.dp \in Inodes
  BY <1>1, <1>2, dirlookup(loc[p].dp, Name(p)) = None DEF WellFormed, Locs, IpPcs, IpLocked, DpLocked, NewPcs, WalkPcs
<1>4. file \in [Procs -> Inodes \cup {None}]
  BY DEF Inv, Base, TypeInv
<1>5. /\ file' \in [Procs -> Inodes \cup {None}] /\ \A q \in Procs \ {p} : file'[q] = file[q]
      /\ file'[p] = file[p]
  BY <1>1, <1>3, <1>4
<1>6. /\ r \in Seq(Releases) /\ Tidy(r) /\ (r # <<>> => r[1].do \notin Last)
      /\ (r # <<>> /\ Len(r) = 1 /\ r[1].do = "unlock" => r[1].ino = file'[p])
      /\ \A j \in Inodes : Puts(r, j) = One(l.dp = j) /\ Locks(r, j) = One(l.dp = j)
  <2>1. /\ r \in Seq(Releases) /\ Len(r) = 2 /\ Tidy(r) /\ r[1] = [do |-> "unlock", ino |-> l.dp]
        /\ \A j : Puts(r, j) = One(l.dp = j) /\ Locks(r, j) = One(l.dp = j)
    BY <1>3, RelUnlockput
  <2> HIDE DEF r
  <2> QED BY <2>1 DEF Last
<1> HIDE DEF r
<1>7. \A j \in Inodes : Holds(l, file[p], j) = One(file'[p] = j) + Puts(r, j)
  BY <1>1, <1>2, <1>3, <1>5, <1>6, Constants DEF Holds, One
<1>8. \A j \in Inodes : Claims(l, j) = Locks(r, j)
  BY <1>1, <1>2, <1>3, <1>6, Constants DEF Claims, One, DpLocked, IpLocked, NewPcs
<1>9. l.pc \notin NewPcs \cup {"u_parent"} /\ \A j \in Inodes : ~PendIp(l, j)
  BY <1>1, <1>3, Constants DEF PendIp, NewPcs, WalkPcs
<1> QED BY <1>1, <1>5, <1>6, <1>7, <1>8, <1>9, ReturnedGood DEF l

(* ... and of a directory that is not empty. *)
LEMMA UnlinkClearEnds ==
  ASSUME Inv, NEW p \in Procs, UnlinkClear(p), type[loc[p].ip] = "dir" /\ ~isdirempty(loc[p].ip), UNCHANGED past
  PROVE  Good(p)
<1> DEFINE l == loc[p]
           r == unlockput(l.ip) \o unlockput(l.dp)
<1>1. l.pc = "u_check" /\ l.rel = <<>> /\ Return(p, r) /\ file' = file
      /\ UNCHANGED <<type, nlink, entry, dots, ref, busy, valid, strays, crashes, damaged>>
  BY DEF UnlinkClear, At, disk, icache, past
<1>2. /\ WellFormed(l, file[p]) /\ l \in Locs /\ file[p] \in Inodes \cup {None}
      /\ \A j : Puts(l.rel, j) = 0 /\ Locks(l.rel, j) = 0
  BY <1>1, AtFacts DEF Inv
<1>3. l.cur = None /\ l.ip \in Inodes /\ l.dp \in Inodes
  BY <1>1, <1>2, type[loc[p].ip] = "dir" /\ ~isdirempty(loc[p].ip)
       DEF WellFormed, Locs, IpPcs, IpLocked, DpLocked, NewPcs, WalkPcs
<1>4. file \in [Procs -> Inodes \cup {None}]
  BY DEF Inv, Base, TypeInv
<1>5. /\ file' \in [Procs -> Inodes \cup {None}] /\ \A q \in Procs \ {p} : file'[q] = file[q]
      /\ file'[p] = file[p]
  BY <1>1, <1>3, <1>4
<1>6. /\ r \in Seq(Releases) /\ Tidy(r) /\ (r # <<>> => r[1].do \notin Last)
      /\ (r # <<>> /\ Len(r) = 1 /\ r[1].do = "unlock" => r[1].ino = file'[p])
      /\ \A j \in Inodes : Puts(r, j) = One(l.ip = j) + One(l.dp = j) /\ Locks(r, j) = One(l.ip = j) + One(l.dp = j)
  <2>1. PICK s, t \in Seq(Releases) : s = unlockput(l.ip) /\ t = unlockput(l.dp)
    BY <1>3, RelUnlockput
  <2>2. /\ Tidy(s) /\ Tidy(t) /\ Len(s) = 2 /\ Len(t) = 2
        /\ s[1].do = "unlock" /\ t[1].do = "unlock" /\ "unlock" \notin Last
        /\ \A j : /\ Puts(s, j) = One(l.ip = j) /\ Puts(t, j) = One(l.dp = j)
                 /\ Locks(s, j) = One(l.ip = j) /\ Locks(t, j) = One(l.dp = j)
    <3>1. /\ Tidy(unlockput(l.ip)) /\ Len(unlockput(l.ip)) = 2
          /\ unlockput(l.ip)[1] = [do |-> "unlock", ino |-> l.ip]
          /\ \A j : Puts(unlockput(l.ip), j) = One(l.ip = j) /\ Locks(unlockput(l.ip), j) = One(l.ip = j)
      BY <1>3, RelUnlockput
    <3>2. /\ Tidy(unlockput(l.dp)) /\ Len(unlockput(l.dp)) = 2
          /\ unlockput(l.dp)[1] = [do |-> "unlock", ino |-> l.dp]
          /\ \A j : Puts(unlockput(l.dp), j) = One(l.dp = j) /\ Locks(unlockput(l.dp), j) = One(l.dp = j)
      BY <1>3, RelUnlockput
    <3> QED BY <2>1, <3>1, <3>2 DEF Last
  <2>3. /\ s \o t \in Seq(Releases) /\ Len(s \o t) = Len(s) + Len(t) /\ Tidy(s \o t)
        /\ s \o t # <<>> /\ (s \o t)[1] = s[1]
        /\ \A j : /\ Puts(s \o t, j) = Puts(s, j) + Puts(t, j)
                 /\ Locks(s \o t, j) = Locks(s, j) + Locks(t, j)
    <3>1. Len(s) + Len(t) <= 4 /\ Len(s) # 0 /\ Len(t) # 0 /\ Len(s) # 1 /\ Len(t) # 1
      BY <2>2
    <3> QED BY <2>2, <3>1, RelBoth
  <2>4. Len(s \o t) # 1
    BY <2>2, <2>3
  <2> QED BY <2>1, <2>2, <2>3, <2>4
<1> HIDE DEF r
<1>7. \A j \in Inodes : Holds(l, file[p], j) = One(file'[p] = j) + Puts(r, j)
  <2> SUFFICES ASSUME NEW j \in Inodes PROVE Holds(l, file[p], j) = One(file'[p] = j) + Puts(r, j)
    OBVIOUS
  <2>1. One(l.cur = j) = 0 /\ Puts(l.rel, j) = 0 /\ One(file'[p] = j) = One(file[p] = j)
    BY <1>2, <1>3, <1>5, Constants DEF One
  <2>2. One(l.dp = j) \in Nat /\ One(l.ip = j) \in Nat /\ One(file[p] = j) \in Nat
    BY OneNat
  <2> QED BY <1>6, <2>1, <2>2 DEF Holds
<1>8. \A j \in Inodes : Claims(l, j) = Locks(r, j)
  BY <1>1, <1>2, <1>3, <1>6, Constants DEF Claims, One, DpLocked, IpLocked, NewPcs
<1>9. l.pc \notin NewPcs \cup {"u_parent"} /\ \A j \in Inodes : ~PendIp(l, j)
  BY <1>1, <1>3, Constants DEF PendIp, NewPcs, WalkPcs
<1> QED BY <1>1, <1>5, <1>6, <1>7, <1>8, <1>9, ReturnedGood DEF l

(* namex() stops at the parent ... *)
LEMMA WalkParent ==
  ASSUME Inv, NEW p \in Procs, Walk(p),
         type[loc[p].cur] = "dir" /\ WantsParent(p) /\ Len(loc[p].rest) = 1, UNCHANGED past
  PROVE  Good(p)
<1> DEFINE l == loc[p]
           m == loc'[p]
<1>1. /\ l.pc = "walked" /\ l.rel = <<>> /\ UNCHANGED <<ref, busy, valid>>
      /\ UNCHANGED <<type, nlink, entry, dots, file, strays, crashes, damaged>>
  BY DEF Walk, At, disk, icache, past
<1>2. /\ WellFormed(l, file[p]) /\ l \in Locs /\ loc \in [Procs -> Locs]
      /\ \A j : Puts(l.rel, j) = 0 /\ Locks(l.rel, j) = 0
  BY <1>1, AtFacts DEF Inv, Base, TypeInv
<1>0. loc' = [loc EXCEPT ![p].pc = "got", ![p].rel = unlock(l.cur)]
  BY DEF Walk, At, disk, icache, past
<1>3. l.cur \in Inodes /\ l.dp = None
  BY <1>1, <1>2 DEF WellFormed, Locs, DpLocked, NewPcs
<1>4. /\ m.pc = "got" /\ m.call = l.call /\ m.rest = l.rest /\ m.new = l.new
      /\ m.cur = l.cur /\ m.dp = l.dp /\ m.ip = l.ip /\ m.rel = unlock(l.cur)
  BY <1>0, <1>1, <1>2
<1>5. Moves(p)
  <2>1. loc' = [q \in Procs |-> IF q = p THEN loc'[p] ELSE loc[q]]
    BY <1>0, <1>2
  <2>2. m = [pc |-> m.pc, call |-> m.call, rest |-> m.rest, new |-> m.new, cur |-> m.cur,
             dp |-> m.dp, ip |-> m.ip, rel |-> m.rel]
    BY <1>0, <1>2 DEF Locs
  <2> QED BY <2>1, <2>2 DEF Moves
<1>6. /\ m.rel \in Seq(Releases) /\ Tidy(m.rel) /\ m.rel[1].ino = l.cur
      /\ \A j : ~HeadIs(m, Last, j)
      /\ \A j \in Inodes : Puts(m.rel, j) = 0 /\ Locks(m.rel, j) = One(l.cur = j)
  <2>1. /\ m.rel \in Seq(Releases) /\ Len(m.rel) = 1 /\ Tidy(m.rel) /\ m.rel # <<>>
        /\ m.rel[1] = [do |-> "unlock", ino |-> l.cur]
        /\ \A j : Puts(m.rel, j) = 0 /\ Locks(m.rel, j) = One(l.cur = j)
    BY <1>3, <1>4, RelUnlock
  <2> HIDE DEF m
  <2> QED BY <2>1 DEF HeadIs, Last
<1> HIDE DEF m
<1>7. m \in Locs /\ loc' \in [Procs -> Locs] /\ \A q \in Procs \ {p} : loc'[q] = loc[q]
  <2>1. m.pc \in PCs
    BY <1>4 DEF PCs
  <2> QED BY <1>2, <1>3, <1>4, <1>5, <1>6, <2>1, Moved DEF Inv, Locs, m
<1>8. WellFormed(m, file[p])
  <2>1. /\ m.pc \in WalkPcs /\ m.pc \notin DpLocked /\ m.pc \notin IpPcs /\ m.pc \notin NewPcs
        /\ m.pc \in RelPcs /\ l.pc \notin IpPcs /\ l.pc \notin DpLocked
    BY <1>1, <1>4 DEF DpLocked, IpPcs, IpLocked, NewPcs, WalkPcs, RelPcs
  <2>2. Holds(m, file[p], m.rel[1].ino) >= 1
    <3>1. /\ One(m.cur = l.cur) = 1 /\ One(m.dp = l.cur) \in Nat /\ One(m.ip = l.cur) \in Nat
          /\ One(file[p] = l.cur) \in Nat /\ Puts(m.rel, l.cur) \in Nat
      BY <1>4, OneNat, CountType DEF One, Puts
    <3> QED BY <1>6, <3>1 DEF Holds
  <2> QED BY <1>1, <1>2, <1>4, <1>6, <2>1, <2>2, type[loc[p].cur] = "dir" /\ WantsParent(p) /\ Len(loc[p].rest) = 1
       DEF WellFormed, WantsParent, Wants
<1>9. \A j \in Inodes : Holds(m, file[p], j) = Holds(l, file[p], j) + One(None = j)
  BY <1>1, <1>2, <1>3, <1>4, <1>6, Constants DEF Holds, One
<1>10. \A j \in Inodes : Claims(m, j) = Claims(l, j) + One(None = j)
  BY <1>1, <1>2, <1>3, <1>4, <1>6, Constants DEF Claims, One, DpLocked, IpLocked, NewPcs
<1>11. /\ \A j \in Inodes : PendIp(m, j) <=> PendIp(l, j)
       /\ Kind(m) /\ Look(m)
  <2>1. Kind(l) /\ Look(l)
    BY DEF Inv, KindInv
  <2> QED BY <1>1, <1>3, <1>4, <2>1, Constants, type[loc[p].cur] = "dir" /\ WantsParent(p) /\ Len(loc[p].rest) = 1
       DEF PendIp, Kind, Look, WalkPcs, NewPcs, Wants, WantsParent
<1>12. l.pc \notin NewPcs \cup {"u_parent"} /\ m.pc \notin NewPcs \cup {"u_parent"}
  BY <1>1, <1>4 DEF NewPcs
<1>13. Igets(None) /\ Ilocks(p, None) /\ (None \in Inodes => None = ROOTINO \/ Named(None))
  BY <1>1, IgetNone, IlockNone, Constants DEF Inv
<1> HIDE DEF l
<1> QED BY <1>1, <1>6, <1>7, <1>8, <1>9, <1>10, <1>11, <1>12, <1>13, MovedGood DEF l, m

(* ... or finds nothing ... *)
LEMMA WalkNowhere ==
  ASSUME Inv, NEW p \in Procs, Walk(p),
         (type[loc[p].cur] # "dir" \/ (~(WantsParent(p) /\ Len(loc[p].rest) = 1) /\ dirlookup(loc[p].cur, Head(loc[p].rest)) = None)), UNCHANGED past
  PROVE  Good(p)
<1> DEFINE l == loc[p]
           m == loc'[p]
<1>1. /\ l.pc = "walked" /\ l.rel = <<>> /\ UNCHANGED <<ref, busy, valid>>
      /\ UNCHANGED <<type, nlink, entry, dots, file, strays, crashes, damaged>>
  BY DEF Walk, At, disk, icache, past
<1>2. /\ WellFormed(l, file[p]) /\ l \in Locs /\ loc \in [Procs -> Locs]
      /\ \A j : Puts(l.rel, j) = 0 /\ Locks(l.rel, j) = 0
  BY <1>1, AtFacts DEF Inv, Base, TypeInv
<1>0. loc' = [loc EXCEPT ![p].pc = "nowhere", ![p].cur = None, ![p].rel = unlockput(l.cur)]
  BY DEF Walk, At, disk, icache, past
<1>3. l.cur \in Inodes /\ l.dp = None
  BY <1>1, <1>2 DEF WellFormed, Locs, DpLocked, NewPcs
<1>4. /\ m.pc = "nowhere" /\ m.call = l.call /\ m.rest = l.rest /\ m.new = l.new
      /\ m.cur = None /\ m.dp = l.dp /\ m.ip = l.ip /\ m.rel = unlockput(l.cur)
  BY <1>0, <1>1, <1>2
<1>5. Moves(p)
  <2>1. loc' = [q \in Procs |-> IF q = p THEN loc'[p] ELSE loc[q]]
    BY <1>0, <1>2
  <2>2. m = [pc |-> m.pc, call |-> m.call, rest |-> m.rest, new |-> m.new, cur |-> m.cur,
             dp |-> m.dp, ip |-> m.ip, rel |-> m.rel]
    BY <1>0, <1>2 DEF Locs
  <2> QED BY <2>1, <2>2 DEF Moves
<1>6. /\ m.rel \in Seq(Releases) /\ Tidy(m.rel) /\ Len(m.rel) # 1
      /\ \A j : ~HeadIs(m, Last, j)
      /\ \A j \in Inodes : Puts(m.rel, j) = One(l.cur = j) /\ Locks(m.rel, j) = One(l.cur = j)
  <2>1. /\ unlockput(l.cur) \in Seq(Releases) /\ Len(unlockput(l.cur)) = 2 /\ Tidy(unlockput(l.cur))
        /\ unlockput(l.cur) # <<>> /\ unlockput(l.cur)[1] = [do |-> "unlock", ino |-> l.cur]
        /\ \A j : Puts(unlockput(l.cur), j) = One(l.cur = j) /\ Locks(unlockput(l.cur), j) = One(l.cur = j)
    BY <1>3, RelUnlockput
  <2>2. m.rel = unlockput(l.cur)
    BY <1>4
  <2> HIDE DEF m
  <2> QED BY <2>1, <2>2 DEF HeadIs, Last
<1> HIDE DEF m
<1>7. m \in Locs /\ loc' \in [Procs -> Locs] /\ \A q \in Procs \ {p} : loc'[q] = loc[q]
  <2>1. m.pc \in PCs
    BY <1>4 DEF PCs
  <2> QED BY <1>2, <1>3, <1>4, <1>5, <1>6, <2>1, Moved DEF Inv, Locs, m
<1>8. WellFormed(m, file[p])
  <2>1. /\ m.pc \in WalkPcs /\ m.pc \notin DpLocked /\ m.pc \notin IpPcs /\ m.pc \notin NewPcs
        /\ m.pc \in RelPcs /\ l.pc \notin IpPcs /\ l.pc \notin DpLocked
    BY <1>1, <1>4 DEF DpLocked, IpPcs, IpLocked, NewPcs, WalkPcs, RelPcs
  <2> QED BY <1>1, <1>2, <1>4, <1>6, <2>1 DEF WellFormed
<1>9. \A j \in Inodes : Holds(m, file[p], j) = Holds(l, file[p], j) + One(None = j)
  BY <1>1, <1>2, <1>3, <1>4, <1>6, Constants DEF Holds, One
<1>10. \A j \in Inodes : Claims(m, j) = Claims(l, j) + One(None = j)
  BY <1>1, <1>2, <1>3, <1>4, <1>6, Constants DEF Claims, One, DpLocked, IpLocked, NewPcs
<1>11. /\ \A j \in Inodes : PendIp(m, j) <=> PendIp(l, j)
       /\ Kind(m) /\ Look(m)
  <2>1. Kind(l) /\ Look(l)
    BY DEF Inv, KindInv
  <2> QED BY <1>1, <1>3, <1>4, <2>1, Constants,
       (type[loc[p].cur] # "dir" \/ (~(WantsParent(p) /\ Len(loc[p].rest) = 1) /\ dirlookup(loc[p].cur, Head(loc[p].rest)) = None))
       DEF PendIp, Kind, Look, WalkPcs, NewPcs, Wants, WantsParent
<1>12. l.pc \notin NewPcs \cup {"u_parent"} /\ m.pc \notin NewPcs \cup {"u_parent"}
  BY <1>1, <1>4 DEF NewPcs
<1>13. Igets(None) /\ Ilocks(p, None) /\ (None \in Inodes => None = ROOTINO \/ Named(None))
  BY <1>1, IgetNone, IlockNone, Constants DEF Inv
<1> HIDE DEF l
<1> QED BY <1>1, <1>6, <1>7, <1>8, <1>9, <1>10, <1>11, <1>12, <1>13, MovedGood DEF l, m

(* ... or goes on with what it found. *)
LEMMA WalkOn ==
  ASSUME Inv, NEW p \in Procs, Walk(p),
         type[loc[p].cur] = "dir" /\ ~(WantsParent(p) /\ Len(loc[p].rest) = 1) /\ dirlookup(loc[p].cur, Head(loc[p].rest)) # None, UNCHANGED past
  PROVE  Good(p)
<1> DEFINE l == loc[p]
           m == loc'[p]
           i == dirlookup(l.cur, Head(l.rest))
<1>1. /\ l.pc = "walked" /\ l.rel = <<>> /\ iget(i) /\ UNCHANGED busy
      /\ UNCHANGED <<type, nlink, entry, dots, file, strays, crashes, damaged>>
  BY DEF Walk, At, disk, icache, past, dirlookup
<1>2. /\ WellFormed(l, file[p]) /\ l \in Locs /\ loc \in [Procs -> Locs]
      /\ \A j : Puts(l.rel, j) = 0 /\ Locks(l.rel, j) = 0
  BY <1>1, AtFacts DEF Inv, Base, TypeInv
<1>0. loc' = [loc EXCEPT ![p].pc = IF Len(loc[p].rest) = 1 THEN "got" ELSE "walk",
                          ![p].cur = i, ![p].rest = Tail(@), ![p].rel = unlockput(l.cur)]
      /\ i # None /\ i = entry[l.cur][Head(l.rest)]
  BY DEF Walk, At, disk, icache, past, dirlookup
<1>3. /\ l.cur \in Inodes /\ i \in Inodes /\ l.dp = None /\ Head(l.rest) \in Names /\ Tail(l.rest) \in Seq(Names)
      /\ Len(l.rest) # 1 => Len(Tail(l.rest)) >= 1
  <2>1. l.cur \in Inodes /\ l.rest \in Seq(Names) /\ Len(l.rest) >= 1
    BY <1>1, <1>2 DEF WellFormed, Locs
  <2>2. Head(l.rest) \in Names /\ Tail(l.rest) \in Seq(Names) /\ (Len(l.rest) # 1 => Len(Tail(l.rest)) >= 1)
    BY <2>1, RestTail
  <2>3. l.dp = None
    BY <1>1, <1>2 DEF WellFormed, DpLocked, NewPcs
  <2> QED BY <1>0, <2>1, <2>2, <2>3 DEF dirlookup, Inv, Base, TypeInv
<1>4. /\ m.pc \in {"got", "walk"} /\ (m.pc = "got" <=> Len(l.rest) = 1)
      /\ m.call = l.call /\ m.rest = Tail(l.rest) /\ m.new = l.new
      /\ m.cur = i /\ m.dp = l.dp /\ m.ip = l.ip /\ m.rel = unlockput(l.cur)
  BY <1>0, <1>1, <1>2
<1>5. Moves(p)
  <2>1. loc' = [q \in Procs |-> IF q = p THEN loc'[p] ELSE loc[q]]
    BY <1>0, <1>2
  <2>2. m = [pc |-> m.pc, call |-> m.call, rest |-> m.rest, new |-> m.new, cur |-> m.cur,
             dp |-> m.dp, ip |-> m.ip, rel |-> m.rel]
    BY <1>0, <1>2 DEF Locs
  <2> QED BY <2>1, <2>2 DEF Moves
<1>6. /\ m.rel \in Seq(Releases) /\ Tidy(m.rel) /\ Len(m.rel) # 1
      /\ \A j : ~HeadIs(m, Last, j)
      /\ \A j \in Inodes : Puts(m.rel, j) = One(l.cur = j) /\ Locks(m.rel, j) = One(l.cur = j)
  <2>1. /\ unlockput(l.cur) \in Seq(Releases) /\ Len(unlockput(l.cur)) = 2 /\ Tidy(unlockput(l.cur))
        /\ unlockput(l.cur) # <<>> /\ unlockput(l.cur)[1] = [do |-> "unlock", ino |-> l.cur]
        /\ \A j : Puts(unlockput(l.cur), j) = One(l.cur = j) /\ Locks(unlockput(l.cur), j) = One(l.cur = j)
    BY <1>3, RelUnlockput
  <2>2. m.rel = unlockput(l.cur)
    BY <1>4
  <2> HIDE DEF m
  <2> QED BY <2>1, <2>2 DEF HeadIs, Last
<1> HIDE DEF m, i
<1>7. m \in Locs /\ loc' \in [Procs -> Locs] /\ \A q \in Procs \ {p} : loc'[q] = loc[q]
  <2>1. m.pc \in PCs
    BY <1>4 DEF PCs
  <2> QED BY <1>2, <1>3, <1>4, <1>5, <1>6, <2>1, Moved DEF Inv, Locs, m
<1>8. WellFormed(m, file[p])
  <2>1. /\ m.pc \in WalkPcs /\ m.pc \notin DpLocked /\ m.pc \notin IpPcs /\ m.pc \notin NewPcs
        /\ m.pc \in RelPcs /\ l.pc \notin IpPcs /\ l.pc \notin DpLocked
    BY <1>1, <1>4 DEF DpLocked, IpPcs, IpLocked, NewPcs, WalkPcs, RelPcs
  <2>2. m.pc = "got" => ~Wants(m)
    BY <1>4, ~(WantsParent(p) /\ Len(loc[p].rest) = 1) DEF Wants, WantsParent
  <2> QED BY <1>1, <1>2, <1>3, <1>4, <1>6, <2>1, <2>2, Constants DEF WellFormed
<1>9. \A j \in Inodes : Holds(m, file[p], j) = Holds(l, file[p], j) + One(i = j)
  BY <1>1, <1>2, <1>3, <1>4, <1>6, Constants DEF Holds, One
<1>10. \A j \in Inodes : Claims(m, j) = Claims(l, j) + One(None = j)
  BY <1>1, <1>2, <1>3, <1>4, <1>6, Constants DEF Claims, One, DpLocked, IpLocked, NewPcs
<1>11. /\ \A j \in Inodes : PendIp(m, j) <=> PendIp(l, j)
       /\ Kind(m) /\ Look(m)
  <2>1. Kind(l) /\ Look(l)
    BY DEF Inv, KindInv
  <2> QED BY <1>1, <1>3, <1>4, <2>1, Constants,
       type[loc[p].cur] = "dir" /\ ~(WantsParent(p) /\ Len(loc[p].rest) = 1) /\ dirlookup(loc[p].cur, Head(loc[p].rest)) # None
       DEF PendIp, Kind, Look, WalkPcs, NewPcs, Wants, WantsParent
<1>12. l.pc \notin NewPcs \cup {"u_parent"} /\ m.pc \notin NewPcs \cup {"u_parent"}
  BY <1>1, <1>4 DEF NewPcs
<1>13. Igets(i) /\ Ilocks(p, None) /\ (i \in Inodes => i = ROOTINO \/ Named(i))
  <2>1. Named(i)
    BY <1>0, <1>3 DEF Named
  <2> QED BY <1>1, <1>3, <2>1, IgetSome, IlockNone DEF Inv, iget
<1> HIDE DEF l
<1> QED BY <1>1, <1>6, <1>7, <1>8, <1>9, <1>10, <1>11, <1>12, <1>13, MovedGood DEF l, m

(* link() found no directory for the new link. *)
LEMMA NowhereBad ==
  ASSUME Inv, NEW p \in Procs, Nowhere(p), loc[p].ip # None, UNCHANGED past
  PROVE  Good(p)
<1> DEFINE l == loc[p]
           m == loc'[p]
<1>1. /\ l.pc = "nowhere" /\ l.rel = <<>> /\ UNCHANGED <<ref, busy, valid>>
      /\ UNCHANGED <<type, nlink, entry, dots, file, strays, crashes, damaged>>
  BY DEF Nowhere, At, disk, icache, past
<1>2. /\ WellFormed(l, file[p]) /\ l \in Locs /\ loc \in [Procs -> Locs]
      /\ \A j : Puts(l.rel, j) = 0 /\ Locks(l.rel, j) = 0
  BY <1>1, AtFacts DEF Inv, Base, TypeInv
<1>0. loc' = [loc EXCEPT ![p] = [l EXCEPT !.pc = "bad"]]
  BY DEF Nowhere, At, disk, icache, past
<1>3. l.cur = None /\ l.dp = None /\ l.ip \in Inodes
  BY <1>1, <1>2, loc[p].ip # None DEF WellFormed, Locs, DpLocked, NewPcs
<1>4. /\ m.pc = "bad" /\ m.call = l.call /\ m.rest = l.rest /\ m.new = l.new
      /\ m.cur = l.cur /\ m.dp = l.dp /\ m.ip = l.ip /\ m.rel = <<>>
  BY <1>0, <1>1, <1>2
<1>5. Moves(p)
  <2>1. loc' = [q \in Procs |-> IF q = p THEN loc'[p] ELSE loc[q]]
    BY <1>0, <1>2
  <2>2. m = [pc |-> m.pc, call |-> m.call, rest |-> m.rest, new |-> m.new, cur |-> m.cur,
             dp |-> m.dp, ip |-> m.ip, rel |-> m.rel]
    BY <1>0, <1>2 DEF Locs
  <2> QED BY <2>1, <2>2 DEF Moves
<1>6. /\ m.rel \in Seq(Releases) /\ Tidy(m.rel) /\ Len(m.rel) = 0
      /\ \A j : ~HeadIs(m, Last, j)
      /\ \A j \in Inodes : Puts(m.rel, j) = 0 /\ Locks(m.rel, j) = 0
  BY <1>4, RelEmpty DEF HeadIs
<1> HIDE DEF m
<1>7. m \in Locs /\ loc' \in [Procs -> Locs] /\ \A q \in Procs \ {p} : loc'[q] = loc[q]
  <2>1. m.pc \in PCs
    BY <1>4 DEF PCs
  <2> QED BY <1>2, <1>3, <1>4, <1>5, <1>6, <2>1, Moved DEF Inv, Locs, m
<1>8. WellFormed(m, file[p])
  <2>1. /\ m.pc \notin DpLocked /\ m.pc \in IpPcs /\ m.pc \notin NewPcs /\ l.pc \in WalkPcs
        /\ m.pc \notin WalkPcs /\ l.pc \notin IpPcs
    BY <1>1, <1>4 DEF DpLocked, IpPcs, IpLocked, NewPcs, WalkPcs, RelPcs
  <2> QED BY <1>1, <1>2, <1>3, <1>4, <1>6, <2>1 DEF WellFormed
<1>9. \A j \in Inodes : Holds(m, file[p], j) = Holds(l, file[p], j) + One(None = j)
  BY <1>1, <1>2, <1>3, <1>4, <1>6, Constants DEF Holds, One
<1>10. \A j \in Inodes : Claims(m, j) = Claims(l, j) + One(None = j)
  BY <1>1, <1>2, <1>3, <1>4, <1>6, Constants DEF Claims, One, DpLocked, IpLocked, NewPcs
<1>11. /\ \A j \in Inodes : PendIp(m, j) <=> PendIp(l, j)
       /\ Kind(m) /\ Look(m)
  <2>1. Kind(l) /\ Look(l)
    BY DEF Inv, KindInv
  <2> QED BY <1>1, <1>3, <1>4, <2>1, Constants, loc[p].ip # None
       DEF PendIp, Kind, Look, WalkPcs, NewPcs, Wants, WantsParent
<1>12. l.pc \notin NewPcs \cup {"u_parent"} /\ m.pc \notin NewPcs \cup {"u_parent"}
  BY <1>1, <1>4 DEF NewPcs
<1>13. Igets(None) /\ Ilocks(p, None) /\ (None \in Inodes => None = ROOTINO \/ Named(None))
  BY <1>1, IgetNone, IlockNone, Constants DEF Inv
<1> HIDE DEF l
<1> QED BY <1>1, <1>6, <1>7, <1>8, <1>9, <1>10, <1>11, <1>12, <1>13, MovedGood DEF l, m

(* create() found a file to open. *)
LEMMA FoundOpened ==
  ASSUME Inv, NEW p \in Procs, Found(p), loc[p].call = "create" /\ type[loc[p].ip] = "file", UNCHANGED past
  PROVE  Good(p)
<1> DEFINE l == loc[p]
           m == loc'[p]
<1>1. /\ l.pc = "found_locked" /\ l.rel = <<>> /\ UNCHANGED <<ref, busy, valid>>
      /\ UNCHANGED <<type, nlink, entry, dots, file, strays, crashes, damaged>>
  BY DEF Found, At, disk, icache, past
<1>2. /\ WellFormed(l, file[p]) /\ l \in Locs /\ loc \in [Procs -> Locs]
      /\ \A j : Puts(l.rel, j) = 0 /\ Locks(l.rel, j) = 0
  BY <1>1, AtFacts DEF Inv, Base, TypeInv
<1>0. loc' = [loc EXCEPT ![p].pc = "opened"]
  BY DEF Found, At, disk, icache, past
<1>3. l.cur = None /\ l.dp = None /\ l.ip \in Inodes
  BY <1>1, <1>2 DEF WellFormed, Locs, DpLocked, NewPcs, IpPcs, IpLocked
<1>4. /\ m.pc = "opened" /\ m.call = l.call /\ m.rest = l.rest /\ m.new = l.new
      /\ m.cur = l.cur /\ m.dp = l.dp /\ m.ip = l.ip /\ m.rel = <<>>
  BY <1>0, <1>1, <1>2
<1>5. Moves(p)
  <2>1. loc' = [q \in Procs |-> IF q = p THEN loc'[p] ELSE loc[q]]
    BY <1>0, <1>2
  <2>2. m = [pc |-> m.pc, call |-> m.call, rest |-> m.rest, new |-> m.new, cur |-> m.cur,
             dp |-> m.dp, ip |-> m.ip, rel |-> m.rel]
    BY <1>0, <1>2 DEF Locs
  <2> QED BY <2>1, <2>2 DEF Moves
<1>6. /\ m.rel \in Seq(Releases) /\ Tidy(m.rel) /\ Len(m.rel) = 0
      /\ \A j : ~HeadIs(m, Last, j)
      /\ \A j \in Inodes : Puts(m.rel, j) = 0 /\ Locks(m.rel, j) = 0
  BY <1>1, <1>4, RelEmpty DEF HeadIs
<1> HIDE DEF m
<1>7. m \in Locs /\ loc' \in [Procs -> Locs] /\ \A q \in Procs \ {p} : loc'[q] = loc[q]
  <2>1. m.pc \in PCs
    BY <1>4 DEF PCs
  <2> QED BY <1>2, <1>3, <1>4, <1>5, <1>6, <2>1, Moved DEF Inv, Locs, m
<1>8. WellFormed(m, file[p])
  <2>1. /\ m.pc \notin DpLocked /\ m.pc \in IpPcs /\ m.pc \notin NewPcs /\ m.pc \notin WalkPcs
    BY <1>1, <1>4 DEF DpLocked, IpPcs, IpLocked, NewPcs, WalkPcs, RelPcs
  <2>2. l.call = "link" => Len(l.new) >= 1
    BY <1>2 DEF WellFormed
  <2>3. Len(m.rel) # 1 /\ m.rel = <<>> /\ Tidy(m.rel)
    BY <1>4, <1>6
  <2>4. m.pc = "opened" /\ m.cur = None /\ m.dp = None /\ m.ip # None
    BY <1>3, <1>4, Constants
  <2>5. m.call = "link" => Len(m.new) >= 1
    BY <1>4, <2>2
  <2> QED BY <2>1, <2>3, <2>4, <2>5 DEF WellFormed
<1>9. \A j \in Inodes : Holds(m, file[p], j) = Holds(l, file[p], j) + One(None = j)
  BY <1>1, <1>2, <1>3, <1>4, <1>6, Constants DEF Holds, One
<1>10. \A j \in Inodes : Claims(m, j) = Claims(l, j) + One(None = j)
  BY <1>1, <1>2, <1>3, <1>4, <1>6, Constants DEF Claims, One, DpLocked, IpLocked, NewPcs
<1>11. /\ \A j \in Inodes : PendIp(m, j) <=> PendIp(l, j)
       /\ Kind(m) /\ Look(m)
  <2>1. Kind(l) /\ Look(l)
    BY DEF Inv, KindInv
  <2> QED BY <1>1, <1>3, <1>4, <2>1, Constants, loc[p].call = "create" /\ type[loc[p].ip] = "file"
       DEF PendIp, Kind, Look, WalkPcs, NewPcs, Wants, WantsParent
<1>12. l.pc \notin NewPcs \cup {"u_parent"} /\ m.pc \notin NewPcs \cup {"u_parent"}
  BY <1>1, <1>4 DEF NewPcs
<1>13. Igets(None) /\ Ilocks(p, None) /\ (None \in Inodes => None = ROOTINO \/ Named(None))
  BY <1>1, IgetNone, IlockNone, Constants DEF Inv
<1> HIDE DEF l
<1> QED BY <1>1, <1>6, <1>7, <1>8, <1>9, <1>10, <1>11, <1>12, <1>13, MovedGood DEF l, m

(* create() locks the parent, *)
LEMMA GotCreate ==
  ASSUME Inv, NEW p \in Procs, GotLock(p), loc[p].call \in {"create", "mkdir"}, UNCHANGED past
  PROVE  Good(p)
<1> DEFINE l == loc[p]
           m == loc'[p]
<1>1. /\ l.pc = "got" /\ l.rel = <<>> /\ ilock(p, l.cur) /\ UNCHANGED ref
      /\ UNCHANGED <<type, nlink, entry, dots, file, strays, crashes, damaged>>
  BY DEF GotLock, At, disk, icache, past, Locs
<1>2. /\ WellFormed(l, file[p]) /\ l \in Locs /\ loc \in [Procs -> Locs]
      /\ \A j : Puts(l.rel, j) = 0 /\ Locks(l.rel, j) = 0
  BY <1>1, AtFacts DEF Inv, Base, TypeInv
<1>0. loc' = [loc EXCEPT ![p] = [[l EXCEPT !.cur = None] EXCEPT !.pc = "create", !.dp = l.cur]]
  BY <1>2, loc[p].call \in {"create", "mkdir"} DEF GotLock, At, disk, icache, past, Locs
<1>3. l.cur \in Inodes /\ l.dp = None /\ (l.call # "link" => l.ip = None) /\ l.ip \in Inodes \cup {None}
  BY <1>1, <1>2 DEF WellFormed, Locs, DpLocked, NewPcs, IpPcs, IpLocked
<1>4. /\ m.pc = "create" /\ m.call = l.call /\ m.rest = l.rest /\ m.new = l.new
      /\ m.cur = None /\ m.dp = l.cur /\ m.ip = l.ip /\ m.rel = <<>>
  BY <1>0, <1>1, <1>2
<1>5. Moves(p)
  <2>1. loc' = [q \in Procs |-> IF q = p THEN loc'[p] ELSE loc[q]]
    BY <1>0, <1>2
  <2>2. m = [pc |-> m.pc, call |-> m.call, rest |-> m.rest, new |-> m.new, cur |-> m.cur,
             dp |-> m.dp, ip |-> m.ip, rel |-> m.rel]
    BY <1>0, <1>2 DEF Locs
  <2> QED BY <2>1, <2>2 DEF Moves
<1>6. /\ m.rel \in Seq(Releases) /\ Tidy(m.rel) /\ Len(m.rel) = 0
      /\ \A j : ~HeadIs(m, Last, j)
      /\ \A j \in Inodes : Puts(m.rel, j) = 0 /\ Locks(m.rel, j) = 0
  BY <1>1, <1>4, RelEmpty DEF HeadIs
<1> HIDE DEF m
<1>7. m \in Locs /\ loc' \in [Procs -> Locs] /\ \A q \in Procs \ {p} : loc'[q] = loc[q]
  <2>1. m.pc \in PCs
    BY <1>4 DEF PCs
  <2> QED BY <1>2, <1>3, <1>4, <1>5, <1>6, <2>1, Moved DEF Inv, Locs, m
<1>8. WellFormed(m, file[p])
  <2>1. /\ m.pc \in DpLocked /\ m.pc \notin IpPcs /\ m.pc \notin NewPcs /\ m.pc \notin WalkPcs
    BY <1>1, <1>4 DEF DpLocked, IpPcs, IpLocked, NewPcs, WalkPcs, RelPcs
  <2> QED BY <1>1, <1>2, <1>3, <1>4, <1>6, <2>1, loc[p].call \in {"create", "mkdir"}, Constants DEF WellFormed, Wants
<1>9. \A j \in Inodes : Holds(m, file[p], j) = Holds(l, file[p], j) + One(None = j)
  BY <1>1, <1>2, <1>3, <1>4, <1>6, Constants DEF Holds, One
<1>10. \A j \in Inodes : Claims(m, j) = Claims(l, j) + One(l.cur = j)
  BY <1>1, <1>2, <1>3, <1>4, <1>6, Constants DEF Claims, One, DpLocked, IpLocked, NewPcs
<1>11. /\ \A j \in Inodes : PendIp(m, j) <=> PendIp(l, j)
       /\ Kind(m) /\ Look(m)
  <2>1. Kind(l) /\ Look(l)
    BY DEF Inv, KindInv
  <2> QED BY <1>1, <1>3, <1>4, <2>1, Constants, loc[p].call \in {"create", "mkdir"}
       DEF PendIp, Kind, Look, WalkPcs, NewPcs, Wants, WantsParent
<1>12. l.pc \notin NewPcs \cup {"u_parent"} /\ m.pc \notin NewPcs \cup {"u_parent"}
  BY <1>1, <1>4 DEF NewPcs
<1>13. Igets(None) /\ Ilocks(p, l.cur) /\ (None \in Inodes => None = ROOTINO \/ Named(None))
  BY <1>1, <1>3, IgetNone, IlockSome, Constants DEF Inv
<1> HIDE DEF l
<1> QED BY <1>1, <1>6, <1>7, <1>8, <1>9, <1>10, <1>11, <1>12, <1>13, MovedGood DEF l, m

(* unlink() too, *)
LEMMA GotUnlink ==
  ASSUME Inv, NEW p \in Procs, GotLock(p), loc[p].call = "unlink", UNCHANGED past
  PROVE  Good(p)
<1> DEFINE l == loc[p]
           m == loc'[p]
<1>1. /\ l.pc = "got" /\ l.rel = <<>> /\ ilock(p, l.cur) /\ UNCHANGED ref
      /\ UNCHANGED <<type, nlink, entry, dots, file, strays, crashes, damaged>>
  BY DEF GotLock, At, disk, icache, past, Locs
<1>2. /\ WellFormed(l, file[p]) /\ l \in Locs /\ loc \in [Procs -> Locs]
      /\ \A j : Puts(l.rel, j) = 0 /\ Locks(l.rel, j) = 0
  BY <1>1, AtFacts DEF Inv, Base, TypeInv
<1>0. loc' = [loc EXCEPT ![p] = [[l EXCEPT !.cur = None] EXCEPT !.pc = "unlink", !.dp = l.cur]]
  BY <1>2, loc[p].call = "unlink" DEF GotLock, At, disk, icache, past, Locs
<1>3. l.cur \in Inodes /\ l.dp = None /\ (l.call # "link" => l.ip = None) /\ l.ip \in Inodes \cup {None}
  BY <1>1, <1>2 DEF WellFormed, Locs, DpLocked, NewPcs, IpPcs, IpLocked
<1>4. /\ m.pc = "unlink" /\ m.call = l.call /\ m.rest = l.rest /\ m.new = l.new
      /\ m.cur = None /\ m.dp = l.cur /\ m.ip = l.ip /\ m.rel = <<>>
  BY <1>0, <1>1, <1>2
<1>5. Moves(p)
  <2>1. loc' = [q \in Procs |-> IF q = p THEN loc'[p] ELSE loc[q]]
    BY <1>0, <1>2
  <2>2. m = [pc |-> m.pc, call |-> m.call, rest |-> m.rest, new |-> m.new, cur |-> m.cur,
             dp |-> m.dp, ip |-> m.ip, rel |-> m.rel]
    BY <1>0, <1>2 DEF Locs
  <2> QED BY <2>1, <2>2 DEF Moves
<1>6. /\ m.rel \in Seq(Releases) /\ Tidy(m.rel) /\ Len(m.rel) = 0
      /\ \A j : ~HeadIs(m, Last, j)
      /\ \A j \in Inodes : Puts(m.rel, j) = 0 /\ Locks(m.rel, j) = 0
  BY <1>1, <1>4, RelEmpty DEF HeadIs
<1> HIDE DEF m
<1>7. m \in Locs /\ loc' \in [Procs -> Locs] /\ \A q \in Procs \ {p} : loc'[q] = loc[q]
  <2>1. m.pc \in PCs
    BY <1>4 DEF PCs
  <2> QED BY <1>2, <1>3, <1>4, <1>5, <1>6, <2>1, Moved DEF Inv, Locs, m
<1>8. WellFormed(m, file[p])
  <2>1. /\ m.pc \in DpLocked /\ m.pc \notin IpPcs /\ m.pc \notin NewPcs /\ m.pc \notin WalkPcs
    BY <1>1, <1>4 DEF DpLocked, IpPcs, IpLocked, NewPcs, WalkPcs, RelPcs
  <2> QED BY <1>1, <1>2, <1>3, <1>4, <1>6, <2>1, loc[p].call = "unlink", Constants DEF WellFormed, Wants
<1>9. \A j \in Inodes : Holds(m, file[p], j) = Holds(l, file[p], j) + One(None = j)
  BY <1>1, <1>2, <1>3, <1>4, <1>6, Constants DEF Holds, One
<1>10. \A j \in Inodes : Claims(m, j) = Claims(l, j) + One(l.cur = j)
  BY <1>1, <1>2, <1>3, <1>4, <1>6, Constants DEF Claims, One, DpLocked, IpLocked, NewPcs
<1>11. /\ \A j \in Inodes : PendIp(m, j) <=> PendIp(l, j)
       /\ Kind(m) /\ Look(m)
  <2>1. Kind(l) /\ Look(l)
    BY DEF Inv, KindInv
  <2> QED BY <1>1, <1>3, <1>4, <2>1, Constants, loc[p].call = "unlink"
       DEF PendIp, Kind, Look, WalkPcs, NewPcs, Wants, WantsParent
<1>12. l.pc \notin NewPcs \cup {"u_parent"} /\ m.pc \notin NewPcs \cup {"u_parent"}
  BY <1>1, <1>4 DEF NewPcs
<1>13. Igets(None) /\ Ilocks(p, l.cur) /\ (None \in Inodes => None = ROOTINO \/ Named(None))
  BY <1>1, <1>3, IgetNone, IlockSome, Constants DEF Inv
<1> HIDE DEF l
<1> QED BY <1>1, <1>6, <1>7, <1>8, <1>9, <1>10, <1>11, <1>12, <1>13, MovedGood DEF l, m

(* open() the file, *)
LEMMA GotOpen ==
  ASSUME Inv, NEW p \in Procs, GotLock(p), loc[p].call = "open", UNCHANGED past
  PROVE  Good(p)
<1> DEFINE l == loc[p]
           m == loc'[p]
<1>1. /\ l.pc = "got" /\ l.rel = <<>> /\ ilock(p, l.cur) /\ UNCHANGED ref
      /\ UNCHANGED <<type, nlink, entry, dots, file, strays, crashes, damaged>>
  BY DEF GotLock, At, disk, icache, past, Locs
<1>2. /\ WellFormed(l, file[p]) /\ l \in Locs /\ loc \in [Procs -> Locs]
      /\ \A j : Puts(l.rel, j) = 0 /\ Locks(l.rel, j) = 0
  BY <1>1, AtFacts DEF Inv, Base, TypeInv
<1>0. loc' = [loc EXCEPT ![p] = [[l EXCEPT !.cur = None] EXCEPT !.pc = "opened", !.ip = l.cur]]
  BY <1>2, loc[p].call = "open" DEF GotLock, At, disk, icache, past, Locs
<1>3. l.cur \in Inodes /\ l.dp = None /\ (l.call # "link" => l.ip = None) /\ l.ip \in Inodes \cup {None}
  BY <1>1, <1>2 DEF WellFormed, Locs, DpLocked, NewPcs, IpPcs, IpLocked
<1>4. /\ m.pc = "opened" /\ m.call = l.call /\ m.rest = l.rest /\ m.new = l.new
      /\ m.cur = None /\ m.dp = l.dp /\ m.ip = l.cur /\ m.rel = <<>>
  BY <1>0, <1>1, <1>2
<1>5. Moves(p)
  <2>1. loc' = [q \in Procs |-> IF q = p THEN loc'[p] ELSE loc[q]]
    BY <1>0, <1>2
  <2>2. m = [pc |-> m.pc, call |-> m.call, rest |-> m.rest, new |-> m.new, cur |-> m.cur,
             dp |-> m.dp, ip |-> m.ip, rel |-> m.rel]
    BY <1>0, <1>2 DEF Locs
  <2> QED BY <2>1, <2>2 DEF Moves
<1>6. /\ m.rel \in Seq(Releases) /\ Tidy(m.rel) /\ Len(m.rel) = 0
      /\ \A j : ~HeadIs(m, Last, j)
      /\ \A j \in Inodes : Puts(m.rel, j) = 0 /\ Locks(m.rel, j) = 0
  BY <1>1, <1>4, RelEmpty DEF HeadIs
<1> HIDE DEF m
<1>7. m \in Locs /\ loc' \in [Procs -> Locs] /\ \A q \in Procs \ {p} : loc'[q] = loc[q]
  <2>1. m.pc \in PCs
    BY <1>4 DEF PCs
  <2> QED BY <1>2, <1>3, <1>4, <1>5, <1>6, <2>1, Moved DEF Inv, Locs, m
<1>8. WellFormed(m, file[p])
  <2>1. /\ m.pc \notin DpLocked /\ m.pc \in IpPcs /\ m.pc \notin NewPcs /\ m.pc \notin WalkPcs
    BY <1>1, <1>4 DEF DpLocked, IpPcs, IpLocked, NewPcs, WalkPcs, RelPcs
  <2> QED BY <1>1, <1>2, <1>3, <1>4, <1>6, <2>1, loc[p].call = "open", Constants DEF WellFormed, Wants
<1>9. \A j \in Inodes : Holds(m, file[p], j) = Holds(l, file[p], j) + One(None = j)
  BY <1>1, <1>2, <1>3, <1>4, <1>6, Constants DEF Holds, One
<1>10. \A j \in Inodes : Claims(m, j) = Claims(l, j) + One(l.cur = j)
  BY <1>1, <1>2, <1>3, <1>4, <1>6, Constants DEF Claims, One, DpLocked, IpLocked, NewPcs
<1>11. /\ \A j \in Inodes : PendIp(m, j) <=> PendIp(l, j)
       /\ Kind(m) /\ Look(m)
  <2>1. Kind(l) /\ Look(l)
    BY DEF Inv, KindInv
  <2> QED BY <1>1, <1>3, <1>4, <2>1, Constants, loc[p].call = "open"
       DEF PendIp, Kind, Look, WalkPcs, NewPcs, Wants, WantsParent
<1>12. l.pc \notin NewPcs \cup {"u_parent"} /\ m.pc \notin NewPcs \cup {"u_parent"}
  BY <1>1, <1>4 DEF NewPcs
<1>13. Igets(None) /\ Ilocks(p, l.cur) /\ (None \in Inodes => None = ROOTINO \/ Named(None))
  BY <1>1, <1>3, IgetNone, IlockSome, Constants DEF Inv
<1> HIDE DEF l
<1> QED BY <1>1, <1>6, <1>7, <1>8, <1>9, <1>10, <1>11, <1>12, <1>13, MovedGood DEF l, m

(* link() the file that is to be linked, *)
LEMMA GotLink ==
  ASSUME Inv, NEW p \in Procs, GotLock(p), loc[p].call = "link" /\ loc[p].ip = None, UNCHANGED past
  PROVE  Good(p)
<1> DEFINE l == loc[p]
           m == loc'[p]
<1>1. /\ l.pc = "got" /\ l.rel = <<>> /\ ilock(p, l.cur) /\ UNCHANGED ref
      /\ UNCHANGED <<type, nlink, entry, dots, file, strays, crashes, damaged>>
  BY DEF GotLock, At, disk, icache, past, Locs
<1>2. /\ WellFormed(l, file[p]) /\ l \in Locs /\ loc \in [Procs -> Locs]
      /\ \A j : Puts(l.rel, j) = 0 /\ Locks(l.rel, j) = 0
  BY <1>1, AtFacts DEF Inv, Base, TypeInv
<1>0. loc' = [loc EXCEPT ![p] = [[l EXCEPT !.cur = None] EXCEPT !.pc = "link", !.ip = l.cur]]
  BY <1>2, loc[p].call = "link" /\ loc[p].ip = None DEF GotLock, At, disk, icache, past, Locs
<1>3. l.cur \in Inodes /\ l.dp = None /\ (l.call # "link" => l.ip = None) /\ l.ip \in Inodes \cup {None}
  BY <1>1, <1>2 DEF WellFormed, Locs, DpLocked, NewPcs, IpPcs, IpLocked
<1>4. /\ m.pc = "link" /\ m.call = l.call /\ m.rest = l.rest /\ m.new = l.new
      /\ m.cur = None /\ m.dp = l.dp /\ m.ip = l.cur /\ m.rel = <<>>
  BY <1>0, <1>1, <1>2
<1>5. Moves(p)
  <2>1. loc' = [q \in Procs |-> IF q = p THEN loc'[p] ELSE loc[q]]
    BY <1>0, <1>2
  <2>2. m = [pc |-> m.pc, call |-> m.call, rest |-> m.rest, new |-> m.new, cur |-> m.cur,
             dp |-> m.dp, ip |-> m.ip, rel |-> m.rel]
    BY <1>0, <1>2 DEF Locs
  <2> QED BY <2>1, <2>2 DEF Moves
<1>6. /\ m.rel \in Seq(Releases) /\ Tidy(m.rel) /\ Len(m.rel) = 0
      /\ \A j : ~HeadIs(m, Last, j)
      /\ \A j \in Inodes : Puts(m.rel, j) = 0 /\ Locks(m.rel, j) = 0
  BY <1>1, <1>4, RelEmpty DEF HeadIs
<1> HIDE DEF m
<1>7. m \in Locs /\ loc' \in [Procs -> Locs] /\ \A q \in Procs \ {p} : loc'[q] = loc[q]
  <2>1. m.pc \in PCs
    BY <1>4 DEF PCs
  <2> QED BY <1>2, <1>3, <1>4, <1>5, <1>6, <2>1, Moved DEF Inv, Locs, m
<1>8. WellFormed(m, file[p])
  <2>1. /\ m.pc \notin DpLocked /\ m.pc \in IpPcs /\ m.pc \notin NewPcs /\ m.pc \notin WalkPcs
    BY <1>1, <1>4 DEF DpLocked, IpPcs, IpLocked, NewPcs, WalkPcs, RelPcs
  <2> QED BY <1>1, <1>2, <1>3, <1>4, <1>6, <2>1, loc[p].call = "link" /\ loc[p].ip = None, Constants
       DEF WellFormed, Wants
<1>9. \A j \in Inodes : Holds(m, file[p], j) = Holds(l, file[p], j) + One(None = j)
  BY <1>1, <1>2, <1>3, <1>4, <1>6, Constants DEF Holds, One
<1>10. \A j \in Inodes : Claims(m, j) = Claims(l, j) + One(l.cur = j)
  BY <1>1, <1>2, <1>3, <1>4, <1>6, Constants DEF Claims, One, DpLocked, IpLocked, NewPcs
<1>11. /\ \A j \in Inodes : PendIp(m, j) <=> PendIp(l, j)
       /\ Kind(m) /\ Look(m)
  <2>1. Kind(l) /\ Look(l)
    BY DEF Inv, KindInv
  <2> QED BY <1>1, <1>3, <1>4, <2>1, Constants, loc[p].call = "link" /\ loc[p].ip = None
       DEF PendIp, Kind, Look, WalkPcs, NewPcs, Wants, WantsParent
<1>12. l.pc \notin NewPcs \cup {"u_parent"} /\ m.pc \notin NewPcs \cup {"u_parent"}
  BY <1>1, <1>4 DEF NewPcs
<1>13. Igets(None) /\ Ilocks(p, l.cur) /\ (None \in Inodes => None = ROOTINO \/ Named(None))
  BY <1>1, <1>3, IgetNone, IlockSome, Constants DEF Inv
<1> HIDE DEF l
<1> QED BY <1>1, <1>6, <1>7, <1>8, <1>9, <1>10, <1>11, <1>12, <1>13, MovedGood DEF l, m

(* and then the directory of the new link. *)
LEMMA GotLinkDir ==
  ASSUME Inv, NEW p \in Procs, GotLock(p), loc[p].call = "link" /\ loc[p].ip # None, UNCHANGED past
  PROVE  Good(p)
<1> DEFINE l == loc[p]
           m == loc'[p]
<1>1. /\ l.pc = "got" /\ l.rel = <<>> /\ ilock(p, l.cur) /\ UNCHANGED ref
      /\ UNCHANGED <<type, nlink, entry, dots, file, strays, crashes, damaged>>
  BY DEF GotLock, At, disk, icache, past, Locs
<1>2. /\ WellFormed(l, file[p]) /\ l \in Locs /\ loc \in [Procs -> Locs]
      /\ \A j : Puts(l.rel, j) = 0 /\ Locks(l.rel, j) = 0
  BY <1>1, AtFacts DEF Inv, Base, TypeInv
<1>0. loc' = [loc EXCEPT ![p] = [[l EXCEPT !.cur = None] EXCEPT !.pc = "link_dir", !.dp = l.cur]]
  BY <1>2, loc[p].call = "link" /\ loc[p].ip # None DEF GotLock, At, disk, icache, past, Locs
<1>3. l.cur \in Inodes /\ l.dp = None /\ (l.call # "link" => l.ip = None) /\ l.ip \in Inodes \cup {None}
  BY <1>1, <1>2 DEF WellFormed, Locs, DpLocked, NewPcs, IpPcs, IpLocked
<1>4. /\ m.pc = "link_dir" /\ m.call = l.call /\ m.rest = l.rest /\ m.new = l.new
      /\ m.cur = None /\ m.dp = l.cur /\ m.ip = l.ip /\ m.rel = <<>>
  BY <1>0, <1>1, <1>2
<1>5. Moves(p)
  <2>1. loc' = [q \in Procs |-> IF q = p THEN loc'[p] ELSE loc[q]]
    BY <1>0, <1>2
  <2>2. m = [pc |-> m.pc, call |-> m.call, rest |-> m.rest, new |-> m.new, cur |-> m.cur,
             dp |-> m.dp, ip |-> m.ip, rel |-> m.rel]
    BY <1>0, <1>2 DEF Locs
  <2> QED BY <2>1, <2>2 DEF Moves
<1>6. /\ m.rel \in Seq(Releases) /\ Tidy(m.rel) /\ Len(m.rel) = 0
      /\ \A j : ~HeadIs(m, Last, j)
      /\ \A j \in Inodes : Puts(m.rel, j) = 0 /\ Locks(m.rel, j) = 0
  BY <1>1, <1>4, RelEmpty DEF HeadIs
<1> HIDE DEF m
<1>7. m \in Locs /\ loc' \in [Procs -> Locs] /\ \A q \in Procs \ {p} : loc'[q] = loc[q]
  <2>1. m.pc \in PCs
    BY <1>4 DEF PCs
  <2> QED BY <1>2, <1>3, <1>4, <1>5, <1>6, <2>1, Moved DEF Inv, Locs, m
<1>8. WellFormed(m, file[p])
  <2>1. /\ m.pc \in DpLocked /\ m.pc \in IpPcs /\ m.pc \notin NewPcs /\ m.pc \notin WalkPcs
    BY <1>1, <1>4 DEF DpLocked, IpPcs, IpLocked, NewPcs, WalkPcs, RelPcs
  <2> QED BY <1>1, <1>2, <1>3, <1>4, <1>6, <2>1, loc[p].call = "link" /\ loc[p].ip # None, Constants
       DEF WellFormed, Wants
<1>9. \A j \in Inodes : Holds(m, file[p], j) = Holds(l, file[p], j) + One(None = j)
  BY <1>1, <1>2, <1>3, <1>4, <1>6, Constants DEF Holds, One
<1>10. \A j \in Inodes : Claims(m, j) = Claims(l, j) + One(l.cur = j)
  BY <1>1, <1>2, <1>3, <1>4, <1>6, Constants DEF Claims, One, DpLocked, IpLocked, NewPcs
<1>11. /\ \A j \in Inodes : PendIp(m, j) <=> PendIp(l, j)
       /\ Kind(m) /\ Look(m)
  <2>1. Kind(l) /\ Look(l)
    BY DEF Inv, KindInv
  <2> QED BY <1>1, <1>3, <1>4, <2>1, Constants, loc[p].call = "link" /\ loc[p].ip # None
       DEF PendIp, Kind, Look, WalkPcs, NewPcs, Wants, WantsParent
<1>12. l.pc \notin NewPcs \cup {"u_parent"} /\ m.pc \notin NewPcs \cup {"u_parent"}
  BY <1>1, <1>4 DEF NewPcs
<1>13. Igets(None) /\ Ilocks(p, l.cur) /\ (None \in Inodes => None = ROOTINO \/ Named(None))
  BY <1>1, <1>3, IgetNone, IlockSome, Constants DEF Inv
<1> HIDE DEF l
<1> QED BY <1>1, <1>6, <1>7, <1>8, <1>9, <1>10, <1>11, <1>12, <1>13, MovedGood DEF l, m

(* create() finds the name ... *)
LEMMA CreateFoundGood ==
  ASSUME Inv, NEW p \in Procs, CreateFound(p), UNCHANGED past
  PROVE  Good(p)
<1> DEFINE l == loc[p]
           m == loc'[p]
           i == dirlookup(l.dp, Head(l.rest))
<1>1. /\ l.pc = "create" /\ l.rel = <<>> /\ iget(i) /\ UNCHANGED busy
      /\ UNCHANGED <<type, nlink, entry, dots, file, strays, crashes, damaged>>
  BY DEF CreateFound, At, disk, icache, past, dirlookup, Name, iget
<1>2. /\ WellFormed(l, file[p]) /\ l \in Locs /\ loc \in [Procs -> Locs]
      /\ \A j : Puts(l.rel, j) = 0 /\ Locks(l.rel, j) = 0
  BY <1>1, AtFacts DEF Inv, Base, TypeInv
<1>0. loc' = [loc EXCEPT ![p].pc = "found", ![p].ip = i, ![p].dp = None, ![p].rel = unlockput(l.dp)]
      /\ i # None /\ i = entry[l.dp][Head(l.rest)]
  BY DEF CreateFound, At, disk, icache, past, dirlookup, Name, iget
<1>3. /\ l.dp \in Inodes /\ i \in Inodes /\ l.cur = None /\ Head(l.rest) \in Names /\ Len(l.rest) = 1
      /\ l.ip = None /\ l.call \in {"create", "mkdir"}
  <2>1. l.dp \in Inodes /\ l.rest \in Seq(Names) /\ Len(l.rest) = 1 /\ l.cur = None
    BY <1>1, <1>2 DEF WellFormed, Locs, DpLocked, NewPcs
  <2>2. Head(l.rest) \in Names
    BY <2>1, RestTail
  <2>3. l.ip = None /\ l.call \in {"create", "mkdir"}
    BY <1>1, <1>2 DEF WellFormed, Locs, DpLocked, NewPcs, IpPcs, IpLocked, WalkPcs
  <2> QED BY <1>0, <2>1, <2>2, <2>3 DEF Inv, Base, TypeInv
<1>4. /\ m.pc = "found" /\ m.call = l.call /\ m.rest = l.rest /\ m.new = l.new
      /\ m.cur = l.cur /\ m.dp = None /\ m.ip = i /\ m.rel = unlockput(l.dp)
  BY <1>0, <1>1, <1>2
<1>5. Moves(p)
  <2>1. loc' = [q \in Procs |-> IF q = p THEN loc'[p] ELSE loc[q]]
    BY <1>0, <1>2
  <2>2. m = [pc |-> m.pc, call |-> m.call, rest |-> m.rest, new |-> m.new, cur |-> m.cur,
             dp |-> m.dp, ip |-> m.ip, rel |-> m.rel]
    BY <1>0, <1>2 DEF Locs
  <2> QED BY <2>1, <2>2 DEF Moves
<1>6. /\ m.rel \in Seq(Releases) /\ Tidy(m.rel) /\ Len(m.rel) # 1
      /\ \A j : ~HeadIs(m, Last, j)
      /\ \A j \in Inodes : Puts(m.rel, j) = One(l.dp = j) /\ Locks(m.rel, j) = One(l.dp = j)
  <2>1. /\ unlockput(l.dp) \in Seq(Releases) /\ Len(unlockput(l.dp)) = 2 /\ Tidy(unlockput(l.dp))
        /\ unlockput(l.dp) # <<>> /\ unlockput(l.dp)[1] = [do |-> "unlock", ino |-> l.dp]
        /\ \A j : Puts(unlockput(l.dp), j) = One(l.dp = j) /\ Locks(unlockput(l.dp), j) = One(l.dp = j)
    BY <1>3, RelUnlockput
  <2>2. m.rel = unlockput(l.dp)
    BY <1>4
  <2> HIDE DEF m
  <2> QED BY <2>1, <2>2 DEF HeadIs, Last
<1> HIDE DEF m, i
<1>7. m \in Locs /\ loc' \in [Procs -> Locs] /\ \A q \in Procs \ {p} : loc'[q] = loc[q]
  <2>1. m.pc \in PCs
    BY <1>4 DEF PCs
  <2> QED BY <1>2, <1>3, <1>4, <1>5, <1>6, <2>1, Moved DEF Inv, Locs, m
<1>8. WellFormed(m, file[p])
  <2>1. /\ m.pc \notin DpLocked /\ m.pc \in IpPcs /\ m.pc \notin NewPcs /\ m.pc \notin WalkPcs /\ m.pc \in RelPcs
    BY <1>1, <1>4 DEF DpLocked, IpPcs, IpLocked, NewPcs, WalkPcs, RelPcs
  <2>3. Len(m.rel) # 1 /\ Tidy(m.rel)
    BY <1>6
  <2>4. m.pc = "found" /\ m.cur = None /\ m.dp = None /\ m.ip # None /\ m.call \in {"create", "mkdir"}
    BY <1>3, <1>4, Constants
  <2> QED BY <2>1, <2>3, <2>4 DEF WellFormed
<1>9. \A j \in Inodes : Holds(m, file[p], j) = Holds(l, file[p], j) + One(i = j)
  BY <1>1, <1>2, <1>3, <1>4, <1>6, Constants DEF Holds, One
<1>10. \A j \in Inodes : Claims(m, j) = Claims(l, j) + One(None = j)
  BY <1>1, <1>2, <1>3, <1>4, <1>6, Constants DEF Claims, One, DpLocked, IpLocked, NewPcs
<1>11. /\ \A j \in Inodes : PendIp(m, j) <=> PendIp(l, j)
       /\ Kind(m) /\ Look(m)
  <2>1. Kind(l) /\ Look(l)
    BY DEF Inv, KindInv
  <2> QED BY <1>1, <1>3, <1>4, <2>1, Constants DEF PendIp, Kind, Look, WalkPcs, NewPcs, Wants, WantsParent
<1>12. l.pc \notin NewPcs \cup {"u_parent"} /\ m.pc \notin NewPcs \cup {"u_parent"}
  BY <1>1, <1>4 DEF NewPcs
<1>13. Igets(i) /\ Ilocks(p, None) /\ (i \in Inodes => i = ROOTINO \/ Named(i))
  <2>1. Named(i)
    BY <1>0, <1>3 DEF Named
  <2> QED BY <1>1, <1>3, <2>1, IgetSome, IlockNone DEF Inv, iget
<1> HIDE DEF l
<1> QED BY <1>1, <1>6, <1>7, <1>8, <1>9, <1>10, <1>11, <1>12, <1>13, MovedGood DEF l, m

(* unlink() finds the name ... *)
LEMMA UnlinkLookupGood ==
  ASSUME Inv, NEW p \in Procs, UnlinkLookup(p), dirlookup(loc[p].dp, Name(p)) # None, UNCHANGED past
  PROVE  Good(p)
<1> DEFINE l == loc[p]
           m == loc'[p]
           i == dirlookup(l.dp, Head(l.rest))
<1>1. /\ l.pc = "unlink" /\ l.rel = <<>> /\ iget(i) /\ UNCHANGED busy
      /\ UNCHANGED <<type, nlink, entry, dots, file, strays, crashes, damaged>>
  BY DEF UnlinkLookup, At, disk, icache, past, dirlookup, Name, iget
<1>2. /\ WellFormed(l, file[p]) /\ l \in Locs /\ loc \in [Procs -> Locs]
      /\ \A j : Puts(l.rel, j) = 0 /\ Locks(l.rel, j) = 0
  BY <1>1, AtFacts DEF Inv, Base, TypeInv
<1>0. loc' = [loc EXCEPT ![p].pc = "u_lock", ![p].ip = i]
      /\ i # None /\ i = entry[l.dp][Head(l.rest)]
  BY dirlookup(loc[p].dp, Name(p)) # None DEF UnlinkLookup, At, disk, icache, past, dirlookup, Name, iget
<1>3. /\ l.dp \in Inodes /\ i \in Inodes /\ l.cur = None /\ Head(l.rest) \in Names /\ Len(l.rest) = 1
      /\ l.ip = None
  <2>1. l.dp \in Inodes /\ l.rest \in Seq(Names) /\ Len(l.rest) = 1 /\ l.cur = None
    BY <1>1, <1>2 DEF WellFormed, Locs, DpLocked, NewPcs
  <2>2. Head(l.rest) \in Names
    BY <2>1, RestTail
  <2>3. l.ip = None
    BY <1>1, <1>2 DEF WellFormed, Locs, DpLocked, NewPcs, IpPcs, IpLocked, WalkPcs
  <2> QED BY <1>0, <2>1, <2>2, <2>3 DEF Inv, Base, TypeInv
<1>4. /\ m.pc = "u_lock" /\ m.call = l.call /\ m.rest = l.rest /\ m.new = l.new
      /\ m.cur = l.cur /\ m.dp = l.dp /\ m.ip = i /\ m.rel = <<>>
  BY <1>0, <1>1, <1>2
<1>5. Moves(p)
  <2>1. loc' = [q \in Procs |-> IF q = p THEN loc'[p] ELSE loc[q]]
    BY <1>0, <1>2
  <2>2. m = [pc |-> m.pc, call |-> m.call, rest |-> m.rest, new |-> m.new, cur |-> m.cur,
             dp |-> m.dp, ip |-> m.ip, rel |-> m.rel]
    BY <1>0, <1>2 DEF Locs
  <2> QED BY <2>1, <2>2 DEF Moves
<1>6. /\ m.rel \in Seq(Releases) /\ Tidy(m.rel) /\ Len(m.rel) = 0
      /\ \A j : ~HeadIs(m, Last, j)
      /\ \A j \in Inodes : Puts(m.rel, j) = 0 /\ Locks(m.rel, j) = 0
  BY <1>4, RelEmpty DEF HeadIs
<1> HIDE DEF m, i
<1>7. m \in Locs /\ loc' \in [Procs -> Locs] /\ \A q \in Procs \ {p} : loc'[q] = loc[q]
  <2>1. m.pc \in PCs
    BY <1>4 DEF PCs
  <2> QED BY <1>2, <1>3, <1>4, <1>5, <1>6, <2>1, Moved DEF Inv, Locs, m
<1>8. WellFormed(m, file[p])
  <2>1. /\ m.pc \in DpLocked /\ m.pc \in IpPcs /\ m.pc \notin NewPcs /\ m.pc \notin WalkPcs
    BY <1>1, <1>4 DEF DpLocked, IpPcs, IpLocked, NewPcs, WalkPcs, RelPcs
  <2>2. l.call = "link" => Len(l.new) >= 1
    BY <1>2 DEF WellFormed
  <2>3. Len(m.rel) # 1 /\ m.rel = <<>> /\ Tidy(m.rel)
    BY <1>4, <1>6
  <2>4. m.pc = "u_lock" /\ m.cur = None /\ m.dp # None /\ m.ip # None /\ Len(m.rest) = 1
    BY <1>3, <1>4, Constants
  <2>5. m.call = "link" => Len(m.new) >= 1
    BY <1>4, <2>2
  <2> QED BY <2>1, <2>3, <2>4, <2>5 DEF WellFormed
<1>9. \A j \in Inodes : Holds(m, file[p], j) = Holds(l, file[p], j) + One(i = j)
  BY <1>1, <1>2, <1>3, <1>4, <1>6, Constants DEF Holds, One
<1>10. \A j \in Inodes : Claims(m, j) = Claims(l, j) + One(None = j)
  BY <1>1, <1>2, <1>3, <1>4, <1>6, Constants DEF Claims, One, DpLocked, IpLocked, NewPcs
<1>11. /\ \A j \in Inodes : PendIp(m, j) <=> PendIp(l, j)
       /\ Kind(m) /\ Look(m)
  <2>1. Kind(l) /\ Look(l)
    BY DEF Inv, KindInv
  <2>2. l.rest[1] = Head(l.rest)
    <3>1. l.rest \in Seq(Names)
      BY <1>2 DEF Locs
    <3> QED BY <1>3, <3>1, RestTail
  <2>3. entry[m.dp][m.rest[1]] = m.ip
    BY <1>0, <1>4, <2>2
  <2> QED BY <1>1, <1>3, <1>4, <2>1, <2>3, Constants, dirlookup(loc[p].dp, Name(p)) # None
       DEF PendIp, Kind, Look, WalkPcs, NewPcs, Wants, WantsParent
<1>12. l.pc \notin NewPcs \cup {"u_parent"} /\ m.pc \notin NewPcs \cup {"u_parent"}
  BY <1>1, <1>4 DEF NewPcs
<1>13. Igets(i) /\ Ilocks(p, None) /\ (i \in Inodes => i = ROOTINO \/ Named(i))
  <2>1. Named(i)
    BY <1>0, <1>3 DEF Named
  <2> QED BY <1>1, <1>3, <2>1, IgetSome, IlockNone DEF Inv, iget
<1> HIDE DEF l
<1> QED BY <1>1, <1>6, <1>7, <1>8, <1>9, <1>10, <1>11, <1>12, <1>13, MovedGood DEF l, m

(* link() finds the new name taken. *)
LEMMA LinkExistsGood ==
  ASSUME Inv, NEW p \in Procs, LinkExists(p), UNCHANGED past
  PROVE  Good(p)
<1> DEFINE l == loc[p]
           m == loc'[p]
           i == dirlookup(l.dp, Head(l.rest))
<1>1. /\ l.pc = "link_dir" /\ l.rel = <<>> /\ iget(i) /\ UNCHANGED busy
      /\ UNCHANGED <<type, nlink, entry, dots, file, strays, crashes, damaged>>
  BY DEF LinkExists, At, disk, icache, past, dirlookup, Name, iget
<1>2. /\ WellFormed(l, file[p]) /\ l \in Locs /\ loc \in [Procs -> Locs]
      /\ \A j : Puts(l.rel, j) = 0 /\ Locks(l.rel, j) = 0
  BY <1>1, AtFacts DEF Inv, Base, TypeInv
<1>0. loc' = [loc EXCEPT ![p].pc = "bad", ![p].dp = None, ![p].rel = put(i) \o unlockput(l.dp)]
      /\ i # None /\ i = entry[l.dp][Head(l.rest)]
  BY DEF LinkExists, At, disk, icache, past, dirlookup, Name, iget
<1>3. /\ l.dp \in Inodes /\ i \in Inodes /\ l.cur = None /\ Head(l.rest) \in Names /\ Len(l.rest) = 1
      /\ l.ip \in Inodes /\ l.call = "link" /\ Len(l.new) >= 1
  <2>1. l.dp \in Inodes /\ l.rest \in Seq(Names) /\ Len(l.rest) = 1 /\ l.cur = None
    BY <1>1, <1>2 DEF WellFormed, Locs, DpLocked, NewPcs
  <2>2. Head(l.rest) \in Names
    BY <2>1, RestTail
  <2>3. l.ip \in Inodes /\ l.call = "link" /\ Len(l.new) >= 1
    BY <1>1, <1>2 DEF WellFormed, Locs, DpLocked, NewPcs, IpPcs, IpLocked, WalkPcs
  <2> QED BY <1>0, <2>1, <2>2, <2>3 DEF Inv, Base, TypeInv
<1>4. /\ m.pc = "bad" /\ m.call = l.call /\ m.rest = l.rest /\ m.new = l.new
      /\ m.cur = l.cur /\ m.dp = None /\ m.ip = l.ip /\ m.rel = put(i) \o unlockput(l.dp)
  BY <1>0, <1>1, <1>2
<1>5. Moves(p)
  <2>1. loc' = [q \in Procs |-> IF q = p THEN loc'[p] ELSE loc[q]]
    BY <1>0, <1>2
  <2>2. m = [pc |-> m.pc, call |-> m.call, rest |-> m.rest, new |-> m.new, cur |-> m.cur,
             dp |-> m.dp, ip |-> m.ip, rel |-> m.rel]
    BY <1>0, <1>2 DEF Locs
  <2> QED BY <2>1, <2>2 DEF Moves
<1>6. /\ m.rel \in Seq(Releases) /\ Tidy(m.rel) /\ Len(m.rel) # 1
      /\ \A j : ~HeadIs(m, Last, j)
      /\ \A j \in Inodes : Puts(m.rel, j) = One(i = j) + One(l.dp = j) /\ Locks(m.rel, j) = One(l.dp = j)
  <2>1. PICK s, t \in Seq(Releases) : s = put(i) /\ t = unlockput(l.dp)
    BY <1>3, RelPut, RelUnlockput
  <2>2. /\ Tidy(s) /\ Tidy(t) /\ Len(s) = 1 /\ Len(t) = 2 /\ s[1].do = "put" /\ t[1].do \notin Last
        /\ \A j : /\ Puts(s, j) = One(i = j) /\ Puts(t, j) = One(l.dp = j)
                 /\ Locks(s, j) = 0 /\ Locks(t, j) = One(l.dp = j)
    <3>1. /\ Tidy(put(i)) /\ Len(put(i)) = 1 /\ put(i)[1] = [do |-> "put", ino |-> i]
          /\ \A j : Puts(put(i), j) = One(i = j) /\ Locks(put(i), j) = 0
      BY <1>3, RelPut
    <3>2. /\ Tidy(unlockput(l.dp)) /\ Len(unlockput(l.dp)) = 2
          /\ unlockput(l.dp)[1] = [do |-> "unlock", ino |-> l.dp]
          /\ \A j : Puts(unlockput(l.dp), j) = One(l.dp = j) /\ Locks(unlockput(l.dp), j) = One(l.dp = j)
      BY <1>3, RelUnlockput
    <3> QED BY <2>1, <3>1, <3>2 DEF Last
  <2>3. /\ s \o t \in Seq(Releases) /\ Len(s \o t) = Len(s) + Len(t) /\ Tidy(s \o t)
        /\ s \o t # <<>> /\ (s \o t)[1] = s[1]
        /\ \A j : /\ Puts(s \o t, j) = Puts(s, j) + Puts(t, j)
                 /\ Locks(s \o t, j) = Locks(s, j) + Locks(t, j)
    <3>1. Len(s) + Len(t) <= 4 /\ Len(s) # 0 /\ Len(t) # 0 /\ Len(t) # 1
      BY <2>2
    <3> QED BY <2>2, <3>1, RelBoth
  <2>4. Len(s \o t) # 1 /\ m.rel = s \o t /\ \A j : One(l.dp = j) \in Nat
    BY <1>4, <2>1, <2>2, <2>3, OneNat
  <2> HIDE DEF m
  <2>5. /\ m.rel \in Seq(Releases) /\ Tidy(m.rel) /\ Len(m.rel) # 1 /\ m.rel[1].do = "put"
    BY <2>2, <2>3, <2>4
  <2>6. \A j : ~HeadIs(m, Last, j)
    BY <2>5 DEF HeadIs, Last
  <2>7. ASSUME NEW j \in Inodes
        PROVE  Puts(m.rel, j) = One(i = j) + One(l.dp = j) /\ Locks(m.rel, j) = One(l.dp = j)
    <3>1. /\ Puts(m.rel, j) = Puts(s, j) + Puts(t, j) /\ Locks(m.rel, j) = Locks(s, j) + Locks(t, j)
      BY <2>3, <2>4
    <3>2. /\ Puts(s, j) = One(i = j) /\ Puts(t, j) = One(l.dp = j)
          /\ Locks(s, j) = 0 /\ Locks(t, j) = One(l.dp = j) /\ One(l.dp = j) \in Nat
      BY <2>2, <2>4
    <3> QED BY <3>1, <3>2
  <2> QED BY <2>5, <2>6, <2>7
<1> HIDE DEF m, i
<1>7. m \in Locs /\ loc' \in [Procs -> Locs] /\ \A q \in Procs \ {p} : loc'[q] = loc[q]
  <2>1. m.pc \in PCs
    BY <1>4 DEF PCs
  <2> QED BY <1>2, <1>3, <1>4, <1>5, <1>6, <2>1, Moved DEF Inv, Locs, m
<1>8. WellFormed(m, file[p])
  <2>1. /\ m.pc \notin DpLocked /\ m.pc \in IpPcs /\ m.pc \notin NewPcs /\ m.pc \notin WalkPcs /\ m.pc \in RelPcs
    BY <1>1, <1>4 DEF DpLocked, IpPcs, IpLocked, NewPcs, WalkPcs, RelPcs
  <2>3. Len(m.rel) # 1 /\ Tidy(m.rel)
    BY <1>6
  <2>4. m.pc = "bad" /\ m.cur = None /\ m.dp = None /\ m.ip # None /\ m.call = "link" /\ Len(m.new) >= 1
    BY <1>3, <1>4, Constants
  <2> QED BY <2>1, <2>3, <2>4 DEF WellFormed
<1>9. \A j \in Inodes : Holds(m, file[p], j) = Holds(l, file[p], j) + One(i = j)
  BY <1>1, <1>2, <1>3, <1>4, <1>6, Constants DEF Holds, One
<1>10. \A j \in Inodes : Claims(m, j) = Claims(l, j) + One(None = j)
  BY <1>1, <1>2, <1>3, <1>4, <1>6, Constants DEF Claims, One, DpLocked, IpLocked, NewPcs
<1>11. /\ \A j \in Inodes : PendIp(m, j) <=> PendIp(l, j)
       /\ Kind(m) /\ Look(m)
  <2>1. Kind(l) /\ Look(l)
    BY DEF Inv, KindInv
  <2> QED BY <1>1, <1>3, <1>4, <2>1, Constants DEF PendIp, Kind, Look, WalkPcs, NewPcs, Wants, WantsParent
<1>12. l.pc \notin NewPcs \cup {"u_parent"} /\ m.pc \notin NewPcs \cup {"u_parent"}
  BY <1>1, <1>4 DEF NewPcs
<1>13. Igets(i) /\ Ilocks(p, None) /\ (i \in Inodes => i = ROOTINO \/ Named(i))
  <2>1. Named(i)
    BY <1>0, <1>3 DEF Named
  <2> QED BY <1>1, <1>3, <2>1, IgetSome, IlockNone DEF Inv, iget
<1> HIDE DEF l
<1> QED BY <1>1, <1>6, <1>7, <1>8, <1>9, <1>10, <1>11, <1>12, <1>13, MovedGood DEF l, m

(* A call begins at the root. *)
LEMMA StartGood ==
  ASSUME Inv, NEW p \in Procs, NEW c \in Calls, Start(p, c), UNCHANGED past
  PROVE  Good(p)
<1> DEFINE l == loc[p]
           m == loc'[p]
<1>1. /\ l.pc = "idle" /\ l.rel = <<>> /\ iget(ROOTINO) /\ UNCHANGED busy
      /\ UNCHANGED <<type, nlink, entry, dots, file, strays, crashes, damaged>>
  BY DEF Start, At, disk, icache, past, iget
<1>2. /\ WellFormed(l, file[p]) /\ l \in Locs /\ loc \in [Procs -> Locs]
      /\ \A j : Puts(l.rel, j) = 0 /\ Locks(l.rel, j) = 0
  BY <1>1, AtFacts DEF Inv, Base, TypeInv
<1>0. loc' = [loc EXCEPT ![p] = [Idle EXCEPT !.pc = "walk", !.call = c.call,
                 !.rest = c.path, !.new = c.new, !.cur = ROOTINO]]
  BY DEF Start, At, disk, icache, past, iget
<1>3. /\ l.cur = None /\ l.dp = None /\ l.ip = None
      /\ c.call \in CallNames /\ c.path \in Seq(Names) /\ c.new \in Seq(Names)
      /\ Len(c.path) >= 1 /\ Len(c.new) >= 1
  <2>1. l.cur = None /\ l.dp = None /\ l.ip = None
    BY <1>1, <1>2 DEF WellFormed, Locs, DpLocked, NewPcs, IpPcs, IpLocked, WalkPcs
  <2>2. /\ c.call \in CallNames /\ c.path \in Seq(Names) \ {<<>>} /\ c.new \in Seq(Names) \ {<<>>}
    BY FileSystemAssumption DEF FileSystemAssumption
  <2>3. Len(c.path) >= 1 /\ Len(c.new) >= 1
    BY <2>2, LenProperties, EmptySeq
  <2> QED BY <2>1, <2>2, <2>3
<1>4. /\ m.pc = "walk" /\ m.call = c.call /\ m.rest = c.path /\ m.new = c.new
      /\ m.cur = ROOTINO /\ m.dp = None /\ m.ip = None /\ m.rel = <<>>
  BY <1>0, <1>1, <1>2 DEF Idle
<1>5. Moves(p)
  <2>1. loc' = [q \in Procs |-> IF q = p THEN loc'[p] ELSE loc[q]]
    BY <1>0, <1>2
  <2>2. m = [pc |-> m.pc, call |-> m.call, rest |-> m.rest, new |-> m.new, cur |-> m.cur,
             dp |-> m.dp, ip |-> m.ip, rel |-> m.rel]
    BY <1>0, <1>2 DEF Locs, Idle
  <2> QED BY <2>1, <2>2 DEF Moves
<1>6. /\ m.rel \in Seq(Releases) /\ Tidy(m.rel) /\ Len(m.rel) = 0
      /\ \A j : ~HeadIs(m, Last, j)
      /\ \A j \in Inodes : Puts(m.rel, j) = 0 /\ Locks(m.rel, j) = 0
  BY <1>4, RelEmpty DEF HeadIs
<1> HIDE DEF m
<1>7. m \in Locs /\ loc' \in [Procs -> Locs] /\ \A q \in Procs \ {p} : loc'[q] = loc[q]
  <2>1. m.pc \in PCs
    BY <1>4 DEF PCs
  <2> QED BY <1>2, <1>3, <1>4, <1>5, <1>6, <2>1, Moved, Constants DEF Inv, Locs, m
<1>8. WellFormed(m, file[p])
  <2>1. /\ m.pc \notin DpLocked /\ m.pc \notin IpPcs /\ m.pc \notin NewPcs /\ m.pc \in WalkPcs
    BY <1>1, <1>4 DEF DpLocked, IpPcs, IpLocked, NewPcs, WalkPcs, RelPcs
  <2>3. Len(m.rel) # 1 /\ m.rel = <<>> /\ Tidy(m.rel)
    BY <1>4, <1>6
  <2>4. /\ m.pc = "walk" /\ m.cur # None /\ m.dp = None /\ m.ip = None
        /\ Len(m.rest) >= 1 /\ Len(m.new) >= 1
    BY <1>3, <1>4, Constants
  <2> QED BY <2>1, <2>3, <2>4 DEF WellFormed
<1>9. \A j \in Inodes : Holds(m, file[p], j) = Holds(l, file[p], j) + One(ROOTINO = j)
  BY <1>1, <1>2, <1>3, <1>4, <1>6, Constants DEF Holds, One
<1>10. \A j \in Inodes : Claims(m, j) = Claims(l, j) + One(None = j)
  BY <1>1, <1>2, <1>3, <1>4, <1>6, Constants DEF Claims, One, DpLocked, IpLocked, NewPcs
<1>11. /\ \A j \in Inodes : PendIp(m, j) <=> PendIp(l, j)
       /\ Kind(m) /\ Look(m)
  <2>1. Kind(l) /\ Look(l)
    BY DEF Inv, KindInv
  <2> QED BY <1>1, <1>3, <1>4, <2>1, Constants DEF PendIp, Kind, Look, WalkPcs, NewPcs, Wants, WantsParent
<1>12. l.pc \notin NewPcs \cup {"u_parent"} /\ m.pc \notin NewPcs \cup {"u_parent"}
  BY <1>1, <1>4 DEF NewPcs
<1>13. Igets(ROOTINO) /\ Ilocks(p, None) /\ (ROOTINO \in Inodes => ROOTINO = ROOTINO \/ Named(ROOTINO))
  BY <1>1, Constants, IgetSome, IlockNone DEF Inv, iget
<1> HIDE DEF l
<1> QED BY <1>1, <1>6, <1>7, <1>8, <1>9, <1>10, <1>11, <1>12, <1>13, MovedGood DEF l, m

-----------------------------------------------------------------------------
(* Steps that change the links counted of inodes p has locked. *)
LEMMA CountedGood ==
  ASSUME Inv, NEW p \in Procs, loc[p].rel = <<>>, Frame(p), Accounts(p), LocksMove(p),
         UNCHANGED <<type, entry, strays, crashes, damaged>>,
         nlink' \in [Inodes -> Nat], valid' \in [Inodes -> BOOLEAN],
         Kind(loc'[p]), Look(loc'[p]), DotsOwn(p),
         \A i \in Inodes :
           /\ nlink'[i] + One(PendIp(loc[p], i)) + One(PendDp(loc[p], i))
                = nlink[i] + One(PendIp(loc'[p], i)) + One(PendDp(loc'[p], i))
           /\ type[i] = "dir" /\ PendIp(loc'[p], i) => PendIp(loc[p], i) \/ nlink[i] = 0
           /\ nlink'[i] # nlink[i] \/ dots'[i] # dots[i] => busy[i] = p /\ loc[p].pc # "c_lock"
           /\ ref'[i] >= ref[i]
           /\ ref'[i] > ref[i] => i = ROOTINO \/ Named(i)
           /\ valid[i] => valid'[i]
           /\ busy'[i] # Nobody => busy[i] # Nobody \/ valid'[i]
           /\ ~HeadIs(loc'[p], Last, i),
         loc[p].pc = "c_lock" => busy[loc[p].ip] = Nobody /\ valid'[loc[p].ip],
         loc'[p].pc \in NewPcs =>
           /\ loc[p].pc \in NewPcs /\ loc'[p].ip = loc[p].ip /\ loc'[p].pc # "c_lock"
           /\ loc'[p].pc = "c_init" => loc[p].pc = "c_lock"
           /\ \A i \in Inodes : Holds(loc'[p], file'[p], i) = Holds(loc[p], file[p], i)
  PROVE  Good(p)
<1>1. TypeInv'
  BY DEF Inv, Base, TypeInv, Accounts, LocksMove, Frame
<1>2. \A i, D : ~HeadIs(loc[p], D, i)
  BY DEF HeadIs
<1>3. ASSUME NEW i \in Inodes, busy[i] = p
      PROVE  Holds(loc[p], file[p], i) >= 1 /\ ref[i] >= 1 /\ ref[i] \in Nat /\ valid[i] /\ type[i] # "free"
  <2>1. Holds(loc[p], file[p], i) >= 1 /\ Holds(loc[p], file[p], i) \in Nat
    BY <1>3, Owner, HoldsType DEF Inv
  <2>2. ref[i] \in Nat /\ ref[i] >= Holds(loc[p], file[p], i)
    BY RefHolds DEF Inv
  <2>3. valid[i]
    BY <1>3, Constants DEF Inv, ValidInv
  <2>4. type[i] # "free"
    BY <1>2, <2>1 DEF Inv, NonFree
  <2> QED BY <2>1, <2>2, <2>3, <2>4
<1>4. NamesInv' /\ CountInv' /\ DirOnce' /\ StraysInv'
  <2>1. \A i \in Inodes : PendDp(loc[p], i)' <=> PendDp(loc'[p], i)
    BY DEF PendDp
  <2>2. \A i \in Inodes : One(PendDp(loc[p], i)') = One(PendDp(loc'[p], i))
    BY <2>1 DEF One
  <2>3. \A i \in Inodes : type[i] = "free" => nlink'[i] = nlink[i]
    BY <1>3
  <2> QED BY <1>1, <2>2, <2>3, NlinkStep
<1>5. Doomed'
  <2> SUFFICES ASSUME NEW i \in Inodes, type[i] # "free", nlink'[i] = 0, i \notin damaged
               PROVE  ref'[i] >= 1 /\ (valid'[i] \/ \E q \in Procs : loc'[q].pc = "c_lock" /\ loc'[q].ip = i)
    BY DEF Doomed
  <2>1. ref'[i] \in Nat /\ ref[i] \in Nat
    BY DEF Accounts, Inv, Base, TypeInv
  <2>2. CASE nlink'[i] # nlink[i]
    BY <1>3, <2>1, <2>2
  <2>3. CASE nlink'[i] = nlink[i] /\ loc[p].pc # "c_lock"
    BY <2>1, <2>3, DoomedStep
  <2>4. CASE nlink'[i] = nlink[i] /\ loc[p].pc = "c_lock"
    <3>1. ref[i] >= 1 /\ (valid[i] \/ \E q \in Procs : loc[q].pc = "c_lock" /\ loc[q].ip = i)
      BY <2>4 DEF Inv, Doomed
    <3>2. \A q \in Procs \ {p} : loc'[q] = loc[q]
      BY DEF Frame
    <3> QED BY <2>1, <2>4, <3>1, <3>2
  <2> QED BY <2>2, <2>3, <2>4
<1>6. ValidInv'
  BY DEF ValidInv, Inv
<1>7. (Kind(loc[p]) /\ Look(loc[p]))'
  BY DEF Kind, Look
<1>8. Gains(p) /\ Ends(p) /\ Types(p) /\ Waits(p)
  BY <1>2 DEF Gains, Ends, Types, Waits
<1>9. Touches(p)
  BY <1>2, <1>3 DEF Touches, Named
<1>10. Fresh(p)
  <2> SUFFICES ASSUME NEW i \in Inodes, Private(loc'[p], i)
               PROVE  PrivateOwn(loc[p], file[p], i)' /\ Private(loc[p], i)
    BY DEF Fresh, HeadIs, Last
  <2>1. loc'[p].pc \in NewPcs /\ loc'[p].ip = i
    BY DEF Private
  <2>2. loc[p].pc \in NewPcs /\ loc[p].ip = i /\ Private(loc[p], i)
    BY <2>1 DEF Private
  <2>3. /\ Holds(loc[p], file[p], i) = 1 /\ i # ROOTINO /\ ~Named(i) /\ entry[i] = NoEntries
        /\ loc[p].pc \in {"c_lock", "c_init"} => nlink[i] = 0
    BY <2>2 DEF Inv, PrivateInv
  <2>4. ~Named(i)'
    BY <2>3 DEF Named
  <2>5. loc'[p].pc \in {"c_lock", "c_init"} => nlink'[i] = 0
    BY <2>1, <2>3
  <2>6. ~HeadIs(loc'[p], {"trunc", "free"}, i)
    BY DEF HeadIs, Last
  <2> QED BY <2>1, <2>2, <2>3, <2>4, <2>5, <2>6 DEF PrivateOwn
<1> QED BY <1>1, <1>4, <1>5, <1>6, <1>7, <1>8, <1>9, <1>10 DEF Good

(* A step that takes a reference to x and locks y, if any, and keeps the file. *)
LEMMA MovedFrame ==
  ASSUME Inv, NEW p \in Procs, loc'[p] \in Locs, loc' \in [Procs -> Locs],
         \A q \in Procs \ {p} : loc'[q] = loc[q], WellFormed(loc'[p], file[p]), file' = file,
         NEW x, NEW y, Igets(x), Ilocks(p, y), x \in Inodes => x = ROOTINO \/ Named(x),
         \A j \in Inodes : Holds(loc'[p], file[p], j) = Holds(loc[p], file[p], j) + One(x = j),
         \A j \in Inodes : Claims(loc'[p], j) = Claims(loc[p], j) + One(y = j)
  PROVE  /\ Frame(p) /\ Accounts(p) /\ LocksMove(p) /\ valid' \in [Inodes -> BOOLEAN]
         /\ \A i \in Inodes : /\ ref'[i] >= ref[i]
                              /\ ref'[i] > ref[i] => i = ROOTINO \/ Named(i)
                              /\ valid[i] => valid'[i]
                              /\ busy'[i] # Nobody => busy[i] # Nobody \/ valid'[i]
<1>1. Frame(p)
  BY DEF Frame, Inv, Base, TypeInv
<1>2. Accounts(p) /\ LocksMove(p)
  BY Locally DEF Inv
<1>3. ASSUME NEW i \in Inodes
      PROVE  /\ ref'[i] >= ref[i]
             /\ ref'[i] > ref[i] => i = ROOTINO \/ Named(i)
             /\ valid[i] => valid'[i]
             /\ busy'[i] # Nobody => busy[i] # Nobody \/ valid'[i]
  <2>1. ref[i] \in Nat
    BY DEF Inv, Base, TypeInv
  <2> QED BY <2>1 DEF Igets, Ilocks, One
<1> QED BY <1>1, <1>2, <1>3 DEF Ilocks

(* An inode held as two of cur, dp and ip is held twice. *)
LEMMA HoldsTwice ==
  ASSUME NEW l, NEW f, NEW i, l.dp = i, l.ip = i
  PROVE  Holds(l, f, i) >= 2
<1>1. /\ One(l.cur = i) \in Nat /\ One(f = i) \in Nat /\ Puts(l.rel, i) \in Nat
      /\ One(l.dp = i) = 1 /\ One(l.ip = i) = 1
  BY CountType, OneNat DEF Puts, One
<1> QED BY <1>1 DEF Holds

(* create() locks the new inode, *)
LEMMA CreateLockGood ==
  ASSUME Inv, NEW p \in Procs, CreateLock(p), UNCHANGED past
  PROVE  Good(p)
<1> DEFINE l == loc[p]
           m == loc'[p]
<1>1. /\ l.pc = "c_lock" /\ l.rel = <<>>
      /\ UNCHANGED <<type, entry, strays, crashes, damaged, file, ref>>
  BY DEF CreateLock, At, disk, icache, past
<1>0. loc' = [loc EXCEPT ![p].pc = "c_init"]
  BY DEF CreateLock, At
<1>2. /\ WellFormed(l, file[p]) /\ l \in Locs /\ \A j : Puts(l.rel, j) = 0 /\ Locks(l.rel, j) = 0
      /\ \A D, j : ~HeadIs(l, D, j)
  BY <1>1, AtFacts DEF Inv
<1>3. /\ l.ip \in Inodes /\ l.dp \in Inodes /\ l.cur = None /\ l.pc \in NewPcs /\ l.ip # l.dp
      /\ type \in [Inodes -> {"free", "file", "dir"}] /\ nlink \in [Inodes -> Nat] /\ valid \in [Inodes -> BOOLEAN]
      /\ dots \in [Inodes -> Seq(Inodes)]
  <2>1. l.ip \in Inodes /\ l.dp \in Inodes /\ l.cur = None /\ l.pc \in NewPcs
    BY <1>1, <1>2 DEF WellFormed, Locs, IpPcs, IpLocked, DpLocked, NewPcs
  <2>2. Holds(l, file[p], l.ip) = 1
    BY <2>1 DEF Inv, PrivateInv, Private
  <2>3. l.ip # l.dp
    BY <2>1, <2>2, HoldsTwice
  <2> QED BY <2>1, <2>3 DEF Inv, Base, TypeInv, DotsInv
<1>4. /\ ilock(p, l.ip) /\ nlink' = nlink /\ dots' = dots /\ busy[l.ip] = Nobody
      /\ valid' = [valid EXCEPT ![l.ip] = TRUE]
  BY <1>1, <1>3 DEF CreateLock, disk, icache, At, ilock
<1>5. /\ m \in Locs /\ loc' \in [Procs -> Locs] /\ \A q \in Procs \ {p} : loc'[q] = loc[q]
      /\ m.pc = "c_init" /\ m.call = l.call /\ m.rest = l.rest /\ m.new = l.new
      /\ m.cur = l.cur /\ m.dp = l.dp /\ m.ip = l.ip /\ m.rel = <<>>
      /\ \A f, j : Holds(m, f, j) = Holds(l, f, j)
      /\ \A j : Puts(m.rel, j) = 0 /\ Locks(m.rel, j) = 0
      /\ \A D, j : ~HeadIs(m, D, j)
  <2> DEFINE pc == "c_init"
  <2>1. pc \in PCs
    BY <1>1 DEF PCs
  <2>2. loc' = [loc EXCEPT ![p].pc = pc]
    BY <1>0
  <2> HIDE DEF pc
  <2>3. /\ m \in Locs /\ loc' \in [Procs -> Locs] /\ \A q \in Procs \ {p} : loc'[q] = loc[q]
        /\ m.pc = pc /\ m.call = l.call /\ m.rest = l.rest /\ m.new = l.new
        /\ m.cur = l.cur /\ m.dp = l.dp /\ m.ip = l.ip /\ m.rel = <<>>
        /\ \A f, j : Holds(m, f, j) = Holds(l, f, j)
        /\ \A j : Puts(m.rel, j) = 0 /\ Locks(m.rel, j) = 0
        /\ \A D, j : ~HeadIs(m, D, j)
    BY <1>1, <2>1, <2>2, PcMoved DEF Inv
  <2> QED BY <1>1, <1>2, <2>3 DEF pc, WellFormed
<1>6. WellFormed(m, file[p])
  <2>1. /\ l.pc \in NewPcs /\ l.pc \notin WalkPcs /\ l.pc \in DpLocked /\ l.pc \in IpPcs
        /\ m.pc \in NewPcs /\ m.pc \notin WalkPcs /\ m.pc \in DpLocked /\ m.pc \in IpPcs
    BY <1>1, <1>5 DEF DpLocked, IpPcs, IpLocked, NewPcs, WalkPcs
  <2> QED BY <1>1, <1>2, <1>5, <2>1, RelEmpty DEF WellFormed
<1>7. \A j \in Inodes : Claims(m, j) = Claims(l, j) + One(l.ip = j)
  BY <1>1, <1>2, <1>3, <1>5, Constants DEF Claims, One, DpLocked, IpLocked, NewPcs
<1>8. \A j \in Inodes : Holds(m, file[p], j) = Holds(l, file[p], j) + One(None = j)
  BY <1>5, HoldsType, Constants DEF One
<1>9. Igets(None) /\ Ilocks(p, l.ip)
  BY <1>1, <1>3, <1>4, IgetNone, IlockSome DEF Inv
<1>10. /\ Frame(p) /\ Accounts(p) /\ LocksMove(p) /\ valid' \in [Inodes -> BOOLEAN]
       /\ \A i \in Inodes : /\ ref'[i] >= ref[i]
                            /\ ref'[i] > ref[i] => i = ROOTINO \/ Named(i)
                            /\ valid[i] => valid'[i]
                            /\ busy'[i] # Nobody => busy[i] # Nobody \/ valid'[i]
  <2> HIDE DEF l, m
  <2> QED BY <1>1, <1>5, <1>6, <1>7, <1>8, <1>9, Constants, MovedFrame DEF l, m
<1>11. Kind(m) /\ Look(m) /\ Kind(l)
  <2>1. Kind(l) /\ Look(l)
    BY DEF Inv, KindInv
  <2> QED BY <1>1, <1>3, <1>5, <2>1 DEF Kind, Look, WalkPcs, NewPcs
<1>12. \A i \in Inodes :
         /\ nlink'[i] + One(PendIp(l, i)) + One(PendDp(l, i)) = nlink[i] + One(PendIp(m, i)) + One(PendDp(m, i))
         /\ type[i] = "dir" /\ PendIp(m, i) => PendIp(l, i) \/ nlink[i] = 0
         /\ nlink'[i] # nlink[i] \/ dots'[i] # dots[i] => busy[i] = p /\ l.pc # "c_lock"
  <2>1. \A i : (PendIp(l, i) <=> PendIp(m, i)) /\ (PendDp(l, i) <=> PendDp(m, i))
    BY <1>1, <1>2, <1>3, <1>5 DEF PendIp, PendDp, NewPcs, WalkPcs, WellFormed
  <2>2. \A i : One(PendIp(l, i)) = One(PendIp(m, i)) /\ One(PendDp(l, i)) = One(PendDp(m, i))
    BY <2>1 DEF One
  <2> QED BY <1>1, <1>3, <1>4, <2>1, <2>2
<1>13. DotsOwn(p)
  BY <1>1, <1>4, <1>5 DEF DotsOwn, Inv, DotsInv
<1>14. /\ m.pc \in NewPcs /\ m.pc # "c_lock" /\ (m.pc = "c_init" => l.pc = "c_lock")
       /\ (l.pc = "c_lock" => busy[l.ip] = Nobody /\ valid'[l.ip])
  BY <1>1, <1>3, <1>4, <1>5 DEF NewPcs, Ilocks
<1>15. nlink' \in [Inodes -> Nat]
  BY <1>3, <1>4
<1>16. \A i \in Inodes : ~HeadIs(m, Last, i) /\ Holds(m, file'[p], i) = Holds(l, file[p], i)
  BY <1>1, <1>5
<1> HIDE DEF l, m
<1> QED BY <1>1, <1>3, <1>5, <1>10, <1>11, <1>12, <1>13, <1>14, <1>15, <1>16, CountedGood DEF l, m

(* counts its link, *)
LEMMA CreateInitGood ==
  ASSUME Inv, NEW p \in Procs, CreateInit(p), UNCHANGED past
  PROVE  Good(p)
<1> DEFINE l == loc[p]
           m == loc'[p]
<1>1. /\ l.pc = "c_init" /\ l.rel = <<>>
      /\ UNCHANGED <<type, entry, strays, crashes, damaged, file, ref>>
  BY DEF CreateInit, At, disk, icache, past
<1>0. loc' = [loc EXCEPT ![p].pc = IF loc[p].call = "mkdir" THEN "c_dots" ELSE "c_link"]
  BY DEF CreateInit, At
<1>2. /\ WellFormed(l, file[p]) /\ l \in Locs /\ \A j : Puts(l.rel, j) = 0 /\ Locks(l.rel, j) = 0
      /\ \A D, j : ~HeadIs(l, D, j)
  BY <1>1, AtFacts DEF Inv
<1>3. /\ l.ip \in Inodes /\ l.dp \in Inodes /\ l.cur = None /\ l.pc \in NewPcs /\ l.ip # l.dp
      /\ type \in [Inodes -> {"free", "file", "dir"}] /\ nlink \in [Inodes -> Nat] /\ valid \in [Inodes -> BOOLEAN]
      /\ dots \in [Inodes -> Seq(Inodes)]
  <2>1. l.ip \in Inodes /\ l.dp \in Inodes /\ l.cur = None /\ l.pc \in NewPcs
    BY <1>1, <1>2 DEF WellFormed, Locs, IpPcs, IpLocked, DpLocked, NewPcs
  <2>2. Holds(l, file[p], l.ip) = 1
    BY <2>1 DEF Inv, PrivateInv, Private
  <2>3. l.ip # l.dp
    BY <2>1, <2>2, HoldsTwice
  <2> QED BY <2>1, <2>3 DEF Inv, Base, TypeInv, DotsInv
<1>4. /\ UNCHANGED <<dots, busy, valid>> /\ nlink' = [nlink EXCEPT ![l.ip] = 1] /\ nlink' \in [Inodes -> Nat]
  BY <1>1, <1>3 DEF CreateInit, disk, icache, At, ilock
<1>5. /\ m \in Locs /\ loc' \in [Procs -> Locs] /\ \A q \in Procs \ {p} : loc'[q] = loc[q]
      /\ m.pc = (IF l.call = "mkdir" THEN "c_dots" ELSE "c_link") /\ m.call = l.call /\ m.rest = l.rest /\ m.new = l.new
      /\ m.cur = l.cur /\ m.dp = l.dp /\ m.ip = l.ip /\ m.rel = <<>>
      /\ \A f, j : Holds(m, f, j) = Holds(l, f, j)
      /\ \A j : Puts(m.rel, j) = 0 /\ Locks(m.rel, j) = 0
      /\ \A D, j : ~HeadIs(m, D, j)
  <2> DEFINE pc == IF loc[p].call = "mkdir" THEN "c_dots" ELSE "c_link"
  <2>1. pc \in PCs
    BY <1>1 DEF PCs
  <2>2. loc' = [loc EXCEPT ![p].pc = pc]
    BY <1>0
  <2> HIDE DEF pc
  <2>3. /\ m \in Locs /\ loc' \in [Procs -> Locs] /\ \A q \in Procs \ {p} : loc'[q] = loc[q]
        /\ m.pc = pc /\ m.call = l.call /\ m.rest = l.rest /\ m.new = l.new
        /\ m.cur = l.cur /\ m.dp = l.dp /\ m.ip = l.ip /\ m.rel = <<>>
        /\ \A f, j : Holds(m, f, j) = Holds(l, f, j)
        /\ \A j : Puts(m.rel, j) = 0 /\ Locks(m.rel, j) = 0
        /\ \A D, j : ~HeadIs(m, D, j)
    BY <1>1, <2>1, <2>2, PcMoved DEF Inv
  <2> QED BY <1>1, <1>2, <2>3 DEF pc, WellFormed
<1>6. WellFormed(m, file[p])
  <2>1. /\ l.pc \in NewPcs /\ l.pc \notin WalkPcs /\ l.pc \in DpLocked /\ l.pc \in IpPcs
        /\ m.pc \in NewPcs /\ m.pc \notin WalkPcs /\ m.pc \in DpLocked /\ m.pc \in IpPcs
    BY <1>1, <1>5 DEF DpLocked, IpPcs, IpLocked, NewPcs, WalkPcs
  <2> QED BY <1>1, <1>2, <1>5, <2>1, RelEmpty DEF WellFormed
<1>7. \A j \in Inodes : Claims(m, j) = Claims(l, j) + One(None = j)
  BY <1>1, <1>2, <1>3, <1>5, Constants DEF Claims, One, DpLocked, IpLocked, NewPcs
<1>8. \A j \in Inodes : Holds(m, file[p], j) = Holds(l, file[p], j) + One(None = j)
  BY <1>5, HoldsType, Constants DEF One
<1>9. Igets(None) /\ Ilocks(p, None)
  BY <1>1, <1>3, <1>4, IgetNone, IlockNone DEF Inv
<1>10. /\ Frame(p) /\ Accounts(p) /\ LocksMove(p) /\ valid' \in [Inodes -> BOOLEAN]
       /\ \A i \in Inodes : /\ ref'[i] >= ref[i]
                            /\ ref'[i] > ref[i] => i = ROOTINO \/ Named(i)
                            /\ valid[i] => valid'[i]
                            /\ busy'[i] # Nobody => busy[i] # Nobody \/ valid'[i]
  <2> HIDE DEF l, m
  <2> QED BY <1>1, <1>5, <1>6, <1>7, <1>8, <1>9, Constants, MovedFrame DEF l, m
<1>11. Kind(m) /\ Look(m) /\ Kind(l)
  <2>1. Kind(l) /\ Look(l)
    BY DEF Inv, KindInv
  <2> QED BY <1>1, <1>3, <1>5, <2>1 DEF Kind, Look, WalkPcs, NewPcs
<1>12. \A i \in Inodes :
         /\ nlink'[i] + One(PendIp(l, i)) + One(PendDp(l, i)) = nlink[i] + One(PendIp(m, i)) + One(PendDp(m, i))
         /\ type[i] = "dir" /\ PendIp(m, i) => PendIp(l, i) \/ nlink[i] = 0
         /\ nlink'[i] # nlink[i] \/ dots'[i] # dots[i] => busy[i] = p /\ l.pc # "c_lock"
  <2>1. busy[l.ip] = p
    <3>1. One(l.pc \in IpLocked /\ l.ip = l.ip) = 1
      BY <1>1, <1>3 DEF One, DpLocked, IpLocked, NewPcs
    <3>2. Claims(l, l.ip) >= 1
      BY <1>2, <1>3, <3>1, OneNat DEF Claims
    <3> QED BY <1>3, <3>2, Owner DEF Inv
  <2>2. nlink[l.ip] = 0
    BY <1>1, <1>3 DEF Inv, PrivateInv, Private
  <2>3. ASSUME NEW i \in Inodes
        PROVE  /\ ~PendIp(l, i) /\ ~PendDp(l, i) /\ ~PendDp(m, i) /\ (PendIp(m, i) <=> i = l.ip)
    BY <1>1, <1>2, <1>3, <1>5 DEF PendIp, PendDp, NewPcs, WalkPcs, WellFormed
  <2>4. \A i \in Inodes : /\ One(PendIp(l, i)) = 0 /\ One(PendDp(l, i)) = 0 /\ One(PendDp(m, i)) = 0
                         /\ One(PendIp(m, i)) = One(i = l.ip)
    BY <2>3 DEF One
  <2> QED BY <1>1, <1>3, <1>4, <2>1, <2>2, <2>3, <2>4 DEF One
<1>13. DotsOwn(p)
  BY <1>1, <1>4, <1>5 DEF DotsOwn, Inv, DotsInv
<1>14. /\ m.pc \in NewPcs /\ m.pc # "c_lock" /\ (m.pc = "c_init" => l.pc = "c_lock")
       /\ (l.pc = "c_lock" => busy[l.ip] = Nobody /\ valid'[l.ip])
  BY <1>1, <1>3, <1>4, <1>5 DEF NewPcs, Ilocks
<1>15. nlink' \in [Inodes -> Nat]
  BY <1>3, <1>4
<1>16. \A i \in Inodes : ~HeadIs(m, Last, i) /\ Holds(m, file'[p], i) = Holds(l, file[p], i)
  BY <1>1, <1>5
<1> HIDE DEF l, m
<1> QED BY <1>1, <1>3, <1>5, <1>10, <1>11, <1>12, <1>13, <1>14, <1>15, <1>16, CountedGood DEF l, m

(* and the link of its "..", *)
LEMMA CreateDotsGood ==
  ASSUME Inv, NEW p \in Procs, CreateDots(p), UNCHANGED past
  PROVE  Good(p)
<1> DEFINE l == loc[p]
           m == loc'[p]
<1>1. /\ l.pc = "c_dots" /\ l.rel = <<>>
      /\ UNCHANGED <<type, entry, strays, crashes, damaged, file, ref>>
  BY DEF CreateDots, At, disk, icache, past
<1>0. loc' = [loc EXCEPT ![p].pc = "c_dot"]
  BY DEF CreateDots, At
<1>2. /\ WellFormed(l, file[p]) /\ l \in Locs /\ \A j : Puts(l.rel, j) = 0 /\ Locks(l.rel, j) = 0
      /\ \A D, j : ~HeadIs(l, D, j)
  BY <1>1, AtFacts DEF Inv
<1>3. /\ l.ip \in Inodes /\ l.dp \in Inodes /\ l.cur = None /\ l.pc \in NewPcs /\ l.ip # l.dp
      /\ type \in [Inodes -> {"free", "file", "dir"}] /\ nlink \in [Inodes -> Nat] /\ valid \in [Inodes -> BOOLEAN]
      /\ dots \in [Inodes -> Seq(Inodes)]
  <2>1. l.ip \in Inodes /\ l.dp \in Inodes /\ l.cur = None /\ l.pc \in NewPcs
    BY <1>1, <1>2 DEF WellFormed, Locs, IpPcs, IpLocked, DpLocked, NewPcs
  <2>2. Holds(l, file[p], l.ip) = 1
    BY <2>1 DEF Inv, PrivateInv, Private
  <2>3. l.ip # l.dp
    BY <2>1, <2>2, HoldsTwice
  <2> QED BY <2>1, <2>3 DEF Inv, Base, TypeInv, DotsInv
<1>4. /\ UNCHANGED <<dots, busy, valid>> /\ nlink' = [nlink EXCEPT ![l.dp] = @ + 1] /\ nlink' \in [Inodes -> Nat]
  BY <1>1, <1>3 DEF CreateDots, disk, icache, At, ilock
<1>5. /\ m \in Locs /\ loc' \in [Procs -> Locs] /\ \A q \in Procs \ {p} : loc'[q] = loc[q]
      /\ m.pc = "c_dot" /\ m.call = l.call /\ m.rest = l.rest /\ m.new = l.new
      /\ m.cur = l.cur /\ m.dp = l.dp /\ m.ip = l.ip /\ m.rel = <<>>
      /\ \A f, j : Holds(m, f, j) = Holds(l, f, j)
      /\ \A j : Puts(m.rel, j) = 0 /\ Locks(m.rel, j) = 0
      /\ \A D, j : ~HeadIs(m, D, j)
  <2> DEFINE pc == "c_dot"
  <2>1. pc \in PCs
    BY <1>1 DEF PCs
  <2>2. loc' = [loc EXCEPT ![p].pc = pc]
    BY <1>0
  <2> HIDE DEF pc
  <2>3. /\ m \in Locs /\ loc' \in [Procs -> Locs] /\ \A q \in Procs \ {p} : loc'[q] = loc[q]
        /\ m.pc = pc /\ m.call = l.call /\ m.rest = l.rest /\ m.new = l.new
        /\ m.cur = l.cur /\ m.dp = l.dp /\ m.ip = l.ip /\ m.rel = <<>>
        /\ \A f, j : Holds(m, f, j) = Holds(l, f, j)
        /\ \A j : Puts(m.rel, j) = 0 /\ Locks(m.rel, j) = 0
        /\ \A D, j : ~HeadIs(m, D, j)
    BY <1>1, <2>1, <2>2, PcMoved DEF Inv
  <2> QED BY <1>1, <1>2, <2>3 DEF pc, WellFormed
<1>6. WellFormed(m, file[p])
  <2>1. /\ l.pc \in NewPcs /\ l.pc \notin WalkPcs /\ l.pc \in DpLocked /\ l.pc \in IpPcs
        /\ m.pc \in NewPcs /\ m.pc \notin WalkPcs /\ m.pc \in DpLocked /\ m.pc \in IpPcs
    BY <1>1, <1>5 DEF DpLocked, IpPcs, IpLocked, NewPcs, WalkPcs
  <2> QED BY <1>1, <1>2, <1>5, <2>1, RelEmpty DEF WellFormed
<1>7. \A j \in Inodes : Claims(m, j) = Claims(l, j) + One(None = j)
  BY <1>1, <1>2, <1>3, <1>5, Constants DEF Claims, One, DpLocked, IpLocked, NewPcs
<1>8. \A j \in Inodes : Holds(m, file[p], j) = Holds(l, file[p], j) + One(None = j)
  BY <1>5, HoldsType, Constants DEF One
<1>9. Igets(None) /\ Ilocks(p, None)
  BY <1>1, <1>3, <1>4, IgetNone, IlockNone DEF Inv
<1>10. /\ Frame(p) /\ Accounts(p) /\ LocksMove(p) /\ valid' \in [Inodes -> BOOLEAN]
       /\ \A i \in Inodes : /\ ref'[i] >= ref[i]
                            /\ ref'[i] > ref[i] => i = ROOTINO \/ Named(i)
                            /\ valid[i] => valid'[i]
                            /\ busy'[i] # Nobody => busy[i] # Nobody \/ valid'[i]
  <2> HIDE DEF l, m
  <2> QED BY <1>1, <1>5, <1>6, <1>7, <1>8, <1>9, Constants, MovedFrame DEF l, m
<1>11. Kind(m) /\ Look(m) /\ Kind(l)
  <2>1. Kind(l) /\ Look(l)
    BY DEF Inv, KindInv
  <2> QED BY <1>1, <1>3, <1>5, <2>1 DEF Kind, Look, WalkPcs, NewPcs
<1>12. \A i \in Inodes :
         /\ nlink'[i] + One(PendIp(l, i)) + One(PendDp(l, i)) = nlink[i] + One(PendIp(m, i)) + One(PendDp(m, i))
         /\ type[i] = "dir" /\ PendIp(m, i) => PendIp(l, i) \/ nlink[i] = 0
         /\ nlink'[i] # nlink[i] \/ dots'[i] # dots[i] => busy[i] = p /\ l.pc # "c_lock"
  <2>1. busy[l.dp] = p
    <3>1. One(l.pc \in DpLocked /\ l.dp = l.dp) = 1
      BY <1>1, <1>3 DEF One, DpLocked, IpLocked, NewPcs
    <3>2. Claims(l, l.dp) >= 1
      BY <1>2, <1>3, <3>1, OneNat DEF Claims
    <3> QED BY <1>3, <3>2, Owner DEF Inv
  <2>3. ASSUME NEW i \in Inodes
        PROVE  /\ ~PendDp(l, i) /\ (PendIp(m, i) <=> PendIp(l, i)) /\ (PendDp(m, i) <=> i = l.dp)
    BY <1>1, <1>2, <1>3, <1>5 DEF PendIp, PendDp, NewPcs, WalkPcs
  <2>4. \A i \in Inodes : /\ One(PendIp(l, i)) = One(PendIp(m, i)) /\ One(PendDp(l, i)) = 0
                         /\ One(PendDp(m, i)) = One(i = l.dp) /\ One(PendIp(m, i)) \in Nat
    BY <2>3, OneNat DEF One
  <2> QED BY <1>1, <1>3, <1>4, <2>1, <2>3, <2>4 DEF One
<1>13. DotsOwn(p)
  BY <1>1, <1>4, <1>5 DEF DotsOwn, Inv, DotsInv
<1>14. /\ m.pc \in NewPcs /\ m.pc # "c_lock" /\ (m.pc = "c_init" => l.pc = "c_lock")
       /\ (l.pc = "c_lock" => busy[l.ip] = Nobody /\ valid'[l.ip])
  BY <1>1, <1>3, <1>4, <1>5 DEF NewPcs, Ilocks
<1>15. nlink' \in [Inodes -> Nat]
  BY <1>3, <1>4
<1>16. \A i \in Inodes : ~HeadIs(m, Last, i) /\ Holds(m, file'[p], i) = Holds(l, file[p], i)
  BY <1>1, <1>5
<1> HIDE DEF l, m
<1> QED BY <1>1, <1>3, <1>5, <1>10, <1>11, <1>12, <1>13, <1>14, <1>15, <1>16, CountedGood DEF l, m

(* and writes "." and "..". *)
LEMMA CreateDotGood ==
  ASSUME Inv, NEW p \in Procs, CreateDot(p), UNCHANGED past
  PROVE  Good(p)
<1> DEFINE l == loc[p]
           m == loc'[p]
<1>1. /\ l.pc \in {"c_dot", "c_dotdot"} /\ l.rel = <<>>
      /\ UNCHANGED <<type, entry, strays, crashes, damaged, file, ref>>
  BY DEF CreateDot, At, disk, icache, past
<1>0. loc' = [loc EXCEPT ![p].pc = IF loc[p].pc = "c_dot" THEN "c_dotdot" ELSE "c_link"]
  BY DEF CreateDot, At
<1>2. /\ WellFormed(l, file[p]) /\ l \in Locs /\ \A j : Puts(l.rel, j) = 0 /\ Locks(l.rel, j) = 0
      /\ \A D, j : ~HeadIs(l, D, j)
  BY <1>1, AtFacts DEF Inv
<1>3. /\ l.ip \in Inodes /\ l.dp \in Inodes /\ l.cur = None /\ l.pc \in NewPcs /\ l.ip # l.dp
      /\ type \in [Inodes -> {"free", "file", "dir"}] /\ nlink \in [Inodes -> Nat] /\ valid \in [Inodes -> BOOLEAN]
      /\ dots \in [Inodes -> Seq(Inodes)]
  <2>1. l.ip \in Inodes /\ l.dp \in Inodes /\ l.cur = None /\ l.pc \in NewPcs
    BY <1>1, <1>2 DEF WellFormed, Locs, IpPcs, IpLocked, DpLocked, NewPcs
  <2>2. Holds(l, file[p], l.ip) = 1
    BY <2>1 DEF Inv, PrivateInv, Private
  <2>3. l.ip # l.dp
    BY <2>1, <2>2, HoldsTwice
  <2> QED BY <2>1, <2>3 DEF Inv, Base, TypeInv, DotsInv
<1>4. /\ UNCHANGED <<nlink, busy, valid>>
      /\ dots' = [dots EXCEPT ![l.ip] = Append(@, IF l.pc = "c_dot" THEN l.ip ELSE l.dp)]
  BY <1>1, <1>3 DEF CreateDot, disk, icache, At, ilock
<1>5. /\ m \in Locs /\ loc' \in [Procs -> Locs] /\ \A q \in Procs \ {p} : loc'[q] = loc[q]
      /\ m.pc = (IF l.pc = "c_dot" THEN "c_dotdot" ELSE "c_link") /\ m.call = l.call /\ m.rest = l.rest /\ m.new = l.new
      /\ m.cur = l.cur /\ m.dp = l.dp /\ m.ip = l.ip /\ m.rel = <<>>
      /\ \A f, j : Holds(m, f, j) = Holds(l, f, j)
      /\ \A j : Puts(m.rel, j) = 0 /\ Locks(m.rel, j) = 0
      /\ \A D, j : ~HeadIs(m, D, j)
  <2> DEFINE pc == IF loc[p].pc = "c_dot" THEN "c_dotdot" ELSE "c_link"
  <2>1. pc \in PCs
    BY <1>1 DEF PCs
  <2>2. loc' = [loc EXCEPT ![p].pc = pc]
    BY <1>0
  <2> HIDE DEF pc
  <2>3. /\ m \in Locs /\ loc' \in [Procs -> Locs] /\ \A q \in Procs \ {p} : loc'[q] = loc[q]
        /\ m.pc = pc /\ m.call = l.call /\ m.rest = l.rest /\ m.new = l.new
        /\ m.cur = l.cur /\ m.dp = l.dp /\ m.ip = l.ip /\ m.rel = <<>>
        /\ \A f, j : Holds(m, f, j) = Holds(l, f, j)
        /\ \A j : Puts(m.rel, j) = 0 /\ Locks(m.rel, j) = 0
        /\ \A D, j : ~HeadIs(m, D, j)
    BY <1>1, <2>1, <2>2, PcMoved DEF Inv
  <2> QED BY <1>1, <1>2, <2>3 DEF pc, WellFormed
<1>6. WellFormed(m, file[p])
  <2>1. /\ l.pc \in NewPcs /\ l.pc \notin WalkPcs /\ l.pc \in DpLocked /\ l.pc \in IpPcs
        /\ m.pc \in NewPcs /\ m.pc \notin WalkPcs /\ m.pc \in DpLocked /\ m.pc \in IpPcs
    BY <1>1, <1>5 DEF DpLocked, IpPcs, IpLocked, NewPcs, WalkPcs
  <2> QED BY <1>1, <1>2, <1>5, <2>1, RelEmpty DEF WellFormed
<1>7. \A j \in Inodes : Claims(m, j) = Claims(l, j) + One(None = j)
  BY <1>1, <1>2, <1>3, <1>5, Constants DEF Claims, One, DpLocked, IpLocked, NewPcs
<1>8. \A j \in Inodes : Holds(m, file[p], j) = Holds(l, file[p], j) + One(None = j)
  BY <1>5, HoldsType, Constants DEF One
<1>9. Igets(None) /\ Ilocks(p, None)
  BY <1>1, <1>3, <1>4, IgetNone, IlockNone DEF Inv
<1>10. /\ Frame(p) /\ Accounts(p) /\ LocksMove(p) /\ valid' \in [Inodes -> BOOLEAN]
       /\ \A i \in Inodes : /\ ref'[i] >= ref[i]
                            /\ ref'[i] > ref[i] => i = ROOTINO \/ Named(i)
                            /\ valid[i] => valid'[i]
                            /\ busy'[i] # Nobody => busy[i] # Nobody \/ valid'[i]
  <2> HIDE DEF l, m
  <2> QED BY <1>1, <1>5, <1>6, <1>7, <1>8, <1>9, Constants, MovedFrame DEF l, m
<1>11. Kind(m) /\ Look(m) /\ Kind(l)
  <2>1. Kind(l) /\ Look(l)
    BY DEF Inv, KindInv
  <2> QED BY <1>1, <1>3, <1>5, <2>1 DEF Kind, Look, WalkPcs, NewPcs
<1>12. \A i \in Inodes :
         /\ nlink'[i] + One(PendIp(l, i)) + One(PendDp(l, i)) = nlink[i] + One(PendIp(m, i)) + One(PendDp(m, i))
         /\ type[i] = "dir" /\ PendIp(m, i) => PendIp(l, i) \/ nlink[i] = 0
         /\ nlink'[i] # nlink[i] \/ dots'[i] # dots[i] => busy[i] = p /\ l.pc # "c_lock"
  <2>1. busy[l.ip] = p
    <3>1. One(l.pc \in IpLocked /\ l.ip = l.ip) = 1
      BY <1>1, <1>3 DEF One, DpLocked, IpLocked, NewPcs
    <3>2. Claims(l, l.ip) >= 1
      BY <1>2, <1>3, <3>1, OneNat DEF Claims
    <3> QED BY <1>3, <3>2, Owner DEF Inv
  <2>2. l.call = "mkdir"
    BY <1>1, <1>2 DEF WellFormed
  <2>4. \A i : (PendIp(l, i) <=> PendIp(m, i)) /\ (PendDp(l, i) <=> PendDp(m, i))
    BY <1>1, <1>2, <1>3, <1>5, <2>2 DEF PendIp, PendDp, NewPcs, WalkPcs, WellFormed
  <2>3. \A i : One(PendIp(l, i)) = One(PendIp(m, i)) /\ One(PendDp(l, i)) = One(PendDp(m, i))
    BY <2>4 DEF One
  <2> QED BY <1>1, <1>3, <1>4, <2>1, <2>3, <2>4
<1>13. DotsOwn(p)
  <2>1. Len(dots[l.ip]) = IF l.pc = "c_dot" THEN 0 ELSE 1
    <3>1. l.pc = "c_dot" => dots[l.ip] = <<>>
      BY <1>3 DEF Inv, DotsInv
    <3>2. l.pc = "c_dotdot" => Len(dots[l.ip]) = 1
      BY <1>3 DEF Inv, DotsInv
    <3> QED BY <1>1, <3>1, <3>2, EmptySeq
  <2>2. PICK x \in Inodes : dots' = [dots EXCEPT ![l.ip] = Append(@, x)]
    BY <1>3, <1>4
  <2>3. /\ Append(dots[l.ip], x) \in Seq(Inodes)
        /\ Len(Append(dots[l.ip], x)) = IF l.pc = "c_dot" THEN 1 ELSE 2
    BY <1>3, <2>1, AppendProperties
  <2>4. dots' \in [Inodes -> Seq(Inodes)] /\ dots'[l.ip] = Append(dots[l.ip], x)
        /\ \A i \in Inodes \ {l.ip} : dots'[i] = dots[i]
    BY <1>3, <2>2, <2>3
  <2>5. type[l.ip] # "free"
    BY <1>3, <1>11 DEF Kind
  <2>6. /\ m.pc \in {"c_dotdot", "c_link"} /\ (m.pc = "c_dotdot" => l.pc = "c_dot") /\ m.ip = l.ip
        /\ \A i : ~HeadIs(m, {"free"}, i)
    BY <1>1, <1>5
  <2>7. \A i \in Inodes : /\ Len(dots[i]) <= 2
                          /\ type[i] = "free" => dots[i] = <<>>
    BY DEF Inv, DotsInv
  <2> HIDE DEF l, m
  <2>8. ASSUME NEW i \in Inodes
        PROVE  /\ Len(dots'[i]) <= 2 /\ (type[i] = "free" => dots'[i] = <<>>)
               /\ (m.pc = "c_dotdot" /\ m.ip = i => Len(dots'[i]) = 1)
    <3>1. CASE i = l.ip
      <4>1. dots'[i] = Append(dots[l.ip], x) /\ type[i] # "free"
        BY <2>4, <2>5, <3>1
      <4>2. Len(dots'[i]) = IF l.pc = "c_dot" THEN 1 ELSE 2
        BY <2>3, <4>1
      <4> QED BY <2>6, <4>1, <4>2
    <3>2. CASE i # l.ip
      <4>1. dots'[i] = dots[i]
        BY <2>4, <3>2
      <4>2. Len(dots[i]) <= 2 /\ (type[i] = "free" => dots[i] = <<>>)
        BY <2>7
      <4> QED BY <2>6, <3>2, <4>1, <4>2
    <3> QED BY <3>1, <3>2
  <2> QED BY <1>1, <2>4, <2>6, <2>8 DEF DotsOwn, l, m
<1>14. /\ m.pc \in NewPcs /\ m.pc # "c_lock" /\ (m.pc = "c_init" => l.pc = "c_lock")
       /\ (l.pc = "c_lock" => busy[l.ip] = Nobody /\ valid'[l.ip])
  BY <1>1, <1>3, <1>4, <1>5 DEF NewPcs, Ilocks
<1>15. nlink' \in [Inodes -> Nat]
  BY <1>3, <1>4
<1>16. \A i \in Inodes : ~HeadIs(m, Last, i) /\ Holds(m, file'[p], i) = Holds(l, file[p], i)
  BY <1>1, <1>5
<1> HIDE DEF l, m
<1> QED BY <1>1, <1>3, <1>5, <1>10, <1>11, <1>12, <1>13, <1>14, <1>15, <1>16, CountedGood DEF l, m

(* link() counts the link first. *)
LEMMA LinkCounts ==
  ASSUME Inv, NEW p \in Procs, Link(p), type[loc[p].ip] # "dir", UNCHANGED past
  PROVE  Good(p)
<1> DEFINE l == loc[p]
           m == loc'[p]
<1>1. /\ l.pc = "link" /\ l.rel = <<>> /\ nlink' = [nlink EXCEPT ![l.ip] = @ + 1] /\ iget(ROOTINO)
      /\ UNCHANGED <<type, entry, dots, file, busy, strays, crashes, damaged>>
  BY type[loc[p].ip] # "dir" DEF Link, At, disk, icache, past, LinkCounted
<1>2. /\ WellFormed(l, file[p]) /\ l \in Locs /\ loc \in [Procs -> Locs] /\ file[p] \in Inodes \cup {None}
      /\ \A j : Puts(l.rel, j) = 0 /\ Locks(l.rel, j) = 0
      /\ \A D, j : ~HeadIs(l, D, j)
  BY <1>1, AtFacts DEF Inv, Base, TypeInv
<1>0. loc' = [loc EXCEPT ![p].pc = "walk", ![p].cur = ROOTINO,
                         ![p].rest = loc[p].new, ![p].rel = unlock(loc[p].ip)]
  BY type[loc[p].ip] # "dir" DEF Link, At, LinkCounted
<1>3. /\ l.ip \in Inodes /\ l.dp = None /\ l.cur = None /\ l.call = "link" /\ Len(l.new) >= 1
      /\ type \in [Inodes -> {"free", "file", "dir"}] /\ nlink \in [Inodes -> Nat] /\ valid \in [Inodes -> BOOLEAN]
  <2>1. type \in [Inodes -> {"free", "file", "dir"}] /\ nlink \in [Inodes -> Nat] /\ valid \in [Inodes -> BOOLEAN]
    BY DEF Inv, Base, TypeInv
  <2>2. l.ip \in Inodes /\ l.dp = None /\ l.cur = None /\ l.call = "link" /\ Len(l.new) >= 1
    BY <1>1, <1>2 DEF WellFormed, Locs, DpLocked, NewPcs, IpPcs, IpLocked
  <2> QED BY <2>1, <2>2
<1>4. /\ m.pc = "walk" /\ m.call = l.call /\ m.rest = l.new /\ m.new = l.new
      /\ m.cur = ROOTINO /\ m.dp = l.dp /\ m.ip = l.ip /\ m.rel = unlock(l.ip)
  BY <1>0, <1>1, <1>2
<1>5. Moves(p)
  <2>1. loc' = [q \in Procs |-> IF q = p THEN loc'[p] ELSE loc[q]]
    BY <1>0, <1>2
  <2>2. m = [pc |-> m.pc, call |-> m.call, rest |-> m.rest, new |-> m.new, cur |-> m.cur,
             dp |-> m.dp, ip |-> m.ip, rel |-> m.rel]
    BY <1>0, <1>2 DEF Locs
  <2> QED BY <2>1, <2>2 DEF Moves
<1>6. /\ m.rel \in Seq(Releases) /\ Tidy(m.rel) /\ m.rel[1].ino = l.ip
      /\ \A j : ~HeadIs(m, Last, j)
      /\ \A j \in Inodes : Puts(m.rel, j) = 0 /\ Locks(m.rel, j) = One(l.ip = j)
  <2>1. /\ m.rel \in Seq(Releases) /\ Len(m.rel) = 1 /\ Tidy(m.rel) /\ m.rel # <<>>
        /\ m.rel[1] = [do |-> "unlock", ino |-> l.ip]
        /\ \A j : Puts(m.rel, j) = 0 /\ Locks(m.rel, j) = One(l.ip = j)
    BY <1>3, <1>4, RelUnlock
  <2> HIDE DEF m
  <2> QED BY <2>1 DEF HeadIs, Last
<1> HIDE DEF m
<1>7. m \in Locs /\ loc' \in [Procs -> Locs] /\ \A q \in Procs \ {p} : loc'[q] = loc[q]
  <2>1. m.pc \in PCs /\ l.call \in CallNames /\ "open" \in CallNames
    BY <1>2, <1>4 DEF PCs, CallNames, Locs
  <2>2. <<>> \in Seq(Names)
    OBVIOUS
  <2> QED BY <1>2, <1>3, <1>4, <1>5, <1>6, <2>1, <2>2, Moved, Constants DEF Inv, Locs, m
<1>8. WellFormed(m, file[p])
  <2>1. /\ m.pc \in WalkPcs /\ m.pc \notin DpLocked /\ m.pc \notin NewPcs /\ m.pc \in RelPcs
    BY <1>1, <1>4 DEF DpLocked, IpPcs, IpLocked, NewPcs, WalkPcs, RelPcs
  <2>2. Holds(m, file[p], m.rel[1].ino) >= 1
    <3>1. /\ One(m.ip = l.ip) = 1 /\ One(m.dp = l.ip) \in Nat /\ One(m.cur = l.ip) \in Nat
          /\ One(file[p] = l.ip) \in Nat /\ Puts(m.rel, l.ip) \in Nat
      BY <1>4, OneNat, CountType DEF One, Puts
    <3> QED BY <1>6, <3>1 DEF Holds
  <2>3. m.cur # None /\ m.dp = None /\ m.call = "link" /\ Len(m.rest) >= 1 /\ Len(m.new) >= 1
    BY <1>3, <1>4, Constants
  <2>4. m.ip # None /\ m.pc = "walk"
    BY <1>3, <1>4, Constants
  <2>5. Tidy(m.rel)
    BY <1>6
  <2> QED BY <2>1, <2>2, <2>3, <2>4, <2>5 DEF WellFormed
<1>9. \A j \in Inodes : Holds(m, file[p], j) = Holds(l, file[p], j) + One(ROOTINO = j)
  BY <1>1, <1>2, <1>3, <1>4, <1>6, Constants DEF Holds, One
<1>10. \A j \in Inodes : Claims(m, j) = Claims(l, j) + One(None = j)
  BY <1>1, <1>2, <1>3, <1>4, <1>6, Constants DEF Claims, One, DpLocked, IpLocked, NewPcs
<1>11. Igets(ROOTINO) /\ Ilocks(p, None)
  BY <1>1, <1>3, IgetSome, IlockNone, Constants DEF Inv, iget
<1>12. /\ Frame(p) /\ Accounts(p) /\ LocksMove(p) /\ valid' \in [Inodes -> BOOLEAN]
       /\ \A i \in Inodes : /\ ref'[i] >= ref[i]
                            /\ ref'[i] > ref[i] => i = ROOTINO \/ Named(i)
                            /\ valid[i] => valid'[i]
                            /\ busy'[i] # Nobody => busy[i] # Nobody \/ valid'[i]
  <2> HIDE DEF l
  <2> QED BY <1>1, <1>7, <1>8, <1>9, <1>10, <1>11, Constants, MovedFrame DEF l, m
<1>13. Kind(l) /\ Look(l)
  BY DEF Inv, KindInv
<1>14. Kind(m) /\ Look(m)
  <2>1. Holds(l, file[p], l.ip) >= 1
    <3>1. /\ One(l.ip = l.ip) = 1 /\ One(l.dp = l.ip) \in Nat /\ One(l.cur = l.ip) \in Nat
          /\ One(file[p] = l.ip) \in Nat /\ Puts(l.rel, l.ip) \in Nat
      BY OneNat, CountType DEF One, Puts
    <3> QED BY <3>1 DEF Holds
  <2>2. type[l.ip] = "file"
    BY <1>2, <1>3, <2>1, type[loc[p].ip] # "dir" DEF Inv, NonFree
  <2> QED BY <1>1, <1>3, <1>4, <2>2, Constants DEF Kind, Look, WalkPcs, NewPcs
<1>15. nlink' \in [Inodes -> Nat]
  BY <1>1, <1>3
<1>16. \A i \in Inodes :
         /\ nlink'[i] + One(PendIp(l, i)) + One(PendDp(l, i)) = nlink[i] + One(PendIp(m, i)) + One(PendDp(m, i))
         /\ type[i] = "dir" /\ PendIp(m, i) => PendIp(l, i) \/ nlink[i] = 0
         /\ nlink'[i] # nlink[i] \/ dots'[i] # dots[i] => busy[i] = p /\ l.pc # "c_lock"
  <2>1. busy[l.ip] = p
    <3>1. One(l.pc \in IpLocked /\ l.ip = l.ip) = 1
      BY <1>1, <1>3 DEF One, DpLocked, IpLocked, NewPcs
    <3>2. Claims(l, l.ip) >= 1
      BY <1>2, <1>3, <3>1, OneNat DEF Claims
    <3> QED BY <1>3, <3>2, Owner DEF Inv
  <2>2. ASSUME NEW i \in Inodes
        PROVE  ~PendIp(l, i) /\ ~PendDp(l, i) /\ ~PendDp(m, i) /\ (PendIp(m, i) <=> i = l.ip)
    BY <1>1, <1>3, <1>4 DEF PendIp, PendDp, NewPcs, WalkPcs
  <2>3. \A i \in Inodes : /\ One(PendIp(l, i)) = 0 /\ One(PendDp(l, i)) = 0 /\ One(PendDp(m, i)) = 0
                          /\ One(PendIp(m, i)) = One(i = l.ip)
    BY <2>2 DEF One
  <2>4. type[l.ip] # "dir"
    BY type[loc[p].ip] # "dir"
  <2> QED BY <1>1, <1>3, <2>1, <2>2, <2>3, <2>4 DEF One
<1>17. m.pc \notin NewPcs /\ l.pc # "c_lock" /\ \A i \in Inodes : ~HeadIs(m, Last, i) /\ ~HeadIs(m, {"free"}, i)
  BY <1>1, <1>4, <1>6 DEF NewPcs, HeadIs, Last
<1>18. DotsOwn(p)
  BY <1>1, <1>17 DEF DotsOwn, Inv, DotsInv, NewPcs, m
<1> HIDE DEF l
<1> QED BY <1>1, <1>12, <1>14, <1>15, <1>16, <1>17, <1>18, CountedGood DEF l, m

(* unlink() of a directory takes the link of its "..", *)
LEMMA UnlinkParentGood ==
  ASSUME Inv, NEW p \in Procs, UnlinkParent(p), UNCHANGED past
  PROVE  Good(p)
<1> DEFINE l == loc[p]
           m == loc'[p]
<1>1. /\ l.pc = "u_parent" /\ l.rel = <<>> /\ nlink' = (IF type[l.ip] = "dir" THEN [nlink EXCEPT ![l.dp] = @ - 1] ELSE nlink) /\ UNCHANGED <<ref, valid>>
      /\ UNCHANGED <<type, entry, dots, file, busy, strays, crashes, damaged>>
  BY DEF UnlinkParent, At, disk, icache, past
<1>2. /\ WellFormed(l, file[p]) /\ l \in Locs /\ loc \in [Procs -> Locs] /\ file[p] \in Inodes \cup {None}
      /\ \A j : Puts(l.rel, j) = 0 /\ Locks(l.rel, j) = 0
      /\ \A D, j : ~HeadIs(l, D, j)
  BY <1>1, AtFacts DEF Inv, Base, TypeInv
<1>0. loc' = [loc EXCEPT ![p].pc = "u_child", ![p].dp = None, ![p].rel = unlockput(loc[p].dp)]
  BY DEF UnlinkParent, At
<1>3. /\ l.ip \in Inodes /\ l.dp \in Inodes /\ l.cur = None
      /\ type \in [Inodes -> {"free", "file", "dir"}] /\ nlink \in [Inodes -> Nat] /\ valid \in [Inodes -> BOOLEAN]
  <2>1. type \in [Inodes -> {"free", "file", "dir"}] /\ nlink \in [Inodes -> Nat] /\ valid \in [Inodes -> BOOLEAN]
    BY DEF Inv, Base, TypeInv
  <2>2. l.ip \in Inodes /\ l.dp \in Inodes /\ l.cur = None
    BY <1>1, <1>2 DEF WellFormed, Locs, DpLocked, NewPcs, IpPcs, IpLocked
  <2> QED BY <2>1, <2>2
<1>4. /\ m.pc = "u_child" /\ m.call = l.call /\ m.rest = l.rest /\ m.new = l.new
      /\ m.cur = l.cur /\ m.dp = None /\ m.ip = l.ip /\ m.rel = unlockput(l.dp)
  BY <1>0, <1>1, <1>2
<1>5. Moves(p)
  <2>1. loc' = [q \in Procs |-> IF q = p THEN loc'[p] ELSE loc[q]]
    BY <1>0, <1>2
  <2>2. m = [pc |-> m.pc, call |-> m.call, rest |-> m.rest, new |-> m.new, cur |-> m.cur,
             dp |-> m.dp, ip |-> m.ip, rel |-> m.rel]
    BY <1>0, <1>2 DEF Locs
  <2> QED BY <2>1, <2>2 DEF Moves
<1>6. /\ m.rel \in Seq(Releases) /\ Tidy(m.rel) /\ Len(m.rel) # 1
      /\ \A j : ~HeadIs(m, Last, j)
      /\ \A j \in Inodes : Puts(m.rel, j) = One(l.dp = j) /\ Locks(m.rel, j) = One(l.dp = j)
  <2>1. /\ unlockput(l.dp) \in Seq(Releases) /\ Len(unlockput(l.dp)) = 2 /\ Tidy(unlockput(l.dp))
        /\ unlockput(l.dp) # <<>> /\ unlockput(l.dp)[1] = [do |-> "unlock", ino |-> l.dp]
        /\ \A j : Puts(unlockput(l.dp), j) = One(l.dp = j) /\ Locks(unlockput(l.dp), j) = One(l.dp = j)
    BY <1>3, RelUnlockput
  <2>2. m.rel = unlockput(l.dp)
    BY <1>4
  <2> HIDE DEF m
  <2>3. m.rel \in Seq(Releases) /\ Tidy(m.rel) /\ Len(m.rel) = 2
    BY <2>1, <2>2, Zenon
  <2>4. \A j : ~HeadIs(m, Last, j)
    BY <2>1, <2>2 DEF HeadIs, Last
  <2>5. 2 # 1
    OBVIOUS
  <2> QED BY <2>1, <2>2, <2>3, <2>4, <2>5, Zenon
<1> HIDE DEF m
<1>7. m \in Locs /\ loc' \in [Procs -> Locs] /\ \A q \in Procs \ {p} : loc'[q] = loc[q]
  <2>1. m.pc \in PCs /\ l.call \in CallNames /\ "open" \in CallNames
    BY <1>2, <1>4 DEF PCs, CallNames, Locs
  <2>2. <<>> \in Seq(Names)
    OBVIOUS
  <2> QED BY <1>2, <1>3, <1>4, <1>5, <1>6, <2>1, <2>2, Moved, Constants DEF Inv, Locs, m
<1>8. WellFormed(m, file[p])
  <2>1. /\ m.pc \notin WalkPcs /\ m.pc \notin DpLocked /\ m.pc \notin NewPcs /\ m.pc \in RelPcs /\ m.pc \in IpPcs
    BY <1>1, <1>4 DEF DpLocked, IpPcs, IpLocked, NewPcs, WalkPcs, RelPcs
  <2>2. m.pc = "u_child" /\ m.cur = None /\ m.dp = None /\ m.ip # None /\ (m.call = "link" => Len(m.new) >= 1)
    BY <1>2, <1>3, <1>4, Constants DEF WellFormed
  <2> QED BY <1>6, <2>1, <2>2 DEF WellFormed
<1>9. \A j \in Inodes : Holds(m, file[p], j) = Holds(l, file[p], j) + One(None = j)
  BY <1>1, <1>2, <1>3, <1>4, <1>6, Constants DEF Holds, One
<1>10. \A j \in Inodes : Claims(m, j) = Claims(l, j) + One(None = j)
  BY <1>1, <1>2, <1>3, <1>4, <1>6, Constants DEF Claims, One, DpLocked, IpLocked, NewPcs
<1>11. Igets(None) /\ Ilocks(p, None)
  BY <1>1, <1>3, IgetNone, IlockNone, Constants DEF Inv, iget
<1>12. /\ Frame(p) /\ Accounts(p) /\ LocksMove(p) /\ valid' \in [Inodes -> BOOLEAN]
       /\ \A i \in Inodes : /\ ref'[i] >= ref[i]
                            /\ ref'[i] > ref[i] => i = ROOTINO \/ Named(i)
                            /\ valid[i] => valid'[i]
                            /\ busy'[i] # Nobody => busy[i] # Nobody \/ valid'[i]
  <2> HIDE DEF l
  <2> QED BY <1>1, <1>7, <1>8, <1>9, <1>10, <1>11, Constants, MovedFrame DEF l, m
<1>13. Kind(l) /\ Look(l)
  BY DEF Inv, KindInv
<1>14. Kind(m) /\ Look(m)
  BY <1>1, <1>3, <1>4, <1>13, Constants DEF Kind, Look, WalkPcs, NewPcs
<1>15. nlink' \in [Inodes -> Nat]
  <2>1. CASE type[l.ip] = "dir"
    <3>1. PendDp(l, l.dp)
      BY <1>1, <2>1 DEF PendDp
    <3>2. nlink[l.dp] >= 1
      BY <1>3, <3>1, CountFacts
    <3> QED BY <1>1, <1>3, <2>1, <3>2
  <2>2. CASE type[l.ip] # "dir"
    BY <1>1, <1>3, <2>2
  <2> QED BY <2>1, <2>2
<1>16. \A i \in Inodes :
         /\ nlink'[i] + One(PendIp(l, i)) + One(PendDp(l, i)) = nlink[i] + One(PendIp(m, i)) + One(PendDp(m, i))
         /\ type[i] = "dir" /\ PendIp(m, i) => PendIp(l, i) \/ nlink[i] = 0
         /\ nlink'[i] # nlink[i] \/ dots'[i] # dots[i] => busy[i] = p /\ l.pc # "c_lock"
  <2>1. busy[l.dp] = p
    <3>1. One(l.pc \in DpLocked /\ l.dp = l.dp) = 1
      BY <1>1, <1>3 DEF One, DpLocked, IpLocked, NewPcs
    <3>2. Claims(l, l.dp) >= 1
      BY <1>2, <1>3, <3>1, OneNat DEF Claims
    <3> QED BY <1>3, <3>2, Owner DEF Inv
  <2>2. ASSUME NEW i \in Inodes
        PROVE  /\ (PendIp(l, i) <=> PendIp(m, i)) /\ ~PendDp(m, i)
               /\ PendDp(l, i) <=> type[l.ip] = "dir" /\ i = l.dp
    BY <1>1, <1>3, <1>4, Constants DEF PendIp, PendDp, NewPcs, WalkPcs
  <2>3. \A i \in Inodes : /\ One(PendIp(l, i)) = One(PendIp(m, i)) /\ One(PendDp(m, i)) = 0
                          /\ One(PendDp(l, i)) = One(type[l.ip] = "dir" /\ i = l.dp) /\ One(PendIp(m, i)) \in Nat
    BY <2>2, OneNat DEF One
  <2> QED BY <1>1, <1>3, <2>1, <2>2, <2>3 DEF One
<1>17. m.pc \notin NewPcs /\ l.pc # "c_lock" /\ \A i \in Inodes : ~HeadIs(m, Last, i) /\ ~HeadIs(m, {"free"}, i)
  BY <1>1, <1>4, <1>6 DEF NewPcs, HeadIs, Last
<1>18. DotsOwn(p)
  BY <1>1, <1>17 DEF DotsOwn, Inv, DotsInv, NewPcs, m
<1> HIDE DEF l
<1> QED BY <1>1, <1>12, <1>14, <1>15, <1>16, <1>17, <1>18, CountedGood DEF l, m

(* and then the link of what it removed. *)
LEMMA UnlinkChildGood ==
  ASSUME Inv, NEW p \in Procs, UnlinkChild(p), UNCHANGED past
  PROVE  Good(p)
<1> DEFINE l == loc[p]
           m == loc'[p]
<1>1. /\ l.pc = "u_child" /\ l.rel = <<>> /\ nlink' = [nlink EXCEPT ![l.ip] = @ - 1] /\ UNCHANGED <<ref, valid>>
      /\ UNCHANGED <<type, entry, dots, file, busy, strays, crashes, damaged>>
  BY DEF UnlinkChild, At, disk, icache, past
<1>2. /\ WellFormed(l, file[p]) /\ l \in Locs /\ loc \in [Procs -> Locs] /\ file[p] \in Inodes \cup {None}
      /\ \A j : Puts(l.rel, j) = 0 /\ Locks(l.rel, j) = 0
      /\ \A D, j : ~HeadIs(l, D, j)
  BY <1>1, AtFacts DEF Inv, Base, TypeInv
<1>0. loc' = [loc EXCEPT ![p] = [Idle EXCEPT !.rel = unlockput(loc[p].ip)]]
  BY DEF UnlinkChild, At, Return
<1>3. /\ l.ip \in Inodes /\ l.dp = None /\ l.cur = None
      /\ type \in [Inodes -> {"free", "file", "dir"}] /\ nlink \in [Inodes -> Nat] /\ valid \in [Inodes -> BOOLEAN]
  <2>1. type \in [Inodes -> {"free", "file", "dir"}] /\ nlink \in [Inodes -> Nat] /\ valid \in [Inodes -> BOOLEAN]
    BY DEF Inv, Base, TypeInv
  <2>2. l.ip \in Inodes /\ l.dp = None /\ l.cur = None
    BY <1>1, <1>2 DEF WellFormed, Locs, DpLocked, NewPcs, IpPcs, IpLocked
  <2> QED BY <2>1, <2>2
<1>4. /\ m.pc = "idle" /\ m.call = "open" /\ m.rest = <<>> /\ m.new = <<>>
      /\ m.cur = None /\ m.dp = None /\ m.ip = None /\ m.rel = unlockput(l.ip)
  BY <1>0, <1>1, <1>2 DEF Idle
<1>5. Moves(p)
  <2>1. loc' = [q \in Procs |-> IF q = p THEN loc'[p] ELSE loc[q]]
    BY <1>0, <1>2
  <2>2. m = [pc |-> m.pc, call |-> m.call, rest |-> m.rest, new |-> m.new, cur |-> m.cur,
             dp |-> m.dp, ip |-> m.ip, rel |-> m.rel]
    BY <1>0, <1>2 DEF Locs, Idle
  <2> QED BY <2>1, <2>2 DEF Moves
<1>6. /\ m.rel \in Seq(Releases) /\ Tidy(m.rel) /\ Len(m.rel) # 1
      /\ \A j : ~HeadIs(m, Last, j)
      /\ \A j \in Inodes : Puts(m.rel, j) = One(l.ip = j) /\ Locks(m.rel, j) = One(l.ip = j)
  <2>1. /\ unlockput(l.ip) \in Seq(Releases) /\ Len(unlockput(l.ip)) = 2 /\ Tidy(unlockput(l.ip))
        /\ unlockput(l.ip) # <<>> /\ unlockput(l.ip)[1] = [do |-> "unlock", ino |-> l.ip]
        /\ \A j : Puts(unlockput(l.ip), j) = One(l.ip = j) /\ Locks(unlockput(l.ip), j) = One(l.ip = j)
    BY <1>3, RelUnlockput
  <2>2. m.rel = unlockput(l.ip)
    BY <1>4
  <2> HIDE DEF m
  <2>3. m.rel \in Seq(Releases) /\ Tidy(m.rel) /\ Len(m.rel) = 2
    BY <2>1, <2>2, Zenon
  <2>4. \A j : ~HeadIs(m, Last, j)
    BY <2>1, <2>2 DEF HeadIs, Last
  <2>5. 2 # 1
    OBVIOUS
  <2> QED BY <2>1, <2>2, <2>3, <2>4, <2>5, Zenon
<1> HIDE DEF m
<1>7. m \in Locs /\ loc' \in [Procs -> Locs] /\ \A q \in Procs \ {p} : loc'[q] = loc[q]
  <2>1. m.pc \in PCs /\ l.call \in CallNames /\ "open" \in CallNames
    BY <1>2, <1>4 DEF PCs, CallNames, Locs
  <2>2. <<>> \in Seq(Names)
    OBVIOUS
  <2> QED BY <1>2, <1>3, <1>4, <1>5, <1>6, <2>1, <2>2, Moved, Constants DEF Inv, Locs, m
<1>8. WellFormed(m, file[p])
  <2>1. /\ m.pc \notin WalkPcs /\ m.pc \notin DpLocked /\ m.pc \notin NewPcs /\ m.pc \in RelPcs /\ m.pc \notin IpPcs
    BY <1>1, <1>4 DEF DpLocked, IpPcs, IpLocked, NewPcs, WalkPcs, RelPcs
  <2> QED BY <1>4, <1>6, <2>1 DEF WellFormed
<1>9. \A j \in Inodes : Holds(m, file[p], j) = Holds(l, file[p], j) + One(None = j)
  BY <1>1, <1>2, <1>3, <1>4, <1>6, Constants DEF Holds, One
<1>10. \A j \in Inodes : Claims(m, j) = Claims(l, j) + One(None = j)
  BY <1>1, <1>2, <1>3, <1>4, <1>6, Constants DEF Claims, One, DpLocked, IpLocked, NewPcs
<1>11. Igets(None) /\ Ilocks(p, None)
  BY <1>1, <1>3, IgetNone, IlockNone, Constants DEF Inv, iget
<1>12. /\ Frame(p) /\ Accounts(p) /\ LocksMove(p) /\ valid' \in [Inodes -> BOOLEAN]
       /\ \A i \in Inodes : /\ ref'[i] >= ref[i]
                            /\ ref'[i] > ref[i] => i = ROOTINO \/ Named(i)
                            /\ valid[i] => valid'[i]
                            /\ busy'[i] # Nobody => busy[i] # Nobody \/ valid'[i]
  <2> HIDE DEF l
  <2> QED BY <1>1, <1>7, <1>8, <1>9, <1>10, <1>11, Constants, MovedFrame DEF l, m
<1>13. Kind(l) /\ Look(l)
  BY DEF Inv, KindInv
<1>14. Kind(m) /\ Look(m)
  BY <1>1, <1>3, <1>4, Constants DEF Kind, Look, WalkPcs, NewPcs
<1>15. nlink' \in [Inodes -> Nat]
  <2>1. PendIp(l, l.ip)
    BY <1>1 DEF PendIp
  <2>2. nlink[l.ip] >= 1
    BY <1>3, <2>1, CountFacts
  <2> QED BY <1>1, <1>3, <2>2
<1>16. \A i \in Inodes :
         /\ nlink'[i] + One(PendIp(l, i)) + One(PendDp(l, i)) = nlink[i] + One(PendIp(m, i)) + One(PendDp(m, i))
         /\ type[i] = "dir" /\ PendIp(m, i) => PendIp(l, i) \/ nlink[i] = 0
         /\ nlink'[i] # nlink[i] \/ dots'[i] # dots[i] => busy[i] = p /\ l.pc # "c_lock"
  <2>1. busy[l.ip] = p
    <3>1. One(l.pc \in IpLocked /\ l.ip = l.ip) = 1
      BY <1>1, <1>3 DEF One, DpLocked, IpLocked, NewPcs
    <3>2. Claims(l, l.ip) >= 1
      BY <1>2, <1>3, <3>1, OneNat DEF Claims
    <3> QED BY <1>3, <3>2, Owner DEF Inv
  <2>2. ASSUME NEW i \in Inodes
        PROVE  /\ ~PendIp(m, i) /\ ~PendDp(m, i) /\ ~PendDp(l, i)
               /\ PendIp(l, i) <=> i = l.ip
    BY <1>1, <1>3, <1>4, Constants DEF PendIp, PendDp, NewPcs, WalkPcs
  <2>3. \A i \in Inodes : /\ One(PendIp(m, i)) = 0 /\ One(PendDp(m, i)) = 0 /\ One(PendDp(l, i)) = 0
                          /\ One(PendIp(l, i)) = One(i = l.ip)
    BY <2>2, OneNat DEF One
  <2> QED BY <1>1, <1>3, <2>1, <2>2, <2>3 DEF One
<1>17. m.pc \notin NewPcs /\ l.pc # "c_lock" /\ \A i \in Inodes : ~HeadIs(m, Last, i) /\ ~HeadIs(m, {"free"}, i)
  BY <1>1, <1>4, <1>6 DEF NewPcs, HeadIs, Last
<1>18. DotsOwn(p)
  BY <1>1, <1>17 DEF DotsOwn, Inv, DotsInv, NewPcs, m
<1> HIDE DEF l
<1> QED BY <1>1, <1>12, <1>14, <1>15, <1>16, <1>17, <1>18, CountedGood DEF l, m

(* link() takes back the link it counted. *)
LEMMA BadGood ==
  ASSUME Inv, NEW p \in Procs, Bad(p), UNCHANGED past
  PROVE  Good(p)
<1> DEFINE l == loc[p]
           m == loc'[p]
<1>1. /\ l.pc = "bad_locked" /\ l.rel = <<>> /\ nlink' = [nlink EXCEPT ![l.ip] = @ - 1] /\ UNCHANGED <<ref, valid>>
      /\ UNCHANGED <<type, entry, dots, file, busy, strays, crashes, damaged>>
  BY DEF Bad, At, disk, icache, past, BackOut
<1>2. /\ WellFormed(l, file[p]) /\ l \in Locs /\ loc \in [Procs -> Locs] /\ file[p] \in Inodes \cup {None}
      /\ \A j : Puts(l.rel, j) = 0 /\ Locks(l.rel, j) = 0
      /\ \A D, j : ~HeadIs(l, D, j)
  BY <1>1, AtFacts DEF Inv, Base, TypeInv
<1>0. loc' = [loc EXCEPT ![p] = [Idle EXCEPT !.rel = unlockput(loc[p].ip)]]
  BY DEF Bad, At, Return, BackOut
<1>3. /\ l.ip \in Inodes /\ l.dp = None /\ l.cur = None
      /\ type \in [Inodes -> {"free", "file", "dir"}] /\ nlink \in [Inodes -> Nat] /\ valid \in [Inodes -> BOOLEAN]
  <2>1. type \in [Inodes -> {"free", "file", "dir"}] /\ nlink \in [Inodes -> Nat] /\ valid \in [Inodes -> BOOLEAN]
    BY DEF Inv, Base, TypeInv
  <2>2. l.ip \in Inodes /\ l.dp = None /\ l.cur = None
    BY <1>1, <1>2 DEF WellFormed, Locs, DpLocked, NewPcs, IpPcs, IpLocked
  <2> QED BY <2>1, <2>2
<1>4. /\ m.pc = "idle" /\ m.call = "open" /\ m.rest = <<>> /\ m.new = <<>>
      /\ m.cur = None /\ m.dp = None /\ m.ip = None /\ m.rel = unlockput(l.ip)
  BY <1>0, <1>1, <1>2 DEF Idle
<1>5. Moves(p)
  <2>1. loc' = [q \in Procs |-> IF q = p THEN loc'[p] ELSE loc[q]]
    BY <1>0, <1>2
  <2>2. m = [pc |-> m.pc, call |-> m.call, rest |-> m.rest, new |-> m.new, cur |-> m.cur,
             dp |-> m.dp, ip |-> m.ip, rel |-> m.rel]
    BY <1>0, <1>2 DEF Locs, Idle
  <2> QED BY <2>1, <2>2 DEF Moves
<1>6. /\ m.rel \in Seq(Releases) /\ Tidy(m.rel) /\ Len(m.rel) # 1
      /\ \A j : ~HeadIs(m, Last, j)
      /\ \A j \in Inodes : Puts(m.rel, j) = One(l.ip = j) /\ Locks(m.rel, j) = One(l.ip = j)
  <2>1. /\ unlockput(l.ip) \in Seq(Releases) /\ Len(unlockput(l.ip)) = 2 /\ Tidy(unlockput(l.ip))
        /\ unlockput(l.ip) # <<>> /\ unlockput(l.ip)[1] = [do |-> "unlock", ino |-> l.ip]
        /\ \A j : Puts(unlockput(l.ip), j) = One(l.ip = j) /\ Locks(unlockput(l.ip), j) = One(l.ip = j)
    BY <1>3, RelUnlockput
  <2>2. m.rel = unlockput(l.ip)
    BY <1>4
  <2> HIDE DEF m
  <2>3. m.rel \in Seq(Releases) /\ Tidy(m.rel) /\ Len(m.rel) = 2
    BY <2>1, <2>2, Zenon
  <2>4. \A j : ~HeadIs(m, Last, j)
    BY <2>1, <2>2 DEF HeadIs, Last
  <2>5. 2 # 1
    OBVIOUS
  <2> QED BY <2>1, <2>2, <2>3, <2>4, <2>5, Zenon
<1> HIDE DEF m
<1>7. m \in Locs /\ loc' \in [Procs -> Locs] /\ \A q \in Procs \ {p} : loc'[q] = loc[q]
  <2>1. m.pc \in PCs /\ l.call \in CallNames /\ "open" \in CallNames
    BY <1>2, <1>4 DEF PCs, CallNames, Locs
  <2>2. <<>> \in Seq(Names)
    OBVIOUS
  <2> QED BY <1>2, <1>3, <1>4, <1>5, <1>6, <2>1, <2>2, Moved, Constants DEF Inv, Locs, m
<1>8. WellFormed(m, file[p])
  <2>1. /\ m.pc \notin WalkPcs /\ m.pc \notin DpLocked /\ m.pc \notin NewPcs /\ m.pc \in RelPcs /\ m.pc \notin IpPcs
    BY <1>1, <1>4 DEF DpLocked, IpPcs, IpLocked, NewPcs, WalkPcs, RelPcs
  <2> QED BY <1>4, <1>6, <2>1 DEF WellFormed
<1>9. \A j \in Inodes : Holds(m, file[p], j) = Holds(l, file[p], j) + One(None = j)
  BY <1>1, <1>2, <1>3, <1>4, <1>6, Constants DEF Holds, One
<1>10. \A j \in Inodes : Claims(m, j) = Claims(l, j) + One(None = j)
  BY <1>1, <1>2, <1>3, <1>4, <1>6, Constants DEF Claims, One, DpLocked, IpLocked, NewPcs
<1>11. Igets(None) /\ Ilocks(p, None)
  BY <1>1, <1>3, IgetNone, IlockNone, Constants DEF Inv, iget
<1>12. /\ Frame(p) /\ Accounts(p) /\ LocksMove(p) /\ valid' \in [Inodes -> BOOLEAN]
       /\ \A i \in Inodes : /\ ref'[i] >= ref[i]
                            /\ ref'[i] > ref[i] => i = ROOTINO \/ Named(i)
                            /\ valid[i] => valid'[i]
                            /\ busy'[i] # Nobody => busy[i] # Nobody \/ valid'[i]
  <2> HIDE DEF l
  <2> QED BY <1>1, <1>7, <1>8, <1>9, <1>10, <1>11, Constants, MovedFrame DEF l, m
<1>13. Kind(l) /\ Look(l)
  BY DEF Inv, KindInv
<1>14. Kind(m) /\ Look(m)
  BY <1>1, <1>3, <1>4, Constants DEF Kind, Look, WalkPcs, NewPcs
<1>15. nlink' \in [Inodes -> Nat]
  <2>1. PendIp(l, l.ip)
    BY <1>1 DEF PendIp
  <2>2. nlink[l.ip] >= 1
    BY <1>3, <2>1, CountFacts
  <2> QED BY <1>1, <1>3, <2>2
<1>16. \A i \in Inodes :
         /\ nlink'[i] + One(PendIp(l, i)) + One(PendDp(l, i)) = nlink[i] + One(PendIp(m, i)) + One(PendDp(m, i))
         /\ type[i] = "dir" /\ PendIp(m, i) => PendIp(l, i) \/ nlink[i] = 0
         /\ nlink'[i] # nlink[i] \/ dots'[i] # dots[i] => busy[i] = p /\ l.pc # "c_lock"
  <2>1. busy[l.ip] = p
    <3>1. One(l.pc \in IpLocked /\ l.ip = l.ip) = 1
      BY <1>1, <1>3 DEF One, DpLocked, IpLocked, NewPcs
    <3>2. Claims(l, l.ip) >= 1
      BY <1>2, <1>3, <3>1, OneNat DEF Claims
    <3> QED BY <1>3, <3>2, Owner DEF Inv
  <2>2. ASSUME NEW i \in Inodes
        PROVE  /\ ~PendIp(m, i) /\ ~PendDp(m, i) /\ ~PendDp(l, i)
               /\ PendIp(l, i) <=> i = l.ip
    BY <1>1, <1>3, <1>4, Constants DEF PendIp, PendDp, NewPcs, WalkPcs
  <2>3. \A i \in Inodes : /\ One(PendIp(m, i)) = 0 /\ One(PendDp(m, i)) = 0 /\ One(PendDp(l, i)) = 0
                          /\ One(PendIp(l, i)) = One(i = l.ip)
    BY <2>2, OneNat DEF One
  <2> QED BY <1>1, <1>3, <2>1, <2>2, <2>3 DEF One
<1>17. m.pc \notin NewPcs /\ l.pc # "c_lock" /\ \A i \in Inodes : ~HeadIs(m, Last, i) /\ ~HeadIs(m, {"free"}, i)
  BY <1>1, <1>4, <1>6 DEF NewPcs, HeadIs, Last
<1>18. DotsOwn(p)
  BY <1>1, <1>17 DEF DotsOwn, Inv, DotsInv, NewPcs, m
<1> HIDE DEF l
<1> QED BY <1>1, <1>12, <1>14, <1>15, <1>16, <1>17, <1>18, CountedGood DEF l, m

-----------------------------------------------------------------------------
(* What one entry of a directory stands for changes from y to x. *)
Sub(y) == y # None /\ type[y] = "dir"

(* (Sums, for the steps that count.) *)
LEMMA EntryArith ==
  \A e, e2, s, s2, a, a2, b, b2 \in Nat : \A o1, o2, o3, o4 \in Nat :
    e2 + o1 = e + o2 /\ s2 + o3 = s + o4 /\ o2 + a2 = o1 + a /\ o4 + b2 = o3 + b
      => e + s + a + b = e2 + s2 + a2 + b2
  OBVIOUS

(* p writes x into the entry n of the directory d it has locked. *)
Written(p, d, n, x) ==
  /\ loc[p].rel = <<>> /\ Frame(p) /\ Accounts(p) /\ LocksMove(p)
  /\ d \in Inodes /\ n \in Names /\ x \in Inodes \cup {None}
  /\ entry' = [entry EXCEPT ![d][n] = x] /\ busy[d] = p /\ type[d] = "dir"
  /\ UNCHANGED <<type, nlink, dots, ref, busy, valid, crashes, damaged>>
  /\ x # None => type[x] # "free" /\ x # ROOTINO /\ Holds(loc[p], file[p], x) >= 1
  /\ strays \subseteq strays' /\ strays' \subseteq Inodes /\ StraysInv'
  /\ \A i \in Inodes :
       /\ One(x = i) + One(PendIp(loc'[p], i)) = One(entry[d][n] = i) + One(PendIp(loc[p], i))
       /\ One(i = d /\ Sub(x)) + One(PendDp(loc'[p], i))
            = One(i = d /\ Sub(entry[d][n])) + One(PendDp(loc[p], i))
       /\ ~HeadIs(loc'[p], Last, i)
  /\ (Kind(loc[p]) /\ Look(loc[p]))'
  /\ loc[p].pc # "c_lock" /\ loc'[p].pc \notin NewPcs

(* ... and what that changes. *)
EntryMoves(E, d, n, x) ==
  /\ E \in [Inodes -> [Names -> Inodes \cup {None}]] /\ E[d][n] = x
  /\ \A e \in Inodes, k \in Names : e # d \/ k # n => E[e][k] = entry[e][k]
  /\ \A e \in Inodes \ {d} : E[e] = entry[e]
  /\ \A i : Cardinality(Entries(E, i)) + One(entry[d][n] = i) = Cardinality(Entries(entry, i)) + One(x = i)
  /\ Cardinality(Subs(E[d], type)) + One(Sub(entry[d][n])) = Cardinality(Subs(entry[d], type)) + One(Sub(x))

(* Writing an entry, all in one. *)
LEMMA EntryMoved ==
  ASSUME Inv, NEW d \in Inodes, NEW n \in Names, NEW x \in Inodes \cup {None}, NEW E,
         E = [entry EXCEPT ![d][n] = x]
  PROVE  EntryMoves(E, d, n, x)
<1>1. entry \in [Inodes -> [Names -> Inodes \cup {None}]]
  BY DEF Inv, Base, TypeInv
<1>2. /\ E \in [Inodes -> [Names -> Inodes \cup {None}]] /\ E[d] = [entry[d] EXCEPT ![n] = x] /\ E[d][n] = x
      /\ \A e \in Inodes, k \in Names : e # d \/ k # n => E[e][k] = entry[e][k]
      /\ \A e \in Inodes \ {d} : E[e] = entry[e]
  BY <1>1
<1>3. ASSUME NEW i
      PROVE  Cardinality(Entries(E, i)) + One(entry[d][n] = i) = Cardinality(Entries(entry, i)) + One(x = i)
  <2>1. EntryCounted(E, entry, d, n, x, i)
    BY <1>1, <1>2, EntryWritten
  <2> QED BY <2>1 DEF EntryCounted
<1>4. entry[d] \in [Names -> Inodes \cup {None}]
  BY <1>1
<1>5. Cardinality(Subs([entry[d] EXCEPT ![n] = x], type)) + One(entry[d][n] # None /\ type[entry[d][n]] = "dir")
        = Cardinality(Subs(entry[d], type)) + One(x # None /\ type[x] = "dir")
  BY <1>4, SubWritten
<1> QED BY <1>2, <1>3, <1>5 DEF Sub, EntryMoves

(* A step that writes one entry of a locked directory. *)
LEMMA EntryGood ==
  ASSUME Inv, NEW p \in Procs, NEW d, NEW n, NEW x, Written(p, d, n, x)
  PROVE  Good(p)
<1> DEFINE y == entry[d][n]
<1>1. /\ d \in Inodes /\ n \in Names /\ x \in Inodes \cup {None} /\ EntryMoves(entry', d, n, x)
      /\ entry' \in [Inodes -> [Names -> Inodes \cup {None}]]
  <2>1. /\ d \in Inodes /\ n \in Names /\ x \in Inodes \cup {None} /\ entry' = [entry EXCEPT ![d][n] = x]
    BY DEF Written
  <2>2. EntryMoves(entry', d, n, x)
    BY <2>1, EntryMoved
  <2> QED BY <2>1, <2>2 DEF EntryMoves
<1>2. TypeInv'
  BY <1>1 DEF Written, Inv, Base, TypeInv, Accounts, LocksMove, Frame
<1>3. \A i, D : ~HeadIs(loc[p], D, i)
  BY DEF HeadIs, Written
<1>4. /\ entry'[d][n] = x
      /\ \A e \in Inodes, k \in Names : e # d \/ k # n => entry'[e][k] = entry[e][k]
      /\ \A e \in Inodes \ {d} : entry'[e] = entry[e]
      /\ \A i : Cardinality(Entries(entry', i)) + One(y = i) = Cardinality(Entries(entry, i)) + One(x = i)
      /\ Cardinality(Subs(entry'[d], type)) + One(Sub(y)) = Cardinality(Subs(entry[d], type)) + One(Sub(x))
  BY <1>1 DEF EntryMoves
<1>5. NamesInv'
  BY <1>1, <1>4 DEF Inv, NamesInv, Written
<1>6. Types(p)
  BY DEF Types, Written
<1>7. ASSUME NEW i \in Inodes
      PROVE  /\ Cardinality(Entries(entry', i)) + One(y = i) = Cardinality(Entries(entry, i)) + One(x = i)
             /\ Cardinality(Subs(entry'[i], type')) + One(i = d /\ Sub(y))
                  = Cardinality(Subs(entry[i], type)) + One(i = d /\ Sub(x))
  <2>1. type' = type
    BY DEF Written
  <2>2. CASE i = d
    <3>1. One(i = d /\ Sub(y)) = One(Sub(y)) /\ One(i = d /\ Sub(x)) = One(Sub(x))
      BY <2>2 DEF One
    <3> QED BY <1>4, <2>1, <2>2, <3>1
  <2>3. CASE i # d
    <3>1. One(i = d /\ Sub(y)) = 0 /\ One(i = d /\ Sub(x)) = 0 /\ entry'[i] = entry[i]
      BY <1>4, <2>3 DEF One
    <3> QED BY <1>4, <2>1, <3>1
  <2> QED BY <2>2, <2>3
<1> HIDE DEF y
<1>8. ASSUME NEW i \in Inodes PROVE Had(p, i) = HasNow(p, i) /\ Had(p, i) \in Nat
  <2>1. PICK e, e2, s, s2, a, a2, b, b2, o1, o2, o3, o4 \in Nat :
          /\ e = Cardinality(Entries(entry, i)) /\ e2 = Cardinality(Entries(entry', i))
          /\ s = Cardinality(Subs(entry[i], type)) /\ s2 = Cardinality(Subs(entry'[i], type'))
          /\ a = One(PendIp(loc[p], i)) /\ a2 = One(PendIp(loc'[p], i))
          /\ b = One(PendDp(loc[p], i)) /\ b2 = One(PendDp(loc'[p], i))
          /\ o1 = One(y = i) /\ o2 = One(x = i)
          /\ o3 = One(i = d /\ Sub(y)) /\ o4 = One(i = d /\ Sub(x))
    BY EntriesType, SubsType, OneNat
  <2>2. e2 + o1 = e + o2 /\ s2 + o3 = s + o4 /\ o2 + a2 = o1 + a /\ o4 + b2 = o3 + b
    BY <1>7, <2>1 DEF y, Written
  <2>3. One(PendDp(loc[p], i)') = b2
    BY <2>1 DEF PendDp, Written
  <2>4. Had(p, i) = e + s + a + b /\ HasNow(p, i) = e2 + s2 + a2 + b2
    BY <2>1, <2>3 DEF Had, HasNow
  <2>5. e + s + a + b = e2 + s2 + a2 + b2
    BY <2>2, EntryArith
  <2> QED BY <2>4, <2>5
<1>9. CountInv'
  <2>1. ASSUME NEW i \in Inodes
        PROVE  /\ nlink'[i] + Had(p, i) >= nlink[i] + HasNow(p, i)
               /\ i \notin strays' => nlink'[i] + Had(p, i) = nlink[i] + HasNow(p, i)
    <3>1. nlink[i] \in Nat
      BY DEF Inv, Base, TypeInv
    <3> QED BY <1>8, <3>1 DEF Written
  <2> QED BY <1>2, <1>5, <1>6, <2>1, CountStep DEF Written
<1>10. DirOnce'
  <2> SUFFICES ASSUME NEW i \in Inodes, type[i] = "dir"
               PROVE  Cardinality(Links(i)') + Pending(i)' <= 1
    BY DEF DirOnce, Written
  <2>1. Links(i) = Entries(entry, i) /\ Links(i)' = Entries(entry', i)
    <3>1. TypeInv' /\ NamesInv' => LinksAre'
      BY LinksEntries, PTL
    <3> QED BY <1>2, <1>5, <3>1, LinksEntries DEF Inv, Base, LinksAre
  <2>2. /\ Pending(i) \in Nat /\ Pending(i)' \in Nat
        /\ Pending(i)' + One(PendIp(loc[p], i)) = Pending(i) + One(PendIp(loc'[p], i))
    BY <1>6, PendStep DEF Written
  <2>3. Cardinality(Links(i)) + Pending(i) <= 1
    BY DEF Inv, DirOnce
  <2>4. PICK e, e2, a, a2, o1, o2 \in Nat :
          /\ e = Cardinality(Entries(entry, i)) /\ e2 = Cardinality(Entries(entry', i))
          /\ a = One(PendIp(loc[p], i)) /\ a2 = One(PendIp(loc'[p], i))
          /\ o1 = One(y = i) /\ o2 = One(x = i)
    BY EntriesType, OneNat
  <2>5. e2 + o1 = e + o2 /\ o2 + a2 = o1 + a
    BY <1>7, <2>4 DEF y, Written
  <2> QED BY <2>1, <2>2, <2>3, <2>4, <2>5
<1>11. Doomed'
  <2> SUFFICES ASSUME NEW i \in Inodes, type[i] # "free", nlink[i] = 0, i \notin damaged
               PROVE  ref'[i] >= 1 /\ (valid'[i] \/ \E q \in Procs : loc'[q].pc = "c_lock" /\ loc'[q].ip = i)
    BY DEF Doomed, Written
  <2>1. ref'[i] \in Nat /\ ref'[i] >= ref[i]
    BY DEF Inv, Base, TypeInv, Written
  <2> QED BY <2>1, DoomedStep DEF Written
<1>12. ValidInv'
  BY DEF ValidInv, Inv, Written
<1>13. Gains(p) /\ Ends(p) /\ Waits(p)
  <2>1. \A i \in Inodes : ~(ref'[i] > ref[i])
    BY DEF Inv, Base, TypeInv, Written
  <2> QED BY <1>3, <2>1 DEF Gains, Ends, Waits, Written
<1>14. Touches(p)
  <2>1. Holds(loc[p], file[p], d) >= 1
    BY Owner DEF Inv, Written
  <2>2. ASSUME NEW i \in Inodes, Named(i)', ~Named(i) PROVE Holds(loc[p], file[p], i) >= 1
    <3>1. PICK e \in Inodes, k \in Names : entry'[e][k] = i
      BY <2>2 DEF Named
    <3>2. e = d /\ k = n
      BY <1>4, <2>2, <3>1 DEF Named
    <3> QED BY <1>4, <3>1, <3>2, Constants DEF Written
  <2> QED BY <1>3, <1>4, <2>1, <2>2 DEF Touches, Written
<1>15. Fresh(p) /\ DotsOwn(p)
  <2>1. \A i \in Inodes : ~Private(loc'[p], i) /\ ~HeadIs(loc'[p], {"done"}, i) /\ ~HeadIs(loc'[p], {"free"}, i)
    BY DEF Private, HeadIs, Last, Written
  <2> QED BY <2>1 DEF Fresh, DotsOwn, Inv, DotsInv, NewPcs, Written
<1> QED BY <1>2, <1>5, <1>6, <1>9, <1>10, <1>11, <1>12, <1>13, <1>14, <1>15 DEF Good, Written

(* Entering an inode keeps the names there are. *)
LEMMA EnterStrays ==
  ASSUME Inv, NEW p \in Procs, Enter(p), loc[p].dp \in Inodes, loc[p].ip \in Inodes, Name(p) \in Names,
         entry[loc[p].dp][Name(p)] = None
  PROVE  StraysInv' /\ strays \subseteq strays' /\ strays' \subseteq Inodes
<1> DEFINE d == loc[p].dp
           n == Name(p)
           x == loc[p].ip
<1>1. entry \in [Inodes -> [Names -> Inodes \cup {None}]] /\ strays \subseteq Inodes
  BY DEF Inv, Base, TypeInv
<1>2. entry' = [entry EXCEPT ![d][n] = x]
  BY DEF Enter
<1>3. /\ entry'[d][n] = x
      /\ \A e \in Inodes, k \in Names : e # d \/ k # n => entry'[e][k] = entry[e][k]
  BY <1>1, <1>2
<1>4. strays' = IF Named(d) \/ d = ROOTINO THEN strays ELSE strays \cup {d, x}
  BY DEF Enter, Named
<1>5. entry[d][n] = None
  OBVIOUS
<1> HIDE DEF n, d, x
<1>6. ASSUME NEW i \in Inodes, Named(i) PROVE Named(i)'
  <2>1. PICK e \in Inodes, k \in Names : entry[e][k] = i
    BY <1>6 DEF Named
  <2>2. entry'[e][k] = i
    BY <1>3, <1>5, <2>1, Constants
  <2> QED BY <2>2 DEF Named
<1>7. StraysInv'
  <2> SUFFICES ASSUME NEW e \in Inodes, NEW k \in Names, entry'[e][k] # None, e # ROOTINO, ~Named(e)'
               PROVE  e \in strays' /\ entry'[e][k] \in strays'
    BY DEF StraysInv
  <2>1. ~Named(e)
    BY <1>6
  <2>2. CASE e = d /\ k = n
    BY <1>3, <1>4, <2>1, <2>2
  <2>3. CASE e # d \/ k # n
    BY <1>3, <1>4, <2>1, <2>3 DEF Inv, StraysInv
  <2> QED BY <2>2, <2>3
<1> QED BY <1>1, <1>4, <1>7 DEF d, x

(* link() enters the new name. *)
LEMMA LinkEnterGood ==
  ASSUME Inv, NEW p \in Procs, LinkEnter(p), UNCHANGED past
  PROVE  Good(p)
<1> DEFINE l == loc[p]
           m == loc'[p]
           n == Name(p)
           r == unlockput(l.dp) \o put(l.ip)
<1>1. /\ l.pc = "link_dir" /\ l.rel = <<>> /\ Return(p, r) /\ Enter(p) /\ entry[l.dp][n] = None
      /\ UNCHANGED <<type, nlink, dots, file, ref, busy, valid, crashes, damaged>>
  BY DEF LinkEnter, At, disk, icache, past, dirlookup
<1>2. /\ WellFormed(l, file[p]) /\ l \in Locs /\ loc \in [Procs -> Locs] /\ file[p] \in Inodes \cup {None}
      /\ \A j : Puts(l.rel, j) = 0 /\ Locks(l.rel, j) = 0
      /\ \A D, j : ~HeadIs(l, D, j)
  BY <1>1, AtFacts DEF Inv, Base, TypeInv
<1>3. l.ip \in Inodes /\ l.dp \in Inodes /\ l.cur = None
  BY <1>1, <1>2 DEF WellFormed, Locs, DpLocked, NewPcs, IpPcs, IpLocked
<1>4. /\ n \in Names /\ n = l.rest[1] /\ Kind(l) /\ Look(l) /\ type[l.dp] = "dir" /\ strays \subseteq Inodes
      /\ type \in [Inodes -> {"free", "file", "dir"}]
  <2>1. l.rest \in Seq(Names) /\ Len(l.rest) = 1
    BY <1>1, <1>2 DEF WellFormed, Locs, DpLocked, NewPcs
  <2>2. n \in Names /\ n = l.rest[1]
    BY <2>1, RestTail DEF Name
  <2>3. Kind(l) /\ Look(l) /\ strays \subseteq Inodes /\ type \in [Inodes -> {"free", "file", "dir"}]
    BY DEF Inv, KindInv, Base, TypeInv
  <2>4. type[l.dp] = "dir"
    BY <1>3, <2>3, Constants DEF Kind
  <2> QED BY <2>2, <2>3, <2>4
<1>5. busy[l.dp] = p
  <2>1. busy[l.dp] = p
    <3>1. One(l.pc \in DpLocked /\ l.dp = l.dp) = 1
      BY <1>1, <1>3 DEF One, DpLocked, IpLocked, NewPcs
    <3>2. Claims(l, l.dp) >= 1
      BY <1>2, <1>3, <3>1, OneNat DEF Claims
    <3> QED BY <1>3, <3>2, Owner DEF Inv
  <2> QED BY <2>1
<1>6. Holds(l, file[p], l.ip) >= 1 /\ type[l.ip] # "free"
  <2>1. Holds(l, file[p], l.ip) >= 1
    <3>1. /\ One(l.ip = l.ip) = 1 /\ One(l.dp = l.ip) \in Nat /\ One(l.cur = l.ip) \in Nat
          /\ One(file[p] = l.ip) \in Nat /\ Puts(l.rel, l.ip) \in Nat
      BY OneNat, CountType DEF One, Puts
    <3> QED BY <3>1 DEF Holds
  <2> QED BY <1>2, <1>3, <2>1 DEF Inv, NonFree
<1>7. /\ entry' = [entry EXCEPT ![l.dp][n] = l.ip] /\ entry[l.dp][n] = None
      /\ StraysInv' /\ strays \subseteq strays' /\ strays' \subseteq Inodes
  <2>1. entry[l.dp][n] = None
    BY <1>1
  <2>2. Enter(p)
    BY <1>1
  <2> QED BY <1>3, <1>4, <2>1, <2>2, EnterStrays DEF Enter
<1>10. /\ r \in Seq(Releases) /\ Tidy(r) /\ r[1].do \notin Last /\ Len(r) # 1
       /\ \A j \in Inodes : Puts(r, j) = One(l.dp = j) + One(l.ip = j) /\ Locks(r, j) = One(l.dp = j) + 0
  <2>1. PICK s, t \in Seq(Releases) : s = unlockput(l.dp) /\ t = put(l.ip)
    BY <1>3, RelUnlockput, RelPut
  <2>2. /\ Tidy(s) /\ Tidy(t) /\ Len(s) = 2 /\ Len(t) = 1 /\ s[1].do = "unlock" /\ t[1].do = "put"
        /\ \A j : /\ Puts(s, j) = One(l.dp = j) /\ Puts(t, j) = One(l.ip = j)
                 /\ Locks(s, j) = One(l.dp = j) /\ Locks(t, j) = 0
    <3>1. /\ Tidy(unlockput(l.dp)) /\ Len(unlockput(l.dp)) = 2
          /\ unlockput(l.dp)[1] = [do |-> "unlock", ino |-> l.dp]
          /\ \A j : Puts(unlockput(l.dp), j) = One(l.dp = j) /\ Locks(unlockput(l.dp), j) = One(l.dp = j)
      BY <1>3, RelUnlockput
    <3>2. /\ Tidy(put(l.ip)) /\ Len(put(l.ip)) = 1
          /\ put(l.ip)[1] = [do |-> "put", ino |-> l.ip]
          /\ \A j : Puts(put(l.ip), j) = One(l.ip = j) /\ Locks(put(l.ip), j) = 0
      BY <1>3, RelPut
    <3> QED BY <2>1, <3>1, <3>2
  <2>3. /\ s \o t \in Seq(Releases) /\ Len(s \o t) = Len(s) + Len(t) /\ Tidy(s \o t)
        /\ s \o t # <<>> /\ (s \o t)[1] = s[1]
        /\ \A j : /\ Puts(s \o t, j) = Puts(s, j) + Puts(t, j)
                 /\ Locks(s \o t, j) = Locks(s, j) + Locks(t, j)
    <3>1. Len(s) + Len(t) <= 4 /\ Len(s) # 0 /\ Len(t) # 0 /\ Len(s) # 1 /\ t[1].do \notin Last
      BY <2>2 DEF Last
    <3> QED BY <2>2, <3>1, RelBoth
  <2>4. r = s \o t /\ Len(s \o t) # 1 /\ (s \o t)[1].do \notin Last /\ \A j : One(l.dp = j) \in Nat /\ One(l.ip = j) \in Nat
    BY <2>1, <2>2, <2>3, OneNat DEF Last
  <2>5. ASSUME NEW j \in Inodes
        PROVE  Puts(r, j) = One(l.dp = j) + One(l.ip = j) /\ Locks(r, j) = One(l.dp = j) + 0
    <3>1. /\ Puts(s \o t, j) = Puts(s, j) + Puts(t, j) /\ Locks(s \o t, j) = Locks(s, j) + Locks(t, j)
      BY <2>3
    <3>2. /\ Puts(s, j) = One(l.dp = j) /\ Puts(t, j) = One(l.ip = j)
          /\ Locks(s, j) = One(l.dp = j) /\ Locks(t, j) = 0
      BY <2>2
    <3> QED BY <2>4, <3>1, <3>2
  <2> HIDE DEF r
  <2> QED BY <2>3, <2>4, <2>5
<1> HIDE DEF r
<1>11. \A j \in Inodes : Holds(l, file[p], j) = One(file'[p] = j) + Puts(r, j)
  <2> SUFFICES ASSUME NEW j \in Inodes PROVE Holds(l, file[p], j) = One(file'[p] = j) + Puts(r, j)
    OBVIOUS
  <2>1. One(l.cur = j) = 0 /\ Puts(l.rel, j) = 0 /\ One(file'[p] = j) = One(file[p] = j)
    BY <1>1, <1>2, <1>3, Constants DEF One
  <2>2. One(l.dp = j) \in Nat /\ One(l.ip = j) \in Nat /\ One(file[p] = j) \in Nat
    BY OneNat
  <2> QED BY <1>10, <2>1, <2>2 DEF Holds
<1>12. \A j \in Inodes : Claims(l, j) = Locks(r, j)
  BY <1>1, <1>2, <1>3, <1>10, Constants DEF Claims, One, DpLocked, IpLocked, NewPcs
<1>13. /\ Frame(p) /\ Accounts(p) /\ LocksMove(p)
       /\ m.pc = "idle" /\ m.cur = None /\ m.dp = None /\ m.ip = None /\ m.rel = r
  <2>1. file' \in [Procs -> Inodes \cup {None}] /\ \A q \in Procs \ {p} : file'[q] = file[q]
    BY <1>1 DEF Inv, Base, TypeInv
  <2> QED BY <1>1, <1>10, <1>11, <1>12, <2>1, Returned DEF Inv, l
<1>14. \A i \in Inodes : ~HeadIs(m, Last, i)
  BY <1>10, <1>13 DEF HeadIs
<1>15. /\ m.pc \notin NewPcs /\ l.pc # "c_lock" /\ (Kind(l) /\ Look(l))'
  <2>1. m.pc \notin NewPcs /\ l.pc # "c_lock"
    BY <1>1, <1>13 DEF NewPcs
  <2>2. (Kind(l))' /\ (Look(l))'
    BY <1>13, <2>1, Constants DEF Kind, Look, WalkPcs, NewPcs
  <2> QED BY <2>1, <2>2
<1>16. ASSUME NEW i \in Inodes
       PROVE  /\ One(l.ip = i) + One(PendIp(m, i)) = One(entry[l.dp][n] = i) + One(PendIp(l, i))
              /\ One(i = l.dp /\ Sub(l.ip)) + One(PendDp(m, i)) = One(i = l.dp /\ Sub(entry[l.dp][n])) + One(PendDp(l, i))
  <2>1. /\ PendIp(l, i) <=> i = l.ip
        /\ ~PendIp(m, i) /\ ~PendDp(m, i) /\ ~Sub(entry[l.dp][n]) /\ entry[l.dp][n] # i
        /\ PendDp(l, i) <=> i = l.dp /\ Sub(l.ip)
    BY <1>1, <1>2, <1>3, <1>4, <1>7, <1>13, Constants DEF PendIp, PendDp, NewPcs, WalkPcs, Sub, Kind, WellFormed
  <2>2. /\ One(PendIp(l, i)) = One(l.ip = i) /\ One(PendIp(m, i)) = 0 /\ One(PendDp(m, i)) = 0
        /\ One(entry[l.dp][n] = i) = 0 /\ One(i = l.dp /\ Sub(entry[l.dp][n])) = 0
        /\ One(PendDp(l, i)) = One(i = l.dp /\ Sub(l.ip))
        /\ One(l.ip = i) \in Nat /\ One(i = l.dp /\ Sub(l.ip)) \in Nat
    BY <2>1, OneNat DEF One
  <2> QED BY <2>2
<1>17. l.ip # None => type[l.ip] # "free" /\ l.ip # ROOTINO /\ Holds(l, file[p], l.ip) >= 1
  <2>1. type[l.ip] = "file"
    BY <1>1, <1>3, <1>4, Constants DEF Kind
  <2> QED BY <1>6, <2>1 DEF Inv, NamesInv
<1>18. l.ip \in Inodes \cup {None} /\ l.dp \in Inodes
  BY <1>3
<1> HIDE DEF l, m, n
<1>19. Written(p, l.dp, n, l.ip)
  BY <1>1, <1>4, <1>5, <1>7, <1>13, <1>14, <1>15, <1>16, <1>17, <1>18 DEF Written, l, m
<1> QED BY <1>19, EntryGood

(* mkdir() enters the new directory, *)
LEMMA CreateLinkEnds ==
  ASSUME Inv, NEW p \in Procs, CreateLink(p), loc[p].call # "create", UNCHANGED past
  PROVE  Good(p)
<1> DEFINE l == loc[p]
           m == loc'[p]
           n == Name(p)
           r == unlockput(l.dp) \o unlockput(l.ip)
<1>1. /\ l.pc = "c_link" /\ l.rel = <<>> /\ Return(p, r) /\ Enter(p)
      /\ UNCHANGED <<type, nlink, dots, file, ref, busy, valid, crashes, damaged>>
  BY loc[p].call # "create" DEF CreateLink, At, disk, icache, past
<1>2. /\ WellFormed(l, file[p]) /\ l \in Locs /\ loc \in [Procs -> Locs] /\ file[p] \in Inodes \cup {None}
      /\ \A j : Puts(l.rel, j) = 0 /\ Locks(l.rel, j) = 0
      /\ \A D, j : ~HeadIs(l, D, j)
  BY <1>1, AtFacts DEF Inv, Base, TypeInv
<1>3. l.ip \in Inodes /\ l.dp \in Inodes /\ l.cur = None /\ l.call = "mkdir"
  BY <1>1, <1>2, loc[p].call # "create" DEF WellFormed, Locs, DpLocked, NewPcs, IpPcs, IpLocked
<1>4. /\ n \in Names /\ n = l.rest[1] /\ Kind(l) /\ Look(l) /\ type[l.dp] = "dir" /\ strays \subseteq Inodes
      /\ type \in [Inodes -> {"free", "file", "dir"}]
  <2>1. l.rest \in Seq(Names) /\ Len(l.rest) = 1
    BY <1>1, <1>2 DEF WellFormed, Locs, DpLocked, NewPcs
  <2>2. n \in Names /\ n = l.rest[1]
    BY <2>1, RestTail DEF Name
  <2>3. Kind(l) /\ Look(l) /\ strays \subseteq Inodes /\ type \in [Inodes -> {"free", "file", "dir"}]
    BY DEF Inv, KindInv, Base, TypeInv
  <2>4. type[l.dp] = "dir"
    BY <1>3, <2>3, Constants DEF Kind
  <2> QED BY <2>2, <2>3, <2>4
<1>5. busy[l.dp] = p
  <2>1. busy[l.dp] = p
    <3>1. One(l.pc \in DpLocked /\ l.dp = l.dp) = 1
      BY <1>1, <1>3 DEF One, DpLocked, IpLocked, NewPcs
    <3>2. Claims(l, l.dp) >= 1
      BY <1>2, <1>3, <3>1, OneNat DEF Claims
    <3> QED BY <1>3, <3>2, Owner DEF Inv
  <2> QED BY <2>1
<1>6. Holds(l, file[p], l.ip) >= 1 /\ type[l.ip] # "free"
  <2>1. Holds(l, file[p], l.ip) >= 1
    <3>1. /\ One(l.ip = l.ip) = 1 /\ One(l.dp = l.ip) \in Nat /\ One(l.cur = l.ip) \in Nat
          /\ One(file[p] = l.ip) \in Nat /\ Puts(l.rel, l.ip) \in Nat
      BY OneNat, CountType DEF One, Puts
    <3> QED BY <3>1 DEF Holds
  <2> QED BY <1>2, <1>3, <2>1 DEF Inv, NonFree
<1>7. /\ entry' = [entry EXCEPT ![l.dp][n] = l.ip] /\ entry[l.dp][n] = None
      /\ StraysInv' /\ strays \subseteq strays' /\ strays' \subseteq Inodes
  <2>1. entry[l.dp][n] = None
    BY <1>1, <1>4 DEF Look, NewPcs
  <2>2. Enter(p)
    BY <1>1
  <2> QED BY <1>3, <1>4, <2>1, <2>2, EnterStrays DEF Enter
<1>10. /\ r \in Seq(Releases) /\ Tidy(r) /\ r[1].do \notin Last /\ Len(r) # 1
       /\ \A j \in Inodes : Puts(r, j) = One(l.dp = j) + One(l.ip = j) /\ Locks(r, j) = One(l.dp = j) + One(l.ip = j)
  <2>1. PICK s, t \in Seq(Releases) : s = unlockput(l.dp) /\ t = unlockput(l.ip)
    BY <1>3, RelUnlockput
  <2>2. /\ Tidy(s) /\ Tidy(t) /\ Len(s) = 2 /\ Len(t) = 2 /\ s[1].do = "unlock" /\ t[1].do = "unlock"
        /\ \A j : /\ Puts(s, j) = One(l.dp = j) /\ Puts(t, j) = One(l.ip = j)
                 /\ Locks(s, j) = One(l.dp = j) /\ Locks(t, j) = One(l.ip = j)
    <3>1. /\ Tidy(unlockput(l.dp)) /\ Len(unlockput(l.dp)) = 2
          /\ unlockput(l.dp)[1] = [do |-> "unlock", ino |-> l.dp]
          /\ \A j : Puts(unlockput(l.dp), j) = One(l.dp = j) /\ Locks(unlockput(l.dp), j) = One(l.dp = j)
      BY <1>3, RelUnlockput
    <3>2. /\ Tidy(unlockput(l.ip)) /\ Len(unlockput(l.ip)) = 2
          /\ unlockput(l.ip)[1] = [do |-> "unlock", ino |-> l.ip]
          /\ \A j : Puts(unlockput(l.ip), j) = One(l.ip = j) /\ Locks(unlockput(l.ip), j) = One(l.ip = j)
      BY <1>3, RelUnlockput
    <3> QED BY <2>1, <3>1, <3>2
  <2>3. /\ s \o t \in Seq(Releases) /\ Len(s \o t) = Len(s) + Len(t) /\ Tidy(s \o t)
        /\ s \o t # <<>> /\ (s \o t)[1] = s[1]
        /\ \A j : /\ Puts(s \o t, j) = Puts(s, j) + Puts(t, j)
                 /\ Locks(s \o t, j) = Locks(s, j) + Locks(t, j)
    <3>1. Len(s) + Len(t) <= 4 /\ Len(s) # 0 /\ Len(t) # 0 /\ Len(s) # 1 /\ t[1].do \notin Last
      BY <2>2 DEF Last
    <3> QED BY <2>2, <3>1, RelBoth
  <2>4. r = s \o t /\ Len(s \o t) # 1 /\ (s \o t)[1].do \notin Last /\ \A j : One(l.dp = j) \in Nat /\ One(l.ip = j) \in Nat
    BY <2>1, <2>2, <2>3, OneNat DEF Last
  <2>5. ASSUME NEW j \in Inodes
        PROVE  Puts(r, j) = One(l.dp = j) + One(l.ip = j) /\ Locks(r, j) = One(l.dp = j) + One(l.ip = j)
    <3>1. /\ Puts(s \o t, j) = Puts(s, j) + Puts(t, j) /\ Locks(s \o t, j) = Locks(s, j) + Locks(t, j)
      BY <2>3
    <3>2. /\ Puts(s, j) = One(l.dp = j) /\ Puts(t, j) = One(l.ip = j)
          /\ Locks(s, j) = One(l.dp = j) /\ Locks(t, j) = One(l.ip = j)
      BY <2>2
    <3> QED BY <2>4, <3>1, <3>2
  <2> HIDE DEF r
  <2> QED BY <2>3, <2>4, <2>5
<1> HIDE DEF r
<1>11. \A j \in Inodes : Holds(l, file[p], j) = One(file'[p] = j) + Puts(r, j)
  <2> SUFFICES ASSUME NEW j \in Inodes PROVE Holds(l, file[p], j) = One(file'[p] = j) + Puts(r, j)
    OBVIOUS
  <2>1. One(l.cur = j) = 0 /\ Puts(l.rel, j) = 0 /\ One(file'[p] = j) = One(file[p] = j)
    BY <1>1, <1>2, <1>3, Constants DEF One
  <2>2. One(l.dp = j) \in Nat /\ One(l.ip = j) \in Nat /\ One(file[p] = j) \in Nat
    BY OneNat
  <2> QED BY <1>10, <2>1, <2>2 DEF Holds
<1>12. \A j \in Inodes : Claims(l, j) = Locks(r, j)
  BY <1>1, <1>2, <1>3, <1>10, Constants DEF Claims, One, DpLocked, IpLocked, NewPcs
<1>13. /\ Frame(p) /\ Accounts(p) /\ LocksMove(p)
       /\ m.pc = "idle" /\ m.cur = None /\ m.dp = None /\ m.ip = None /\ m.rel = r
  <2>1. file' \in [Procs -> Inodes \cup {None}] /\ \A q \in Procs \ {p} : file'[q] = file[q]
    BY <1>1 DEF Inv, Base, TypeInv
  <2> QED BY <1>1, <1>10, <1>11, <1>12, <2>1, Returned DEF Inv, l
<1>14. \A i \in Inodes : ~HeadIs(m, Last, i)
  BY <1>10, <1>13 DEF HeadIs
<1>15. /\ m.pc \notin NewPcs /\ l.pc # "c_lock" /\ (Kind(l) /\ Look(l))'
  <2>1. m.pc \notin NewPcs /\ l.pc # "c_lock"
    BY <1>1, <1>13 DEF NewPcs
  <2>2. (Kind(l))' /\ (Look(l))'
    BY <1>13, <2>1, Constants DEF Kind, Look, WalkPcs, NewPcs
  <2> QED BY <2>1, <2>2
<1>16. ASSUME NEW i \in Inodes
       PROVE  /\ One(l.ip = i) + One(PendIp(m, i)) = One(entry[l.dp][n] = i) + One(PendIp(l, i))
              /\ One(i = l.dp /\ Sub(l.ip)) + One(PendDp(m, i)) = One(i = l.dp /\ Sub(entry[l.dp][n])) + One(PendDp(l, i))
  <2>1. /\ PendIp(l, i) <=> i = l.ip
        /\ ~PendIp(m, i) /\ ~PendDp(m, i) /\ ~Sub(entry[l.dp][n]) /\ entry[l.dp][n] # i
        /\ PendDp(l, i) <=> i = l.dp /\ Sub(l.ip)
    BY <1>1, <1>2, <1>3, <1>4, <1>7, <1>13, Constants DEF PendIp, PendDp, NewPcs, WalkPcs, Sub, Kind, WellFormed
  <2>2. /\ One(PendIp(l, i)) = One(l.ip = i) /\ One(PendIp(m, i)) = 0 /\ One(PendDp(m, i)) = 0
        /\ One(entry[l.dp][n] = i) = 0 /\ One(i = l.dp /\ Sub(entry[l.dp][n])) = 0
        /\ One(PendDp(l, i)) = One(i = l.dp /\ Sub(l.ip))
        /\ One(l.ip = i) \in Nat /\ One(i = l.dp /\ Sub(l.ip)) \in Nat
    BY <2>1, OneNat DEF One
  <2> QED BY <2>2
<1>17. l.ip # None => type[l.ip] # "free" /\ l.ip # ROOTINO /\ Holds(l, file[p], l.ip) >= 1
  <2>1. Private(l, l.ip)
    BY <1>1 DEF Private, NewPcs
  <2> QED BY <1>3, <1>6, <2>1 DEF Inv, PrivateInv
<1>18. l.ip \in Inodes \cup {None} /\ l.dp \in Inodes
  BY <1>3
<1> HIDE DEF l, m, n
<1>19. Written(p, l.dp, n, l.ip)
  BY <1>1, <1>4, <1>5, <1>7, <1>13, <1>14, <1>15, <1>16, <1>17, <1>18 DEF Written, l, m
<1> QED BY <1>19, EntryGood

(* create() enters the new file and opens it. *)
LEMMA CreateLinkOpens ==
  ASSUME Inv, NEW p \in Procs, CreateLink(p), loc[p].call = "create", UNCHANGED past
  PROVE  Good(p)
<1> DEFINE l == loc[p]
           m == loc'[p]
           n == Name(p)
<1>1. /\ l.pc = "c_link" /\ l.rel = <<>> /\ Enter(p) /\ l.call = "create"
      /\ UNCHANGED <<type, nlink, dots, file, ref, busy, valid, crashes, damaged>>
  BY loc[p].call = "create" DEF CreateLink, At, disk, icache, past
<1>2. /\ WellFormed(l, file[p]) /\ l \in Locs /\ loc \in [Procs -> Locs] /\ file[p] \in Inodes \cup {None}
      /\ \A j : Puts(l.rel, j) = 0 /\ Locks(l.rel, j) = 0
      /\ \A D, j : ~HeadIs(l, D, j)
  BY <1>1, AtFacts DEF Inv, Base, TypeInv
<1>3. l.ip \in Inodes /\ l.dp \in Inodes /\ l.cur = None
  BY <1>1, <1>2, loc[p].call = "create" DEF WellFormed, Locs, DpLocked, NewPcs, IpPcs, IpLocked
<1>4. /\ n \in Names /\ n = l.rest[1] /\ Kind(l) /\ Look(l) /\ type[l.dp] = "dir" /\ strays \subseteq Inodes
      /\ type \in [Inodes -> {"free", "file", "dir"}]
  <2>1. l.rest \in Seq(Names) /\ Len(l.rest) = 1
    BY <1>1, <1>2 DEF WellFormed, Locs, DpLocked, NewPcs
  <2>2. n \in Names /\ n = l.rest[1]
    BY <2>1, RestTail DEF Name
  <2>3. Kind(l) /\ Look(l) /\ strays \subseteq Inodes /\ type \in [Inodes -> {"free", "file", "dir"}]
    BY DEF Inv, KindInv, Base, TypeInv
  <2>4. type[l.dp] = "dir"
    BY <1>3, <2>3, Constants DEF Kind
  <2> QED BY <2>2, <2>3, <2>4
<1>5. busy[l.dp] = p
  <2>1. busy[l.dp] = p
    <3>1. One(l.pc \in DpLocked /\ l.dp = l.dp) = 1
      BY <1>1, <1>3 DEF One, DpLocked, IpLocked, NewPcs
    <3>2. Claims(l, l.dp) >= 1
      BY <1>2, <1>3, <3>1, OneNat DEF Claims
    <3> QED BY <1>3, <3>2, Owner DEF Inv
  <2> QED BY <2>1
<1>6. Holds(l, file[p], l.ip) >= 1 /\ type[l.ip] # "free"
  <2>1. Holds(l, file[p], l.ip) >= 1
    <3>1. /\ One(l.ip = l.ip) = 1 /\ One(l.dp = l.ip) \in Nat /\ One(l.cur = l.ip) \in Nat
          /\ One(file[p] = l.ip) \in Nat /\ Puts(l.rel, l.ip) \in Nat
      BY OneNat, CountType DEF One, Puts
    <3> QED BY <3>1 DEF Holds
  <2> QED BY <1>2, <1>3, <2>1 DEF Inv, NonFree
<1>7. /\ entry' = [entry EXCEPT ![l.dp][n] = l.ip] /\ entry[l.dp][n] = None
      /\ StraysInv' /\ strays \subseteq strays' /\ strays' \subseteq Inodes
  <2>1. entry[l.dp][n] = None
    BY <1>1, <1>4 DEF Look, NewPcs
  <2>2. Enter(p)
    BY <1>1
  <2> QED BY <1>3, <1>4, <2>1, <2>2, EnterStrays DEF Enter
<1>0. loc' = [loc EXCEPT ![p].pc = "opened", ![p].dp = None, ![p].rel = unlockput(loc[p].dp)]
  BY loc[p].call = "create" DEF CreateLink
<1>8. /\ m.pc = "opened" /\ m.call = l.call /\ m.rest = l.rest /\ m.new = l.new
      /\ m.cur = l.cur /\ m.dp = None /\ m.ip = l.ip /\ m.rel = unlockput(l.dp)
  BY <1>0, <1>1, <1>2
<1>9. Moves(p)
  <2>1. loc' = [q \in Procs |-> IF q = p THEN loc'[p] ELSE loc[q]]
    BY <1>0, <1>2
  <2>2. m = [pc |-> m.pc, call |-> m.call, rest |-> m.rest, new |-> m.new, cur |-> m.cur,
             dp |-> m.dp, ip |-> m.ip, rel |-> m.rel]
    BY <1>0, <1>2 DEF Locs
  <2> QED BY <2>1, <2>2 DEF Moves
<1>10. /\ m.rel \in Seq(Releases) /\ Tidy(m.rel) /\ Len(m.rel) # 1
       /\ \A j : ~HeadIs(m, Last, j)
       /\ \A j \in Inodes : Puts(m.rel, j) = One(l.dp = j) /\ Locks(m.rel, j) = One(l.dp = j)
  <2>1. /\ unlockput(l.dp) \in Seq(Releases) /\ Len(unlockput(l.dp)) = 2 /\ Tidy(unlockput(l.dp))
        /\ unlockput(l.dp) # <<>> /\ unlockput(l.dp)[1] = [do |-> "unlock", ino |-> l.dp]
        /\ \A j : Puts(unlockput(l.dp), j) = One(l.dp = j) /\ Locks(unlockput(l.dp), j) = One(l.dp = j)
    BY <1>3, RelUnlockput
  <2>2. m.rel = unlockput(l.dp)
    BY <1>8
  <2> HIDE DEF m
  <2>3. m.rel \in Seq(Releases) /\ Tidy(m.rel) /\ Len(m.rel) = 2
    BY <2>1, <2>2, Zenon
  <2>4. \A j : ~HeadIs(m, Last, j)
    BY <2>1, <2>2 DEF HeadIs, Last
  <2>5. 2 # 1
    OBVIOUS
  <2> QED BY <2>1, <2>2, <2>3, <2>4, <2>5, Zenon
<1> HIDE DEF m
<1>11. m \in Locs /\ loc' \in [Procs -> Locs] /\ \A q \in Procs \ {p} : loc'[q] = loc[q]
  <2>1. m.pc \in PCs /\ l.call \in CallNames
    BY <1>2, <1>8 DEF PCs, Locs
  <2> QED BY <1>2, <1>3, <1>8, <1>9, <1>10, <2>1, Moved, Constants DEF Inv, Locs, m
<1>12. WellFormed(m, file[p])
  <2>1. /\ m.pc \notin WalkPcs /\ m.pc \notin DpLocked /\ m.pc \notin NewPcs /\ m.pc \in RelPcs /\ m.pc \in IpPcs
    BY <1>8 DEF DpLocked, IpPcs, IpLocked, NewPcs, WalkPcs, RelPcs
  <2>2. m.pc = "opened" /\ m.cur = None /\ m.dp = None /\ m.ip # None /\ m.call = "create"
    BY <1>1, <1>3, <1>8, Constants
  <2> QED BY <1>10, <2>1, <2>2 DEF WellFormed
<1>13. /\ Frame(p) /\ Accounts(p) /\ LocksMove(p)
  <2>1. \A j \in Inodes : Holds(m, file[p], j) = Holds(l, file[p], j) + One(None = j)
    BY <1>2, <1>3, <1>8, <1>10, Constants DEF Holds, One
  <2>2. \A j \in Inodes : Claims(m, j) = Claims(l, j) + One(None = j)
    BY <1>1, <1>2, <1>3, <1>8, <1>10, Constants DEF Claims, One, DpLocked, IpLocked, NewPcs
  <2>3. Igets(None) /\ Ilocks(p, None)
    BY <1>1, IgetNone, IlockNone DEF Inv
  <2> HIDE DEF l
  <2> QED BY <1>1, <1>11, <1>12, <2>1, <2>2, <2>3, Constants, MovedFrame DEF l, m
<1>14. \A i \in Inodes : ~HeadIs(m, Last, i)
  BY <1>10
<1>15. /\ m.pc \notin NewPcs /\ l.pc # "c_lock" /\ (Kind(l) /\ Look(l))'
  <2>1. m.pc \notin NewPcs /\ l.pc # "c_lock"
    BY <1>1, <1>8 DEF NewPcs
  <2>2. (Kind(l))' /\ (Look(l))'
    BY <1>8, <2>1, Constants DEF Kind, Look, WalkPcs, NewPcs, m
  <2> QED BY <2>1, <2>2
<1>16. ASSUME NEW i \in Inodes
       PROVE  /\ One(l.ip = i) + One(PendIp(m, i)) = One(entry[l.dp][n] = i) + One(PendIp(l, i))
              /\ One(i = l.dp /\ Sub(l.ip)) + One(PendDp(m, i)) = One(i = l.dp /\ Sub(entry[l.dp][n])) + One(PendDp(l, i))
  <2>1. /\ PendIp(l, i) <=> i = l.ip
        /\ ~PendIp(m, i) /\ ~PendDp(m, i) /\ ~Sub(entry[l.dp][n]) /\ entry[l.dp][n] # i
        /\ ~PendDp(l, i) /\ ~Sub(l.ip)
    BY <1>1, <1>2, <1>3, <1>4, <1>7, <1>8, Constants DEF PendIp, PendDp, NewPcs, WalkPcs, Sub, Kind, WellFormed
  <2>2. /\ One(PendIp(l, i)) = One(l.ip = i) /\ One(PendIp(m, i)) = 0 /\ One(PendDp(m, i)) = 0
        /\ One(entry[l.dp][n] = i) = 0 /\ One(i = l.dp /\ Sub(entry[l.dp][n])) = 0
        /\ One(PendDp(l, i)) = 0 /\ One(i = l.dp /\ Sub(l.ip)) = 0
        /\ One(l.ip = i) \in Nat /\ One(i = l.dp /\ Sub(l.ip)) \in Nat
    BY <2>1, OneNat DEF One
  <2> QED BY <2>2
<1>17. l.ip # None => type[l.ip] # "free" /\ l.ip # ROOTINO /\ Holds(l, file[p], l.ip) >= 1
  <2>1. Private(l, l.ip)
    BY <1>1 DEF Private, NewPcs
  <2> QED BY <1>3, <1>6, <2>1 DEF Inv, PrivateInv
<1>18. l.ip \in Inodes \cup {None} /\ l.dp \in Inodes
  BY <1>3
<1> HIDE DEF l, m, n
<1>19. Written(p, l.dp, n, l.ip)
  BY <1>1, <1>4, <1>5, <1>7, <1>13, <1>14, <1>15, <1>16, <1>17, <1>18 DEF Written, l, m
<1> QED BY <1>19, EntryGood

(* unlink() clears the entry. *)
LEMMA UnlinkClearGood ==
  ASSUME Inv, NEW p \in Procs, UnlinkClear(p), ~(type[loc[p].ip] = "dir" /\ ~isdirempty(loc[p].ip)), UNCHANGED past
  PROVE  Good(p)
<1> DEFINE l == loc[p]
           m == loc'[p]
           n == Name(p)
<1>1. /\ l.pc = "u_check" /\ l.rel = <<>> /\ entry' = [entry EXCEPT ![l.dp][n] = None] /\ strays' = strays
      /\ UNCHANGED <<type, nlink, dots, file, ref, busy, valid, crashes, damaged>>
  BY ~(type[loc[p].ip] = "dir" /\ ~isdirempty(loc[p].ip)) DEF UnlinkClear, At, disk, icache, past
<1>2. /\ WellFormed(l, file[p]) /\ l \in Locs /\ loc \in [Procs -> Locs] /\ file[p] \in Inodes \cup {None}
      /\ \A j : Puts(l.rel, j) = 0 /\ Locks(l.rel, j) = 0
      /\ \A D, j : ~HeadIs(l, D, j)
  BY <1>1, AtFacts DEF Inv, Base, TypeInv
<1>3. l.ip \in Inodes /\ l.dp \in Inodes /\ l.cur = None
  BY <1>1, <1>2, ~(type[loc[p].ip] = "dir" /\ ~isdirempty(loc[p].ip))
       DEF WellFormed, Locs, DpLocked, NewPcs, IpPcs, IpLocked
<1>4. /\ n \in Names /\ n = l.rest[1] /\ Kind(l) /\ Look(l) /\ type[l.dp] = "dir" /\ strays \subseteq Inodes
      /\ type \in [Inodes -> {"free", "file", "dir"}]
  <2>1. l.rest \in Seq(Names) /\ Len(l.rest) = 1
    BY <1>1, <1>2 DEF WellFormed, Locs, DpLocked, NewPcs
  <2>2. n \in Names /\ n = l.rest[1]
    BY <2>1, RestTail DEF Name
  <2>3. Kind(l) /\ Look(l) /\ strays \subseteq Inodes /\ type \in [Inodes -> {"free", "file", "dir"}]
    BY DEF Inv, KindInv, Base, TypeInv
  <2>4. type[l.dp] = "dir"
    BY <1>3, <2>3, Constants DEF Kind
  <2> QED BY <2>2, <2>3, <2>4
<1>5. busy[l.dp] = p
  <2>1. busy[l.dp] = p
    <3>1. One(l.pc \in DpLocked /\ l.dp = l.dp) = 1
      BY <1>1, <1>3 DEF One, DpLocked, IpLocked, NewPcs
    <3>2. Claims(l, l.dp) >= 1
      BY <1>2, <1>3, <3>1, OneNat DEF Claims
    <3> QED BY <1>3, <3>2, Owner DEF Inv
  <2> QED BY <2>1
<1>6. Holds(l, file[p], l.ip) >= 1 /\ type[l.ip] # "free"
  <2>1. Holds(l, file[p], l.ip) >= 1
    <3>1. /\ One(l.ip = l.ip) = 1 /\ One(l.dp = l.ip) \in Nat /\ One(l.cur = l.ip) \in Nat
          /\ One(file[p] = l.ip) \in Nat /\ Puts(l.rel, l.ip) \in Nat
      BY OneNat, CountType DEF One, Puts
    <3> QED BY <3>1 DEF Holds
  <2> QED BY <1>2, <1>3, <2>1 DEF Inv, NonFree
<1>7. /\ entry' = [entry EXCEPT ![l.dp][n] = None] /\ entry[l.dp][n] = l.ip
      /\ StraysInv' /\ strays \subseteq strays' /\ strays' \subseteq Inodes
  <2>1. entry[l.dp][n] = l.ip
    BY <1>1, <1>4 DEF Look
  <2>2. entry \in [Inodes -> [Names -> Inodes \cup {None}]]
    BY DEF Inv, Base, TypeInv
  <2>3. /\ entry'[l.dp][n] = None
        /\ \A e \in Inodes, k \in Names : e # l.dp \/ k # n => entry'[e][k] = entry[e][k]
    BY <1>1, <1>3, <1>4, <2>2
  <2>4. \A k \in Names : entry[l.ip][k] = None
    <3>1. CASE type[l.ip] = "dir"
      <4>1. entry[l.ip] = NoEntries
        BY <3>1, ~(type[loc[p].ip] = "dir" /\ ~isdirempty(loc[p].ip)) DEF isdirempty
      <4> QED BY <4>1 DEF NoEntries
    <3>2. CASE type[l.ip] # "dir"
      BY <1>3, <3>2 DEF Inv, NamesInv
    <3> QED BY <3>1, <3>2
  <2> HIDE DEF n, l
  <2>5. ASSUME NEW e \in Inodes, NEW k \in Names, entry'[e][k] # None, e # ROOTINO, ~Named(e)'
        PROVE  e \in strays' /\ entry'[e][k] \in strays'
    <3>1. entry'[e][k] = entry[e][k] /\ e # l.ip
      BY <2>3, <2>4, <2>5
    <3>2. ~Named(e)
      <4>1. ASSUME NEW d \in Inodes, NEW j \in Names, entry[d][j] = e PROVE FALSE
        <5>1. d # l.dp \/ j # n
          BY <2>1, <3>1, <4>1
        <5> QED BY <2>3, <2>5, <4>1, <5>1 DEF Named
      <4> QED BY <4>1 DEF Named
    <3> QED BY <1>1, <2>5, <3>1, <3>2 DEF Inv, StraysInv
  <2>6. StraysInv'
    BY <2>5 DEF StraysInv
  <2> QED BY <1>1, <1>4, <2>1, <2>6
<1>8. /\ m \in Locs /\ loc' \in [Procs -> Locs] /\ \A q \in Procs \ {p} : loc'[q] = loc[q]
      /\ m.pc = "u_parent" /\ m.call = l.call /\ m.rest = l.rest /\ m.new = l.new
      /\ m.cur = l.cur /\ m.dp = l.dp /\ m.ip = l.ip /\ m.rel = <<>>
      /\ \A f, j : Holds(m, f, j) = Holds(l, f, j)
      /\ \A j : Puts(m.rel, j) = 0 /\ Locks(m.rel, j) = 0
      /\ \A D, j : ~HeadIs(m, D, j)
  <2>1. "u_parent" \in PCs
    BY DEF PCs
  <2>2. loc' = [loc EXCEPT ![p].pc = "u_parent"]
    BY ~(type[loc[p].ip] = "dir" /\ ~isdirempty(loc[p].ip)) DEF UnlinkClear
  <2> QED BY <1>1, <2>1, <2>2, PcMoved DEF Inv
<1> HIDE DEF m
<1>12. WellFormed(m, file[p])
  <2>1. /\ m.pc \notin WalkPcs /\ m.pc \in DpLocked /\ m.pc \notin NewPcs /\ m.pc \in IpPcs
        /\ l.pc \notin WalkPcs /\ l.pc \in DpLocked /\ l.pc \notin NewPcs /\ l.pc \in IpPcs
    BY <1>1, <1>8 DEF DpLocked, IpPcs, IpLocked, NewPcs, WalkPcs, RelPcs
  <2> QED BY <1>1, <1>2, <1>8, <2>1, RelEmpty DEF WellFormed
<1>13. /\ Frame(p) /\ Accounts(p) /\ LocksMove(p)
  <2>1. \A j \in Inodes : Holds(m, file[p], j) = Holds(l, file[p], j) + One(None = j)
    BY <1>8, HoldsType, Constants DEF One
  <2>2. \A j \in Inodes : Claims(m, j) = Claims(l, j) + One(None = j)
    BY <1>1, <1>2, <1>3, <1>8, Constants DEF Claims, One, DpLocked, IpLocked, NewPcs
  <2>3. Igets(None) /\ Ilocks(p, None)
    BY <1>1, IgetNone, IlockNone DEF Inv
  <2> HIDE DEF l
  <2> QED BY <1>1, <1>8, <1>12, <2>1, <2>2, <2>3, Constants, MovedFrame DEF l, m
<1>14. \A i \in Inodes : ~HeadIs(m, Last, i)
  BY <1>8
<1>15. /\ m.pc \notin NewPcs /\ l.pc # "c_lock" /\ (Kind(l) /\ Look(l))'
  <2>1. m.pc \notin NewPcs /\ l.pc # "c_lock" /\ m.pc \notin WalkPcs
    BY <1>1, <1>8 DEF NewPcs, WalkPcs
  <2>2. (Kind(l))' /\ (Look(l))'
    BY <1>1, <1>4, <1>8, <2>1, Constants DEF Kind, Look, m
  <2> QED BY <2>1, <2>2
<1>16. ASSUME NEW i \in Inodes
       PROVE  /\ One(None = i) + One(PendIp(m, i)) = One(entry[l.dp][n] = i) + One(PendIp(l, i))
              /\ One(i = l.dp /\ Sub(None)) + One(PendDp(m, i)) = One(i = l.dp /\ Sub(entry[l.dp][n])) + One(PendDp(l, i))
  <2>1. /\ ~PendIp(l, i) /\ ~PendDp(l, i) /\ (PendIp(m, i) <=> l.ip = i)
        /\ PendDp(m, i) <=> i = l.dp /\ Sub(l.ip)
        /\ ~Sub(None) /\ None # i
    BY <1>1, <1>3, <1>8, Constants DEF PendIp, PendDp, NewPcs, WalkPcs, Sub
  <2>2. /\ One(PendIp(m, i)) = One(l.ip = i) /\ One(PendIp(l, i)) = 0 /\ One(PendDp(l, i)) = 0
        /\ One(None = i) = 0 /\ One(i = l.dp /\ Sub(None)) = 0
        /\ One(PendDp(m, i)) = One(i = l.dp /\ Sub(l.ip))
        /\ One(l.ip = i) \in Nat /\ One(i = l.dp /\ Sub(l.ip)) \in Nat
    BY <2>1, OneNat DEF One
  <2> QED BY <1>7, <2>2
<1>17. None # None => type[None] # "free" /\ None # ROOTINO /\ Holds(l, file[p], None) >= 1
  OBVIOUS
<1>18. None \in Inodes \cup {None} /\ l.dp \in Inodes
  BY <1>3
<1> HIDE DEF l, m, n
<1>19. Written(p, l.dp, n, None)
  BY <1>1, <1>4, <1>5, <1>7, <1>13, <1>14, <1>15, <1>16, <1>17, <1>18 DEF Written, l, m
<1> QED BY <1>19, EntryGood

-----------------------------------------------------------------------------
(* Who is about to finish an iput() holds that reference. *)
LEMMA HeadHolds ==
  ASSUME NEW l, l.rel \in Seq(Releases), NEW f, NEW i, NEW D, D \subseteq Last \cup {"put"}, HeadIs(l, D, i)
  PROVE  /\ Holds(l, f, i) >= 1
         /\ l.cur = i \/ l.dp = i \/ l.ip = i \/ f = i => Holds(l, f, i) >= 2
<1>1. Puts(l.rel, i) >= 1
  <2>1. 1 <= Len(l.rel)
    <3>1. Len(l.rel) \in Nat /\ Len(l.rel) # 0
      BY LenProperties, EmptySeq DEF HeadIs
    <3> QED BY <3>1
  <2>2. 1 \in 1..4 /\ l.rel[1].do \in Last \cup {"put"} /\ l.rel[1].ino = i
    BY DEF HeadIs
  <2> QED BY <2>1, <2>2, CountSome DEF Puts
<1>2. /\ One(l.cur = i) \in Nat /\ One(l.dp = i) \in Nat /\ One(l.ip = i) \in Nat
      /\ One(f = i) \in Nat /\ Puts(l.rel, i) \in Nat
  BY OneNat, CountType DEF Puts
<1>3. l.cur = i \/ l.dp = i \/ l.ip = i \/ f = i =>
        One(l.cur = i) = 1 \/ One(l.dp = i) = 1 \/ One(l.ip = i) = 1 \/ One(f = i) = 1
  BY DEF One
<1> QED BY <1>1, <1>2, <1>3 DEF Holds

(* create() takes a free inode. *)
LEMMA CreateAllocGood ==
  ASSUME Inv, NEW p \in Procs, CreateAlloc(p), UNCHANGED past
  PROVE  Good(p)
<1> DEFINE l == loc[p]
           m == loc'[p]
           n == Name(p)
<1>1. PICK i \in Inodes :
        /\ type[i] = "free"
        /\ type' = [type EXCEPT ![i] = IF loc[p].call = "mkdir" THEN "dir" ELSE "file"]
        /\ nlink' = [nlink EXCEPT ![i] = 0]
        /\ iget(i)
        /\ loc' = [loc EXCEPT ![p].pc = "c_lock", ![p].ip = i]
  BY DEF CreateAlloc
<1>2. /\ l.pc = "create" /\ l.rel = <<>> /\ entry[l.dp][n] = None
      /\ UNCHANGED <<entry, dots, busy, file, strays, crashes, damaged>>
  BY DEF CreateAlloc, At, past, dirlookup
<1>3. /\ WellFormed(l, file[p]) /\ l \in Locs /\ loc \in [Procs -> Locs] /\ file[p] \in Inodes \cup {None}
      /\ \A j : Puts(l.rel, j) = 0 /\ Locks(l.rel, j) = 0
      /\ \A D, j : ~HeadIs(l, D, j)
  BY <1>2, AtFacts DEF Inv, Base, TypeInv
<1>4. /\ l.dp \in Inodes /\ l.cur = None /\ l.ip = None /\ l.call \in {"create", "mkdir"} /\ Len(l.rest) = 1
      /\ n = l.rest[1] /\ type[l.dp] = "dir" /\ l.dp # i
  <2>1. l.dp \in Inodes /\ l.cur = None /\ l.ip = None /\ l.call \in {"create", "mkdir"} /\ Len(l.rest) = 1
    BY <1>2, <1>3 DEF WellFormed, Locs, DpLocked, NewPcs, IpPcs, IpLocked, WalkPcs
  <2>2. l.rest \in Seq(Names)
    BY <1>3 DEF Locs
  <2>3. n = l.rest[1]
    BY <2>1, <2>2, RestTail DEF Name
  <2>4. type[l.dp] = "dir"
    BY <2>1, Constants DEF Inv, KindInv, Kind
  <2> QED BY <1>1, <2>1, <2>3, <2>4
<1>5. /\ type \in [Inodes -> {"free", "file", "dir"}] /\ nlink \in [Inodes -> Nat]
      /\ entry \in [Inodes -> [Names -> Inodes \cup {None}]] /\ ref \in [Inodes -> Nat]
      /\ valid \in [Inodes -> BOOLEAN]
  BY DEF Inv, Base, TypeInv
<1>6. nlink[i] = 0 /\ nlink' = nlink
  <2>1. nlink[i] = 0
    BY <1>1 DEF Inv, NamesInv
  <2> QED BY <1>1, <1>5, <2>1
<1>7. /\ i # ROOTINO /\ ~Named(i) /\ entry[i] = NoEntries /\ dots[i] = <<>>
  <2>1. i # ROOTINO
    BY <1>1 DEF Inv, NamesInv
  <2>2. ~Named(i)
    BY <1>1, Constants DEF Inv, NamesInv, Named
  <2>3. \A k \in Names : entry[i][k] = None
    BY <1>1 DEF Inv, NamesInv
  <2>4. entry[i] \in [Names -> Inodes \cup {None}]
    BY <1>5
  <2>5. entry[i] = NoEntries
    BY <2>3, <2>4 DEF NoEntries
  <2> QED BY <1>1, <2>1, <2>2, <2>5 DEF Inv, DotsInv
<1>8. /\ m.pc = "c_lock" /\ m.call = l.call /\ m.rest = l.rest /\ m.new = l.new
      /\ m.cur = l.cur /\ m.dp = l.dp /\ m.ip = i /\ m.rel = l.rel
  BY <1>1, <1>3
<1>9. Moves(p)
  <2>1. loc' = [q \in Procs |-> IF q = p THEN loc'[p] ELSE loc[q]]
    BY <1>1, <1>3
  <2>2. m = [pc |-> m.pc, call |-> m.call, rest |-> m.rest, new |-> m.new, cur |-> m.cur,
             dp |-> m.dp, ip |-> m.ip, rel |-> m.rel]
    BY <1>1, <1>3 DEF Locs
  <2> QED BY <2>1, <2>2 DEF Moves
<1>10. /\ \A D, j : ~HeadIs(m, D, j)
       /\ \A j : Puts(m.rel, j) = 0 /\ Locks(m.rel, j) = 0
  BY <1>2, <1>3, <1>8 DEF HeadIs
<1> HIDE DEF m, n
<1>11. m \in Locs /\ loc' \in [Procs -> Locs] /\ \A q \in Procs \ {p} : loc'[q] = loc[q]
  <2>1. m.pc \in PCs
    BY <1>8 DEF PCs
  <2> QED BY <1>3, <1>4, <1>8, <1>9, <2>1, Moved DEF Inv, Locs, m
<1>12. WellFormed(m, file[p])
  <2>1. /\ m.pc \notin WalkPcs /\ m.pc \in DpLocked /\ m.pc \in NewPcs /\ m.pc \in IpPcs
        /\ l.pc \notin WalkPcs /\ l.pc \in DpLocked
    BY <1>2, <1>8 DEF DpLocked, IpPcs, IpLocked, NewPcs, WalkPcs
  <2>2. m.pc = "c_lock" /\ m.cur = None /\ m.dp # None /\ m.ip # None /\ m.rel = <<>> /\ Len(m.rest) = 1
        /\ m.call \in {"create", "mkdir"}
    BY <1>2, <1>4, <1>8, Constants
  <2> QED BY <2>1, <2>2, RelEmpty DEF WellFormed
<1>13. \A j \in Inodes : Holds(m, file[p], j) = Holds(l, file[p], j) + One(i = j)
  BY <1>3, <1>4, <1>8, <1>10, Constants DEF Holds, One
<1>14. \A j \in Inodes : Claims(m, j) = Claims(l, j) + One(None = j)
  BY <1>2, <1>3, <1>4, <1>8, <1>10, Constants DEF Claims, One, DpLocked, IpLocked, NewPcs
<1>15. Igets(i) /\ Ilocks(p, None) /\ valid' = valid
  BY <1>1, <1>2, IgetSome, IlockNone DEF Inv, iget
<1>16. Frame(p) /\ Accounts(p) /\ LocksMove(p)
  <2>1. Frame(p)
    BY <1>2, <1>11, <1>12 DEF Frame, Inv, Base, TypeInv, m
  <2>2. Accounts(p) /\ LocksMove(p)
    BY <1>2, <1>13, <1>14, <1>15, Locally DEF Inv, m
  <2> QED BY <2>1, <2>2
<1>17. \A j \in Inodes : /\ type'[j] = IF j = i THEN (IF l.call = "mkdir" THEN "dir" ELSE "file") ELSE type[j]
                         /\ ref'[j] = IF j = i THEN ref[j] + 1 ELSE ref[j]
                         /\ ref[j] \in Nat
  <2>1. \A j \in Inodes : type'[j] = IF j = i THEN (IF l.call = "mkdir" THEN "dir" ELSE "file") ELSE type[j]
    BY <1>1, <1>5
  <2>2. \A j \in Inodes : ref'[j] = IF j = i THEN ref[j] + 1 ELSE ref[j]
    BY <1>5, <1>15 DEF Igets, One
  <2> QED BY <1>5, <2>1, <2>2
<1>18. TypeInv'
  <2>1. type' \in [Inodes -> {"free", "file", "dir"}]
    BY <1>1, <1>5
  <2> QED BY <1>2, <1>6, <1>15, <1>16, <2>1 DEF Inv, Base, TypeInv, Frame, LocksMove, Accounts
<1>19. Holds(l, file[p], i) = 0
  <2>1. Holds(l, file[p], i) \in Nat /\ ~(Holds(l, file[p], i) >= 1)
    BY <1>1, <1>3, HoldsType DEF Inv, NonFree
  <2> QED BY <2>1
<1>20. ASSUME NEW q \in Procs \ {p} PROVE loc[q].cur # i /\ loc[q].dp # i /\ loc[q].ip # i
  <2> SUFFICES ASSUME loc[q].cur = i \/ loc[q].dp = i \/ loc[q].ip = i PROVE FALSE
    OBVIOUS
  <2>1. Holds(loc[q], file[q], i) >= 1
    <3>1. /\ One(loc[q].cur = i) \in Nat /\ One(loc[q].dp = i) \in Nat /\ One(loc[q].ip = i) \in Nat
          /\ One(file[q] = i) \in Nat /\ Puts(loc[q].rel, i) \in Nat
      BY OneNat, CountType DEF Puts
    <3>2. One(loc[q].cur = i) = 1 \/ One(loc[q].dp = i) = 1 \/ One(loc[q].ip = i) = 1
      BY DEF One
    <3> QED BY <3>1, <3>2 DEF Holds
  <2>2. HeadIs(loc[q], {"done"}, i)
    BY <1>1, <2>1 DEF Inv, NonFree
  <2>3. Holds(loc[q], file[q], i) >= 2
    <3>1. loc[q].rel \in Seq(Releases) /\ {"done"} \subseteq Last \cup {"put"}
      BY LocType DEF Inv, Base, Last
    <3> QED BY <2>2, <3>1, HeadHolds
  <2>4. Private(loc[q], i)
    BY <2>2 DEF Private, HeadIs, Last
  <2>5. Holds(loc[q], file[q], i) = 1
    BY <2>4 DEF Inv, PrivateInv
  <2> QED BY <2>3, <2>5
<1>21. Gains(p) /\ Ends(p) /\ Waits(p)
  BY <1>1, <1>2, <1>3, <1>8, <1>17 DEF Gains, Ends, Waits, m
<1>22. Types(p)
  BY <1>8, <1>17, <1>20, <1>1 DEF Types, m
<1>23. Touches(p)
  BY <1>2, <1>6 DEF Touches, Named
<1>24. Fresh(p)
  <2>1. \A j \in Inodes : Private(m, j) => j = i
    BY <1>8, <1>10 DEF Private
  <2>2. PrivateOwn(loc[p], file[p], i)'
    <3>1. Holds(m, file'[p], i) = 1
      <4>1. One(i = i) = 1
        BY DEF One
      <4> QED BY <1>2, <1>13, <1>19, <4>1
    <3>2. i # ROOTINO /\ ~Named(i)' /\ nlink'[i] = 0 /\ entry'[i] = NoEntries
      BY <1>2, <1>6, <1>7 DEF Named
    <3>3. ~HeadIs(m, {"free"}, i)
      BY <1>10
    <3> QED BY <3>1, <3>2 DEF PrivateOwn, m
  <2>3. \A j \in Inodes : ~HeadIs(m, {"done"}, j)
    BY <1>10
  <2> QED BY <1>1, <1>8, <2>1, <2>2, <2>3 DEF Fresh, PrivateOwn, m
<1>25. DotsOwn(p)
  BY <1>2, <1>7, <1>8, <1>10, <1>17 DEF DotsOwn, Inv, DotsInv, m
<1>26. (Kind(l) /\ Look(l))'
  <2>1. Kind(l)'
    <3>1. m.pc \notin WalkPcs \cup {"link_dir", "bad", "bad_locked"} /\ m.pc # "got"
      BY <1>8 DEF WalkPcs
    <3> QED BY <1>4, <1>8, <1>17, <3>1 DEF Kind, m
  <2>2. Look(l)'
    BY <1>2, <1>4, <1>8 DEF Look, m
  <2> QED BY <2>1, <2>2
<1>27. NamesInv'
  <2>1. type'[ROOTINO] = "dir"
    BY <1>7, <1>17, Constants DEF Inv, NamesInv
  <2>2. ASSUME NEW d \in Inodes, NEW k \in Names, entry'[d][k] # None
        PROVE  type'[d] = "dir" /\ type'[entry'[d][k]] # "free" /\ entry'[d][k] # ROOTINO
    <3>1. entry'[d][k] = entry[d][k] /\ entry[d][k] \in Inodes /\ entry[d][k] # i /\ type[d] = "dir"
          /\ type[entry[d][k]] # "free" /\ entry[d][k] # ROOTINO
      BY <1>2, <1>5, <1>7, <2>2 DEF Inv, NamesInv, Named
    <3> QED BY <1>1, <1>17, <3>1
  <2>3. \A j \in Inodes : type'[j] = "free" => nlink'[j] = 0
    BY <1>6, <1>17 DEF Inv, NamesInv
  <2> QED BY <2>1, <2>2, <2>3 DEF NamesInv
<1>28. ASSUME NEW j \in Inodes
       PROVE  ~PendIp(l, j) /\ ~PendIp(m, j) /\ ~PendDp(l, j) /\ ~PendDp(l, j)'
  BY <1>2, <1>4, <1>8, Constants DEF PendIp, PendDp, NewPcs, WalkPcs, m
<1>29. ASSUME NEW j \in Inodes PROVE Subs(entry'[j], type') = Subs(entry[j], type)
  <2>1. \A k \in Names : entry[j][k] # None => entry[j][k] \in Inodes /\ entry[j][k] # i
    BY <1>5, <1>7 DEF Named
  <2>2. \A k \in Names : entry[j][k] # None => type'[entry[j][k]] = type[entry[j][k]]
    BY <1>17, <2>1
  <2> QED BY <1>2, <2>2 DEF Subs
<1>30. CountInv'
  <2>1. ASSUME NEW j \in Inodes PROVE Had(p, j) = HasNow(p, j) /\ Had(p, j) \in Nat
    <3>1. /\ One(PendIp(l, j)) = 0 /\ One(PendIp(m, j)) = 0 /\ One(PendDp(l, j)) = 0 /\ One(PendDp(l, j)') = 0
      BY <1>28 DEF One
    <3>2. PICK e, s \in Nat : e = Cardinality(Entries(entry, j)) /\ s = Cardinality(Subs(entry[j], type))
      BY EntriesType, SubsType
    <3>3. e = Cardinality(Entries(entry', j)) /\ s = Cardinality(Subs(entry'[j], type'))
      BY <1>2, <1>29, <3>2
    <3> QED BY <3>1, <3>2, <3>3 DEF Had, HasNow, m
  <2>2. ASSUME NEW j \in Inodes
        PROVE  /\ nlink'[j] + Had(p, j) >= nlink[j] + HasNow(p, j)
               /\ j \notin strays' => nlink'[j] + Had(p, j) = nlink[j] + HasNow(p, j)
    BY <1>5, <1>6, <2>1
  <2> QED BY <1>2, <1>16, <1>18, <1>22, <1>27, <2>2, CountStep
<1>31. DirOnce'
  <2> SUFFICES ASSUME NEW j \in Inodes, type'[j] = "dir"
               PROVE  Cardinality(Links(j)') + Pending(j)' <= 1
    BY DEF DirOnce
  <2>1. Links(j)' = Entries(entry', j) /\ Links(j) = Entries(entry, j)
    <3>1. TypeInv' /\ NamesInv' => LinksAre'
      BY LinksEntries, PTL
    <3> QED BY <1>18, <1>27, <3>1, LinksEntries DEF Inv, Base, LinksAre
  <2>2. Links(j)' = Links(j)
    BY <1>2, <2>1
  <2>3. Pending(j)' = Pending(j)
    <3>1. One(PendIp(loc[p], j)) = 0 /\ One(PendIp(loc'[p], j)) = 0
      BY <1>28 DEF One, m
    <3> QED BY <1>16, <1>22, <3>1, PendStep
  <2>4. CASE j = i
    <3>1. Cardinality(Links(j)) = 0 /\ Pending(j) = 0
      BY <1>6, <2>1, <2>4, CountFacts
    <3> QED BY <2>2, <2>3, <3>1
  <2>5. CASE j # i
    BY <1>17, <2>2, <2>3, <2>5 DEF Inv, DirOnce
  <2> QED BY <2>4, <2>5
<1>32. StraysInv'
  BY <1>2 DEF Inv, StraysInv, Named
<1>33. Doomed'
  <2> SUFFICES ASSUME NEW j \in Inodes, type'[j] # "free", nlink'[j] = 0, j \notin damaged'
               PROVE  ref'[j] >= 1 /\ (valid'[j] \/ \E q \in Procs : loc'[q].pc = "c_lock" /\ loc'[q].ip = j)
    BY DEF Doomed
  <2>1. CASE j = i
    BY <1>8, <1>17, <2>1 DEF m
  <2>2. CASE j # i
    <3>1. type[j] # "free" /\ nlink[j] = 0 /\ j \notin damaged /\ ref'[j] \in Nat /\ ref'[j] >= ref[j]
      BY <1>2, <1>6, <1>17, <2>2
    <3> QED BY <1>2, <1>15, <1>16, <3>1, DoomedStep
  <2> QED BY <2>1, <2>2
<1>34. ValidInv'
  BY <1>2, <1>15 DEF Inv, ValidInv
<1> QED BY <1>16, <1>18, <1>21, <1>22, <1>23, <1>24, <1>25, <1>26, <1>27, <1>30, <1>31, <1>32, <1>33, <1>34 DEF Good

-----------------------------------------------------------------------------
(* One release: what is left of the list, and what p holds and has locked. *)
Released(p, s) ==
  /\ Frame(p) /\ loc'[p].rel = s /\ file' = file
  /\ loc'[p].pc = loc[p].pc /\ loc'[p].call = loc[p].call /\ loc'[p].rest = loc[p].rest
  /\ loc'[p].cur = loc[p].cur /\ loc'[p].dp = loc[p].dp /\ loc'[p].ip = loc[p].ip
  /\ loc[p].pc \in RelPcs /\ loc[p].pc \notin NewPcs /\ loc[p].dp = None
  /\ \A j \in Inodes :
       /\ Holds(loc'[p], file[p], j) + Puts(loc[p].rel, j) = Holds(loc[p], file[p], j) + Puts(s, j)
       /\ Claims(loc'[p], j) + Locks(loc[p].rel, j) = Claims(loc[p], j) + Locks(s, j)
       /\ PendIp(loc'[p], j) <=> PendIp(loc[p], j)
       /\ ~PendDp(loc[p], j) /\ ~PendDp(loc'[p], j) /\ ~PendDp(loc[p], j)'

(* Taking one release off the list, or putting the next step of a last *)
(* iput() there.                                                       *)
LEMMA Releasing ==
  ASSUME Inv, NEW p \in Procs, loc[p].rel # <<>>, NEW s \in Seq(Releases), Tidy(s),
         Len(s) = 1 => s[1].do # "unlock", loc' = [loc EXCEPT ![p].rel = s], file' = file
  PROVE  Released(p, s)
<1> DEFINE l == loc[p]
           m == loc'[p]
<1>1. /\ WellFormed(l, file[p]) /\ l \in Locs /\ loc \in [Procs -> Locs] /\ file \in [Procs -> Inodes \cup {None}]
  BY LocType DEF Inv, Base, WFInv, TypeInv
<1>2. /\ m.pc = l.pc /\ m.call = l.call /\ m.rest = l.rest /\ m.new = l.new
      /\ m.cur = l.cur /\ m.dp = l.dp /\ m.ip = l.ip /\ m.rel = s
  BY <1>1
<1>3. Moves(p)
  <2>1. loc' = [q \in Procs |-> IF q = p THEN loc'[p] ELSE loc[q]]
    BY <1>1
  <2>2. m = [pc |-> m.pc, call |-> m.call, rest |-> m.rest, new |-> m.new, cur |-> m.cur,
             dp |-> m.dp, ip |-> m.ip, rel |-> m.rel]
    BY <1>1 DEF Locs
  <2> QED BY <2>1, <2>2 DEF Moves
<1>4. l.pc \in RelPcs
  BY <1>1 DEF WellFormed
<1>5. /\ l.pc \notin NewPcs /\ l.pc \notin DpLocked /\ l.pc # "u_parent"
  BY <1>4 DEF RelPcs, NewPcs, DpLocked
<1>6. l.dp = None
  BY <1>1, <1>5 DEF WellFormed
<1> HIDE DEF m
<1>7. m \in Locs /\ loc' \in [Procs -> Locs] /\ \A q \in Procs \ {p} : loc'[q] = loc[q]
  BY <1>1, <1>2, <1>3, Moved DEF Inv, Locs, m
<1>8. WellFormed(m, file[p])
  <2>1. Tidy(m.rel) /\ (Len(m.rel) = 1 => m.rel[1].do # "unlock") /\ m.pc \in RelPcs
    BY <1>2, <1>4
  <2>2. /\ m.cur # None <=> m.pc \in {"walk", "walked", "got"}
        /\ m.dp # None <=> m.pc \in DpLocked
        /\ m.pc \in IpPcs => m.ip # None
        /\ m.ip # None => m.pc \in IpPcs \/ (m.pc \in WalkPcs /\ m.call = "link")
        /\ m.pc \in NewPcs \cup {"create", "found", "found_locked"} => m.call \in {"create", "mkdir"}
        /\ m.pc \in {"c_dots", "c_dot", "c_dotdot"} => m.call = "mkdir"
        /\ m.pc \in {"link", "link_dir", "bad", "bad_locked"} => m.call = "link"
    BY <1>1, <1>2 DEF WellFormed
  <2>3. /\ m.pc \in {"walk", "walked"} => Len(m.rest) >= 1
        /\ m.pc \in DpLocked \/ (m.pc = "got" /\ Wants(m)) => Len(m.rest) = 1
        /\ m.call = "link" => Len(m.new) >= 1
    BY <1>1, <1>2 DEF WellFormed, Wants
  <2> QED BY <2>1, <2>2, <2>3 DEF WellFormed
<1>9. Frame(p)
  BY <1>1, <1>7, <1>8 DEF Frame, m
<1>10. ASSUME NEW j \in Inodes
       PROVE  /\ Holds(m, file[p], j) + Puts(l.rel, j) = Holds(l, file[p], j) + Puts(s, j)
              /\ Claims(m, j) + Locks(l.rel, j) = Claims(l, j) + Locks(s, j)
  <2>1. /\ One(l.cur = j) \in Nat /\ One(l.dp = j) \in Nat /\ One(l.ip = j) \in Nat
        /\ One(file[p] = j) \in Nat /\ Puts(l.rel, j) \in Nat /\ Puts(s, j) \in Nat
        /\ One(l.pc = "walked" /\ l.cur = j) \in Nat /\ One(l.pc \in DpLocked /\ l.dp = j) \in Nat
        /\ One(l.pc \in IpLocked /\ l.ip = j) \in Nat /\ Locks(l.rel, j) \in Nat /\ Locks(s, j) \in Nat
    BY OneNat, CountType DEF Puts, Locks
  <2>2. /\ Holds(m, file[p], j) = One(l.cur = j) + One(l.dp = j) + One(l.ip = j) + One(file[p] = j) + Puts(s, j)
        /\ Holds(l, file[p], j) = One(l.cur = j) + One(l.dp = j) + One(l.ip = j) + One(file[p] = j) + Puts(l.rel, j)
    BY <1>2 DEF Holds
  <2>3. /\ Claims(m, j) = One(l.pc = "walked" /\ l.cur = j) + One(l.pc \in DpLocked /\ l.dp = j)
                          + One(l.pc \in IpLocked /\ l.ip = j) + Locks(s, j)
        /\ Claims(l, j) = One(l.pc = "walked" /\ l.cur = j) + One(l.pc \in DpLocked /\ l.dp = j)
                          + One(l.pc \in IpLocked /\ l.ip = j) + Locks(l.rel, j)
    BY <1>2 DEF Claims
  <2>4. /\ Holds(m, file[p], j) \in Nat /\ Holds(l, file[p], j) \in Nat
        /\ Claims(m, j) \in Nat /\ Claims(l, j) \in Nat
    BY HoldsType, ClaimsType
  <2> HIDE DEF l
  <2>5. Holds(m, file[p], j) + Puts(l.rel, j) = Holds(l, file[p], j) + Puts(s, j)
    <3>1. PICK a, b, c, d, r, t, x, y \in Nat :
            /\ a = One(l.cur = j) /\ b = One(l.dp = j) /\ c = One(l.ip = j) /\ d = One(file[p] = j)
            /\ r = Puts(l.rel, j) /\ t = Puts(s, j)
            /\ x = Holds(m, file[p], j) /\ y = Holds(l, file[p], j)
      BY <2>1, <2>4
    <3>2. x = a + b + c + d + t /\ y = a + b + c + d + r
      BY <2>2, <3>1
    <3>3. x + r = y + t
      BY <3>2
    <3> QED BY <3>1, <3>3
  <2>6. Claims(m, j) + Locks(l.rel, j) = Claims(l, j) + Locks(s, j)
    <3>1. PICK a, b, c, r, t, x, y \in Nat :
            /\ a = One(l.pc = "walked" /\ l.cur = j) /\ b = One(l.pc \in DpLocked /\ l.dp = j)
            /\ c = One(l.pc \in IpLocked /\ l.ip = j)
            /\ r = Locks(l.rel, j) /\ t = Locks(s, j)
            /\ x = Claims(m, j) /\ y = Claims(l, j)
      BY <2>1, <2>4
    <3>2. x = a + b + c + t /\ y = a + b + c + r
      BY <2>3, <3>1
    <3>3. x + r = y + t
      BY <3>2
    <3> QED BY <3>1, <3>3
  <2> QED BY <2>5, <2>6
<1>11. \A j \in Inodes : /\ PendIp(m, j) <=> PendIp(l, j)
                         /\ ~PendDp(l, j) /\ ~PendDp(m, j) /\ ~PendDp(l, j)'
  BY <1>2, <1>5, <1>6, Constants DEF PendIp, PendDp, m
<1> QED BY <1>2, <1>4, <1>5, <1>6, <1>9, <1>10, <1>11 DEF Released, m

(* Releases that leave the disk alone. *)
LEMMA ReleaseGood ==
  ASSUME Inv, NEW p \in Procs, NEW s, Released(p, s), Accounts(p), LocksMove(p),
         UNCHANGED <<type, nlink, entry, dots, strays, crashes, damaged>>,
         valid' \in [Inodes -> BOOLEAN],
         \A j \in Inodes :
           /\ ref'[j] <= ref[j]
           /\ ~HeadIs(loc'[p], {"free", "done"}, j)
           /\ HeadIs(loc'[p], {"trunc"}, j) =>
                /\ Holds(loc'[p], file[p], j) = 1 /\ nlink[j] = 0
                /\ \A q \in Procs \ {p} : Holds(loc[q], file[q], j) = 0
           /\ HeadIs(loc[p], {"done"}, j) => Holds(loc'[p], file[p], j) = 0,
         Doomed', ValidInv'
  PROVE  Good(p)
<1>1. TypeInv'
  BY DEF Inv, Base, TypeInv, Accounts, LocksMove, Frame, Released
<1>2. NamesInv' /\ CountInv' /\ DirOnce' /\ StraysInv'
  <2>1. ASSUME NEW i \in Inodes
        PROVE  nlink'[i] + One(PendIp(loc[p], i)) + One(PendDp(loc[p], i))
                             = nlink[i] + One(PendIp(loc'[p], i)) + One(PendDp(loc[p], i)')
    <3>1. One(PendIp(loc[p], i)) = One(PendIp(loc'[p], i)) /\ One(PendDp(loc[p], i)) = One(PendDp(loc[p], i)')
      BY DEF One, Released
    <3> QED BY <3>1
  <2>2. \A i \in Inodes : type[i] = "dir" /\ PendIp(loc'[p], i) => PendIp(loc[p], i) \/ nlink[i] = 0
    BY DEF Released
  <2> QED BY <1>1, <2>1, <2>2, NlinkStep DEF Released
<1>3. Gains(p) /\ Ends(p) /\ Types(p) /\ Waits(p)
  <2>1. \A i \in Inodes : ~(ref'[i] > ref[i])
    BY DEF Inv, Base, TypeInv, Accounts
  <2>2. loc[p].pc # "c_lock"
    BY DEF Released, NewPcs
  <2>3. file' = file
    BY DEF Released
  <2> QED BY <2>1, <2>2, <2>3 DEF Gains, Ends, Types, Waits
<1>4. Touches(p)
  BY DEF Touches, Named
<1>5. Fresh(p)
  <2>1. /\ file' = file /\ loc'[p].pc \notin NewPcs
    BY DEF Released
  <2>2. ASSUME NEW j \in Inodes, Private(loc'[p], j)
        PROVE  /\ PrivateOwn(loc[p], file[p], j)'
               /\ \A q \in Procs \ {p} : Holds(loc[q], file[q], j) = 0
    <3>1. HeadIs(loc'[p], {"trunc"}, j)
      BY <2>1, <2>2 DEF Private, HeadIs, Last
    <3>2. /\ Holds(loc'[p], file[p], j) = 1 /\ nlink[j] = 0
          /\ \A q \in Procs \ {p} : Holds(loc[q], file[q], j) = 0
      BY <3>1
    <3>3. j # ROOTINO /\ ~Named(j)
      BY <3>2, CountFacts DEF Inv, Base, TypeInv
    <3>4. loc'[p].ip # j
      <4>1. loc'[p].rel \in Seq(Releases) /\ {"trunc"} \subseteq Last \cup {"put"}
        BY DEF Released, Frame, Locs, Last
      <4>2. loc'[p].ip = j => Holds(loc'[p], file[p], j) >= 2
        BY <3>1, <4>1, HeadHolds
      <4> QED BY <3>2, <4>2
    <3>5. ~HeadIs(loc'[p], {"free"}, j)
      BY DEF HeadIs
    <3> QED BY <2>1, <3>2, <3>3, <3>4, <3>5 DEF PrivateOwn, Named
  <2>3. \A j \in Inodes : ~HeadIs(loc'[p], {"done"}, j)
    BY DEF HeadIs
  <2> QED BY <2>2, <2>3 DEF Fresh
<1>6. DotsOwn(p)
  <2>1. loc'[p].pc \notin NewPcs /\ \A j \in Inodes : ~HeadIs(loc'[p], {"free"}, j)
    BY DEF HeadIs, Released
  <2> QED BY <2>1 DEF DotsOwn, Inv, DotsInv, NewPcs
<1>7. (Kind(loc[p]) /\ Look(loc[p]))'
  <2>1. Kind(loc[p]) /\ Look(loc[p])
    BY DEF Inv, KindInv
  <2>2. loc[p].pc \notin NewPcs /\ loc[p].pc \notin {"u_lock", "u_check"}
    BY DEF Released, RelPcs
  <2> QED BY <2>1, <2>2 DEF Kind, Look, Wants, Released
<1> QED BY <1>1, <1>2, <1>3, <1>4, <1>5, <1>6, <1>7 DEF Good, Released

-----------------------------------------------------------------------------
(* The release at the head of the list, and the others. *)
HeadFirst(p, i, r, t) ==
  /\ Head(r) = r[1] /\ i \in Inodes /\ r[1] = [do |-> r[1].do, ino |-> i]
  /\ r \in Seq(Releases) /\ Tidy(r) /\ t \in Seq(Releases) /\ Tidy(t)
  /\ Len(t) = 1 => t[1].do # "unlock"
  /\ t # <<>> => t[1].do \notin Last
  /\ \A j : /\ Puts(r, j) = One(r[1].do # "unlock" /\ i = j) + Puts(t, j)
            /\ Locks(r, j) = One(r[1].do # "put" /\ i = j) + Locks(t, j)
            /\ Puts(t, j) \in Nat /\ Locks(t, j) \in Nat
  /\ r[1].do # "put" => busy[i] = p /\ Claims(loc[p], i) = 1
  /\ r[1].do # "unlock" => Holds(loc[p], file[p], i) >= 1
  /\ r[1].do \in Last => Private(loc[p], i)

(* What the list says of its head. *)
LEMMA HeadRelease ==
  ASSUME Inv, NEW p \in Procs, loc[p].rel # <<>>, NEW i, i = loc[p].rel[1].ino
  PROVE  HeadFirst(p, i, loc[p].rel, Tail(loc[p].rel))
<1> DEFINE r == loc[p].rel
           t == Tail(loc[p].rel)
<1>1. r \in Seq(Releases) /\ Tidy(r) /\ r # <<>>
  BY LocType DEF Inv, Base, WFInv, WellFormed
<1> HIDE DEF r
<1>2. /\ Head(r) = r[1] /\ r[1] \in Releases
      /\ Tail(r) \in Seq(Releases) /\ Len(Tail(r)) = Len(r) - 1 /\ Len(r) \in 1..4
      /\ Tidy(Tail(r))
      /\ \A k \in 1..Len(Tail(r)) : Tail(r)[k] = r[k+1] /\ Tail(r)[k].do \notin Last
      /\ \A j : /\ Puts(r, j) = One(r[1].do # "unlock" /\ r[1].ino = j) + Puts(Tail(r), j)
                /\ Locks(r, j) = One(r[1].do # "put" /\ r[1].ino = j) + Locks(Tail(r), j)
  BY <1>1, RelTail
<1>3. i = r[1].ino
  BY DEF r
<1>4. i \in Inodes /\ r[1] = [do |-> r[1].do, ino |-> i]
      /\ r[1].do \in {"unlock", "put", "trunc", "free", "done"}
  BY <1>2, <1>3 DEF Releases
<1>5. \A j : Puts(Tail(r), j) \in Nat /\ Locks(Tail(r), j) \in Nat
  BY CountType DEF Puts, Locks
<1>6. Tail(r) # <<>> => Tail(r)[1].do \notin Last
  <2>1. Tail(r) # <<>> => 1 \in 1..Len(Tail(r))
    <3>1. Tail(r) # <<>> => Len(Tail(r)) # 0
      BY <1>2, EmptySeq
    <3>2. Len(Tail(r)) \in Nat
      BY <1>2, LenProperties
    <3>3. PICK n \in Nat : n = Len(Tail(r))
      BY <3>2
    <3>4. n # 0 => 1 \in 1..n
      OBVIOUS
    <3> QED BY <3>1, <3>3, <3>4
  <2> QED BY <1>2, <2>1
<1>7. Len(Tail(r)) = 1 => Tail(r)[1].do # "unlock"
  <2> SUFFICES ASSUME Len(Tail(r)) = 1, Tail(r)[1].do = "unlock" PROVE FALSE
    OBVIOUS
  <2>1. PICK n \in 1..4 : n = Len(r)
    BY <1>2
  <2>2. n - 1 = 1
    BY <1>2, <2>1
  <2>3. n = 2
    BY <2>2
  <2>4. r[2].do = "unlock" /\ Len(r) = 2 /\ 1 \in 1..Len(Tail(r))
    <3>1. 1 \in 1..Len(Tail(r))
      <4>1. 1 \in 1..1
        OBVIOUS
      <4>2. Len(Tail(r)) = 1
        OBVIOUS
      <4> QED BY <4>1, <4>2, Zenon
    <3>2. Tail(r)[1] = r[1+1]
      BY <1>2, <3>1
    <3> QED BY <2>1, <2>3, <3>1, <3>2
  <2>5. 2 \in 1..Len(r) /\ Len(r) # 1
    BY <2>4
  <2>6. 2 < Len(r)
    BY <1>1, <2>4, <2>5 DEF Tidy
  <2> QED BY <2>4, <2>6
<1>8. r[1].do # "put" => busy[i] = p /\ Claims(loc[p], i) = 1
  <2> SUFFICES ASSUME r[1].do # "put" PROVE busy[i] = p /\ Claims(loc[p], i) = 1
    OBVIOUS
  <2>1. Locks(r, i) >= 1
    <3>1. One(r[1].do # "put" /\ r[1].ino = i) = 1
      BY <1>3 DEF One
    <3> QED BY <1>2, <1>5, <3>1
  <2>2. Locks(r, i) \in Nat
    BY CountType DEF Locks
  <2>3. Claims(loc[p], i) >= 1
    <3>1. /\ One(loc[p].pc = "walked" /\ loc[p].cur = i) \in Nat
          /\ One(loc[p].pc \in DpLocked /\ loc[p].dp = i) \in Nat
          /\ One(loc[p].pc \in IpLocked /\ loc[p].ip = i) \in Nat
      BY OneNat
    <3> QED BY <2>1, <2>2, <3>1 DEF Claims, r
  <2> QED BY <1>4, <2>3, Owner DEF Inv
<1>9. r[1].do # "unlock" => Holds(loc[p], file[p], i) >= 1
  <2> SUFFICES ASSUME r[1].do # "unlock" PROVE Holds(loc[p], file[p], i) >= 1
    OBVIOUS
  <2>1. HeadIs(loc[p], Last \cup {"put"}, i)
    BY <1>1, <1>3, <1>4 DEF HeadIs, Last, r
  <2>2. loc[p].rel \in Seq(Releases)
    BY <1>1 DEF r
  <2> QED BY <2>1, <2>2, HeadHolds
<1>10. r[1].do \in Last => Private(loc[p], i)
  BY <1>1, <1>3 DEF Private, HeadIs, r
<1>11. \A j : /\ Puts(r, j) = One(r[1].do # "unlock" /\ i = j) + Puts(Tail(r), j)
              /\ Locks(r, j) = One(r[1].do # "put" /\ i = j) + Locks(Tail(r), j)
  BY <1>2, <1>3
<1> QED BY <1>1, <1>2, <1>4, <1>5, <1>6, <1>7, <1>8, <1>9, <1>10, <1>11 DEF r, HeadFirst

(* Nobody else holds what p is about to free. *)
LEMMA FreedAlone ==
  ASSUME Inv, NEW p \in Procs, NEW i \in Inodes, HeadIs(loc[p], {"trunc", "free"}, i)
  PROVE  /\ Holds(loc[p], file[p], i) = 1 /\ i # ROOTINO /\ ~Named(i) /\ nlink[i] = 0
         /\ \A q \in Procs \ {p} : Holds(loc[q], file[q], i) = 0
         /\ loc[p].cur # i /\ loc[p].ip # i
<1>1. Private(loc[p], i)
  BY DEF Private, HeadIs, Last
<1>2. /\ Holds(loc[p], file[p], i) = 1 /\ i # ROOTINO /\ ~Named(i) /\ nlink[i] = 0
      /\ \A q \in Procs \ {p} : Holds(loc[q], file[q], i) >= 1 => Pair(p, q, i) \/ Pair(q, p, i)
  BY <1>1 DEF Inv, PrivateInv
<1>3. loc[p].rel \in Seq(Releases) /\ loc[p].rel # <<>> /\ loc[p].pc # "c_lock"
  <2>1. loc[p].rel \in Seq(Releases) /\ loc[p].rel # <<>>
    BY LocType DEF HeadIs, Inv, Base
  <2>2. loc[p].pc \in RelPcs
    BY <2>1 DEF Inv, Base, WFInv, WellFormed
  <2> QED BY <2>1, <2>2 DEF RelPcs
<1>4. \A q : ~Pair(p, q, i) /\ ~Pair(q, p, i)
  BY <1>3 DEF Pair, HeadIs
<1>5. \A q \in Procs \ {p} : Holds(loc[q], file[q], i) = 0
  <2>1. \A q \in Procs \ {p} : Holds(loc[q], file[q], i) \in Nat /\ ~(Holds(loc[q], file[q], i) >= 1)
    BY <1>2, <1>4, HoldsType
  <2> QED BY <2>1
<1>6. loc[p].cur # i /\ loc[p].ip # i
  <2>1. {"trunc", "free"} \subseteq Last \cup {"put"}
    BY DEF Last
  <2>2. loc[p].cur = i \/ loc[p].ip = i => Holds(loc[p], file[p], i) >= 2
    BY <1>3, <2>1, HeadHolds
  <2> QED BY <1>2, <2>2
<1> QED BY <1>2, <1>5, <1>6

(* iunlock() *)
LEMMA UnlockGood ==
  ASSUME Inv, NEW p \in Procs, loc[p].rel # <<>>, NEW i, i = loc[p].rel[1].ino, loc[p].rel[1].do = "unlock",
         busy' = [busy EXCEPT ![i] = Nobody], loc' = [loc EXCEPT ![p].rel = Tail(loc[p].rel)],
         UNCHANGED <<type, nlink, entry, dots, ref, valid, file, strays, crashes, damaged>>
  PROVE  Good(p)
<1> DEFINE r == loc[p].rel
           t == Tail(loc[p].rel)
<1>0. HeadFirst(p, i, r, t) /\ r[1].do = "unlock"
  BY HeadRelease
<1>1. /\ i \in Inodes /\ r \in Seq(Releases) /\ t \in Seq(Releases) /\ Tidy(t)
      /\ Len(t) = 1 => t[1].do # "unlock"
      /\ t # <<>> => t[1].do \notin Last
      /\ \A j : Puts(r, j) = Puts(t, j) /\ Locks(r, j) = One(i = j) + Locks(t, j)
      /\ \A j : Puts(t, j) \in Nat /\ Locks(t, j) \in Nat
      /\ busy[i] = p /\ Claims(loc[p], i) = 1
  <2> HIDE DEF r, t
  <2>1. /\ i \in Inodes /\ r \in Seq(Releases) /\ t \in Seq(Releases) /\ Tidy(t)
        /\ Len(t) = 1 => t[1].do # "unlock"
        /\ t # <<>> => t[1].do \notin Last
        /\ \A j : /\ Puts(r, j) = One(r[1].do # "unlock" /\ i = j) + Puts(t, j)
                  /\ Locks(r, j) = One(r[1].do # "put" /\ i = j) + Locks(t, j)
                  /\ Puts(t, j) \in Nat /\ Locks(t, j) \in Nat
        /\ r[1].do # "put" => busy[i] = p /\ Claims(loc[p], i) = 1
    BY <1>0 DEF HeadFirst
  <2>2. \A j : One(r[1].do # "unlock" /\ i = j) = 0 /\ One(r[1].do # "put" /\ i = j) = One(i = j)
    BY <1>0 DEF One
  <2> QED BY <1>0, <2>1, <2>2
<1>2. Released(p, t)
  BY <1>1, Releasing
<1> HIDE DEF r, t
<1>3. ref \in [Inodes -> Nat] /\ busy \in [Inodes -> Procs \cup {Nobody}] /\ valid \in [Inodes -> BOOLEAN]
  BY DEF Inv, Base, TypeInv
<1>4. \A j \in Inodes : busy'[j] = IF j = i THEN Nobody ELSE busy[j]
  BY <1>1, <1>3
<1>5. ASSUME NEW j \in Inodes
      PROVE  /\ Holds(loc'[p], file[p], j) = Holds(loc[p], file[p], j)
             /\ Claims(loc'[p], j) + One(i = j) = Claims(loc[p], j)
  <2>1. PICK a, b, c, d, u, v, o \in Nat :
          /\ a = Holds(loc'[p], file[p], j) /\ b = Holds(loc[p], file[p], j)
          /\ c = Claims(loc'[p], j) /\ d = Claims(loc[p], j)
          /\ u = Puts(t, j) /\ v = Locks(t, j) /\ o = One(i = j)
    BY <1>1, HoldsType, ClaimsType, OneNat
  <2>2. /\ a + Puts(r, j) = b + Puts(t, j) /\ c + Locks(r, j) = d + Locks(t, j)
    BY <1>2, <2>1 DEF Released, r
  <2>3. a + u = b + u /\ c + (o + v) = d + v
    BY <1>1, <2>1, <2>2
  <2>4. a = b /\ c + o = d
    BY <2>3
  <2> QED BY <2>1, <2>4
<1>6. Accounts(p)
  <2>1. \A j \in Inodes : Holds(loc'[p], file'[p], j) = Holds(loc[p], file[p], j) /\ Holds(loc[p], file[p], j) \in Nat
    BY <1>5, HoldsType
  <2> QED BY <1>3, <2>1 DEF Accounts
<1>7. LocksMove(p)
  <2>1. ASSUME NEW j \in Inodes PROVE Claims(loc'[p], j) = One(busy'[j] = p)
    <3>1. Claims(loc[p], j) = One(busy[j] = p) /\ Claims(loc'[p], j) \in Nat
      BY ClaimsType DEF Inv, Base, LockInv
    <3>2. CASE j = i
      <4>1. One(i = j) = 1 /\ Claims(loc[p], j) = 1
        BY <1>1, <3>2 DEF One
      <4>2. Claims(loc'[p], j) = 0
        BY <1>5, <3>1, <4>1
      <4>3. busy'[j] # p
        BY <1>4, <3>2, Constants
      <4> QED BY <4>2, <4>3 DEF One
    <3>3. CASE j # i
      <4>1. One(i = j) = 0 /\ busy'[j] = busy[j]
        BY <1>4, <3>3 DEF One
      <4>2. Claims(loc'[p], j) = Claims(loc[p], j)
        <5>1. PICK c, d \in Nat : c = Claims(loc'[p], j) /\ d = Claims(loc[p], j)
          BY <3>1, ClaimsType
        <5>2. c + 0 = d
          BY <1>5, <4>1, <5>1
        <5> QED BY <5>1, <5>2
      <4> QED BY <3>1, <4>1, <4>2
    <3> QED BY <3>2, <3>3
  <2>2. ASSUME NEW j \in Inodes, NEW q \in Procs \ {p} PROVE busy'[j] = q <=> busy[j] = q
    BY <1>1, <1>4, Constants
  <2>3. busy' \in [Inodes -> Procs \cup {Nobody}]
    BY <1>3
  <2> QED BY <2>1, <2>2, <2>3 DEF LocksMove
<1>8. /\ \A j \in Inodes : ref'[j] <= ref[j]
      /\ \A j : ~HeadIs(loc'[p], Last, j) /\ ~HeadIs(loc[p], {"done"}, j)
  <2>1. \A j \in Inodes : ref'[j] <= ref[j]
    BY <1>3
  <2> QED BY <1>1, <1>2, <2>1 DEF HeadIs, Released
<1>9. ValidInv'
  BY <1>4 DEF Inv, ValidInv
<1>10. Doomed'
  <2> SUFFICES ASSUME NEW j \in Inodes, type[j] # "free", nlink[j] = 0, j \notin damaged
               PROVE  ref'[j] >= 1 /\ (valid'[j] \/ \E q \in Procs : loc'[q].pc = "c_lock" /\ loc'[q].ip = j)
    BY DEF Doomed
  <2>1. ref'[j] \in Nat /\ ref'[j] >= ref[j]
    BY <1>3
  <2> QED BY <1>2, <2>1, DoomedStep DEF Released, NewPcs
<1>11. \A j \in Inodes : ~HeadIs(loc'[p], {"free", "done"}, j) /\ ~HeadIs(loc'[p], {"trunc"}, j)
  BY <1>8 DEF HeadIs, Last
<1> QED BY <1>2, <1>3, <1>6, <1>7, <1>8, <1>9, <1>10, <1>11, ReleaseGood

(* iput() of a reference that is not the last *)
LEMMA PutGood ==
  ASSUME Inv, NEW p \in Procs, loc[p].rel # <<>>, NEW i, i = loc[p].rel[1].ino, loc[p].rel[1].do = "put",
         ~LastReference(i), ref' = [ref EXCEPT ![i] = @ - 1],
         valid' = [valid EXCEPT ![i] = @ /\ ref[i] > 1], loc' = [loc EXCEPT ![p].rel = Tail(loc[p].rel)],
         UNCHANGED <<type, nlink, entry, dots, busy, file, strays, crashes, damaged>>
  PROVE  Good(p)
<1> DEFINE r == loc[p].rel
           t == Tail(loc[p].rel)
<1>0. HeadFirst(p, i, r, t) /\ r[1].do = "put"
  BY HeadRelease
<1>1. /\ i \in Inodes /\ r \in Seq(Releases) /\ t \in Seq(Releases) /\ Tidy(t)
      /\ Len(t) = 1 => t[1].do # "unlock"
      /\ t # <<>> => t[1].do \notin Last
      /\ \A j : Puts(r, j) = One(i = j) + Puts(t, j) /\ Locks(r, j) = Locks(t, j)
      /\ \A j : Puts(t, j) \in Nat /\ Locks(t, j) \in Nat
      /\ Holds(loc[p], file[p], i) >= 1
  <2> HIDE DEF r, t
  <2>1. /\ i \in Inodes /\ r \in Seq(Releases) /\ t \in Seq(Releases) /\ Tidy(t)
        /\ Len(t) = 1 => t[1].do # "unlock"
        /\ t # <<>> => t[1].do \notin Last
        /\ \A j : /\ Puts(r, j) = One(r[1].do # "unlock" /\ i = j) + Puts(t, j)
                  /\ Locks(r, j) = One(r[1].do # "put" /\ i = j) + Locks(t, j)
                  /\ Puts(t, j) \in Nat /\ Locks(t, j) \in Nat
        /\ r[1].do # "unlock" => Holds(loc[p], file[p], i) >= 1
    BY <1>0 DEF HeadFirst
  <2>2. \A j : One(r[1].do # "unlock" /\ i = j) = One(i = j) /\ One(r[1].do # "put" /\ i = j) = 0
    BY <1>0 DEF One
  <2> QED BY <1>0, <2>1, <2>2
<1>2. Released(p, t)
  BY <1>1, Releasing
<1>12. HeadIs(loc[p], {"put"}, i)
  BY DEF HeadIs
<1> HIDE DEF r, t
<1>3. ref \in [Inodes -> Nat] /\ busy \in [Inodes -> Procs \cup {Nobody}] /\ valid \in [Inodes -> BOOLEAN]
  BY DEF Inv, Base, TypeInv
<1>4. /\ ref[i] \in Nat /\ ref[i] >= 1
      /\ ref[i] = 1 => Holds(loc[p], file[p], i) = 1 /\ \A q \in Procs \ {p} : Holds(loc[q], file[q], i) = 0
  <2>1. /\ ref[i] \in Nat /\ ref[i] >= Holds(loc[p], file[p], i)
        /\ \A q \in Procs \ {p} : ref[i] >= Holds(loc[p], file[p], i) + Holds(loc[q], file[q], i)
    BY <1>1, RefHolds DEF Inv
  <2>2. Holds(loc[p], file[p], i) \in Nat /\ \A q \in Procs \ {p} : Holds(loc[q], file[q], i) \in Nat
    BY HoldsType
  <2> QED BY <1>1, <2>1, <2>2
<1>5. /\ ref' \in [Inodes -> Nat] /\ valid' \in [Inodes -> BOOLEAN]
      /\ \A j \in Inodes : ref'[j] = IF j = i THEN ref[i] - 1 ELSE ref[j]
      /\ \A j \in Inodes : valid'[j] <=> IF j = i THEN valid[i] /\ ref[i] > 1 ELSE valid[j]
  <2>1. \A j \in Inodes : ref'[j] = IF j = i THEN ref[i] - 1 ELSE ref[j]
    BY <1>1, <1>3
  <2>2. ref[i] - 1 \in Nat
    BY <1>4
  <2>3. ref' \in [Inodes -> Nat]
    BY <1>3, <2>2
  <2>4. \A j \in Inodes : valid'[j] <=> IF j = i THEN valid[i] /\ ref[i] > 1 ELSE valid[j]
    BY <1>1, <1>3
  <2>5. valid' \in [Inodes -> BOOLEAN]
    BY <1>3
  <2> QED BY <2>1, <2>3, <2>4, <2>5
<1>6. ASSUME NEW j \in Inodes
      PROVE  /\ Holds(loc'[p], file[p], j) + One(i = j) = Holds(loc[p], file[p], j)
             /\ Claims(loc'[p], j) = Claims(loc[p], j)
  <2>1. PICK a, b, c, d, u, v, o \in Nat :
          /\ a = Holds(loc'[p], file[p], j) /\ b = Holds(loc[p], file[p], j)
          /\ c = Claims(loc'[p], j) /\ d = Claims(loc[p], j)
          /\ u = Puts(t, j) /\ v = Locks(t, j) /\ o = One(i = j)
    BY <1>1, HoldsType, ClaimsType, OneNat
  <2>2. /\ a + Puts(r, j) = b + Puts(t, j) /\ c + Locks(r, j) = d + Locks(t, j)
    BY <1>2, <2>1 DEF Released, r
  <2>3. a + (o + u) = b + u /\ c + v = d + v
    BY <1>1, <2>1, <2>2
  <2>4. a + o = b /\ c = d
    BY <2>3
  <2> QED BY <2>1, <2>4
<1>7. Accounts(p)
  <2>1. ASSUME NEW j \in Inodes
        PROVE  ref'[j] + Holds(loc[p], file[p], j) = ref[j] + Holds(loc'[p], file[p], j)
    <3>1. PICK a, b, o, n \in Nat : /\ a = Holds(loc'[p], file[p], j) /\ b = Holds(loc[p], file[p], j)
                                    /\ o = One(i = j) /\ n = ref[j]
      BY <1>3, HoldsType, OneNat
    <3>2. a + o = b
      BY <1>6, <3>1
    <3>3. ref'[j] = n - o
      BY <1>5, <3>1 DEF One
    <3> QED BY <3>1, <3>2, <3>3
  <2> QED BY <1>5, <2>1 DEF Accounts
<1>8. LocksMove(p)
  BY <1>3, <1>6 DEF LocksMove, Inv, Base, LockInv
<1>9. ValidInv'
  <2> SUFFICES ASSUME NEW j \in Inodes, busy[j] # Nobody PROVE valid'[j]
    BY DEF ValidInv
  <2>1. valid[j]
    BY DEF Inv, ValidInv
  <2>2. CASE j = i
    <3>1. PICK q \in Procs : busy[i] = q
      BY <1>1, <1>3, <2>2
    <3>2. Holds(loc[q], file[q], i) >= 1 /\ (q = p => Holds(loc[p], file[p], i) >= 2)
      BY <1>1, <1>12, <3>1, Owner DEF Inv
    <3>3. ref[i] # 1
      BY <1>4, <3>2
    <3>4. ref[i] > 1
      BY <1>4, <3>3
    <3> QED BY <1>5, <2>1, <2>2, <3>4
  <2>3. CASE j # i
    BY <1>5, <2>1, <2>3
  <2> QED BY <2>2, <2>3
<1>10. Doomed'
  <2> SUFFICES ASSUME NEW j \in Inodes, type[j] # "free", nlink[j] = 0, j \notin damaged
               PROVE  ref'[j] >= 1 /\ (valid'[j] \/ \E q \in Procs : loc'[q].pc = "c_lock" /\ loc'[q].ip = j)
    BY DEF Doomed
  <2>1. CASE j = i
    <3>1. valid[i] \/ \E q \in Procs : loc[q].pc = "c_lock" /\ loc[q].ip = i
      BY <2>1 DEF Inv, Doomed
    <3>2. \A q \in Procs : loc[q].pc = "c_lock" => q # p /\ loc'[q] = loc[q]
      BY <1>2 DEF Released, NewPcs, Frame
    <3>3. ref[i] # 1
      <4>1. CASE valid[i]
        BY <2>1, <4>1 DEF LastReference
      <4>2. ASSUME NEW q \in Procs, loc[q].pc = "c_lock", loc[q].ip = i PROVE ref[i] # 1
        <5>1. Private(loc[q], i) /\ q # p
          BY <3>2, <4>2 DEF Private, NewPcs
        <5>2. Holds(loc[q], file[q], i) = 1
          BY <1>1, <5>1 DEF Inv, PrivateInv
        <5> QED BY <1>4, <5>1, <5>2
      <4> QED BY <3>1, <4>1, <4>2
    <3>4. ref[i] > 1 /\ ref[i] - 1 >= 1
      BY <1>4, <3>3
    <3>5. ref'[i] >= 1
      BY <1>1, <1>5, <3>4
    <3>6. valid[i] => valid'[i]
      BY <1>1, <1>5, <3>4
    <3> QED BY <2>1, <3>1, <3>2, <3>5, <3>6
  <2>2. CASE j # i
    <3>1. ref'[j] \in Nat /\ ref'[j] >= ref[j] /\ (valid[j] => valid'[j])
      BY <1>3, <1>5, <2>2
    <3> QED BY <1>2, <3>1, DoomedStep DEF Released, NewPcs
  <2> QED BY <2>1, <2>2
<1>11. /\ \A j \in Inodes : ref'[j] <= ref[j]
       /\ \A j : ~HeadIs(loc'[p], Last, j) /\ ~HeadIs(loc[p], {"done"}, j)
  <2>1. ASSUME NEW j \in Inodes PROVE ref'[j] <= ref[j]
    <3>1. ref[j] \in Nat
      BY <1>3
    <3> QED BY <1>4, <1>5, <3>1
  <2>2. \A j : ~HeadIs(loc'[p], Last, j) /\ ~HeadIs(loc[p], {"done"}, j)
    BY <1>1, <1>2 DEF HeadIs, Released
  <2> QED BY <2>1, <2>2
<1>13. \A j \in Inodes : ~HeadIs(loc'[p], {"free", "done"}, j) /\ ~HeadIs(loc'[p], {"trunc"}, j)
  BY <1>11 DEF HeadIs, Last
<1> QED BY <1>2, <1>5, <1>7, <1>8, <1>9, <1>10, <1>11, <1>13, ReleaseGood

(* the last iput() of an inode without links locks it, *)
LEMMA LastPutGood ==
  ASSUME Inv, NEW p \in Procs, loc[p].rel # <<>>, NEW i, i = loc[p].rel[1].ino, loc[p].rel[1].do = "put",
         LastReference(i), busy' = [busy EXCEPT ![i] = p],
         loc' = [loc EXCEPT ![p].rel = <<[do |-> "trunc", ino |-> i]>> \o Tail(loc[p].rel)],
         UNCHANGED <<type, nlink, entry, dots, ref, valid, file, strays, crashes, damaged>>
  PROVE  Good(p)
<1> DEFINE r == loc[p].rel
           t == Tail(loc[p].rel)
           x == [do |-> "trunc", ino |-> i]
           s == <<x>> \o Tail(loc[p].rel)
<1>0. HeadFirst(p, i, r, t) /\ r[1].do = "put" /\ HeadIs(loc[p], {"put"}, i) /\ r # <<>>
  BY HeadRelease DEF HeadIs
<1>14. loc' = [loc EXCEPT ![p].rel = s]
  OBVIOUS
<1> HIDE DEF r, t
<1>1. /\ i \in Inodes /\ r \in Seq(Releases) /\ Tidy(r)
      /\ \A j : Puts(r, j) = One(i = j) + Puts(t, j) /\ Locks(r, j) = Locks(t, j)
      /\ \A j : Puts(t, j) \in Nat /\ Locks(t, j) \in Nat
      /\ Holds(loc[p], file[p], i) >= 1
  <2>1. /\ i \in Inodes /\ r \in Seq(Releases) /\ Tidy(r)
        /\ \A j : /\ Puts(r, j) = One(r[1].do # "unlock" /\ i = j) + Puts(t, j)
                  /\ Locks(r, j) = One(r[1].do # "put" /\ i = j) + Locks(t, j)
                  /\ Puts(t, j) \in Nat /\ Locks(t, j) \in Nat
        /\ r[1].do # "unlock" => Holds(loc[p], file[p], i) >= 1
    BY <1>0 DEF HeadFirst
  <2>2. \A j : One(r[1].do # "unlock" /\ i = j) = One(i = j) /\ One(r[1].do # "put" /\ i = j) = 0
    BY <1>0 DEF One
  <2> QED BY <1>0, <2>1, <2>2
<1>15. /\ s \in Seq(Releases) /\ Tidy(s) /\ s # <<>> /\ s[1] = x
       /\ \A j : Puts(s, j) = One(i = j) + Puts(t, j) /\ Locks(s, j) = One(i = j) + Locks(t, j)
  <2>1. x \in Releases /\ x.do \in Last /\ x.ino = i
    BY <1>1 DEF Releases, Last
  <2>2. s = <<x>> \o Tail(r)
    BY DEF r
  <2> HIDE DEF x, s
  <2>3. /\ s \in Seq(Releases) /\ Tidy(s) /\ s # <<>> /\ s[1] = x
        /\ \A j : /\ Puts(s, j) = One(x.ino = j) + Puts(Tail(r), j)
                  /\ Locks(s, j) = One(x.ino = j) + Locks(Tail(r), j)
    BY <1>0, <1>1, <2>1, <2>2, RelNext
  <2> QED BY <2>1, <2>3 DEF r, t
<1> HIDE DEF s
<1>2. Released(p, s)
  <2>1. s[1].do # "unlock"
    BY <1>15
  <2> QED BY <1>0, <1>14, <1>15, <2>1, Releasing DEF r
<1>3. ref \in [Inodes -> Nat] /\ busy \in [Inodes -> Procs \cup {Nobody}] /\ valid \in [Inodes -> BOOLEAN]
  BY DEF Inv, Base, TypeInv
<1>4. /\ ref[i] = 1 /\ valid[i] /\ nlink[i] = 0
      /\ Holds(loc[p], file[p], i) = 1 /\ \A q \in Procs \ {p} : Holds(loc[q], file[q], i) = 0
  <2>1. /\ ref[i] \in Nat /\ ref[i] >= Holds(loc[p], file[p], i)
        /\ \A q \in Procs \ {p} : ref[i] >= Holds(loc[p], file[p], i) + Holds(loc[q], file[q], i)
    BY <1>1, RefHolds DEF Inv
  <2>2. Holds(loc[p], file[p], i) \in Nat /\ \A q \in Procs \ {p} : Holds(loc[q], file[q], i) \in Nat
    BY HoldsType
  <2>3. ref[i] = 1 /\ valid[i] /\ nlink[i] = 0
    BY DEF LastReference
  <2> QED BY <1>1, <2>1, <2>2, <2>3
<1>5. busy[i] = Nobody
  <2> SUFFICES ASSUME busy[i] # Nobody PROVE FALSE
    OBVIOUS
  <2>1. PICK q \in Procs : busy[i] = q
    BY <1>1, <1>3
  <2>2. Holds(loc[q], file[q], i) >= 1 /\ (q = p => Holds(loc[p], file[p], i) >= 2)
    BY <1>0, <1>1, <2>1, Owner DEF Inv
  <2> QED BY <1>4, <2>2
<1>16. \A j \in Inodes : busy'[j] = IF j = i THEN p ELSE busy[j]
  BY <1>1, <1>3
<1>6. ASSUME NEW j \in Inodes
      PROVE  /\ Holds(loc'[p], file[p], j) = Holds(loc[p], file[p], j)
             /\ Claims(loc'[p], j) = Claims(loc[p], j) + One(i = j)
  <2>1. PICK a, b, c, d, u, v, o \in Nat :
          /\ a = Holds(loc'[p], file[p], j) /\ b = Holds(loc[p], file[p], j)
          /\ c = Claims(loc'[p], j) /\ d = Claims(loc[p], j)
          /\ u = Puts(t, j) /\ v = Locks(t, j) /\ o = One(i = j)
    BY <1>1, HoldsType, ClaimsType, OneNat
  <2>2. /\ a + Puts(r, j) = b + Puts(s, j) /\ c + Locks(r, j) = d + Locks(s, j)
    BY <1>2, <2>1 DEF Released, r
  <2>3. a + (o + u) = b + (o + u) /\ c + v = d + (o + v)
    BY <1>1, <1>15, <2>1, <2>2
  <2>4. a = b /\ c = d + o
    BY <2>3
  <2> QED BY <2>1, <2>4
<1>7. Accounts(p)
  <2>1. \A j \in Inodes : Holds(loc'[p], file'[p], j) = Holds(loc[p], file[p], j) /\ Holds(loc[p], file[p], j) \in Nat
    BY <1>6, HoldsType
  <2> QED BY <1>3, <2>1 DEF Accounts
<1>8. LocksMove(p)
  <2>1. ASSUME NEW j \in Inodes PROVE Claims(loc'[p], j) = One(busy'[j] = p)
    <3>1. Claims(loc[p], j) = One(busy[j] = p) /\ Claims(loc'[p], j) \in Nat
      BY ClaimsType DEF Inv, Base, LockInv
    <3>2. CASE j = i
      <4>1. One(i = j) = 1 /\ Claims(loc[p], j) = 0
        BY <1>5, <3>1, <3>2, Constants DEF One
      <4>2. Claims(loc'[p], j) = 1
        BY <1>6, <3>1, <4>1
      <4>3. busy'[j] = p
        BY <1>16, <3>2
      <4> QED BY <4>2, <4>3 DEF One
    <3>3. CASE j # i
      <4>1. One(i = j) = 0 /\ busy'[j] = busy[j]
        BY <1>16, <3>3 DEF One
      <4>2. Claims(loc'[p], j) = Claims(loc[p], j)
        <5>1. PICK c, d \in Nat : c = Claims(loc'[p], j) /\ d = Claims(loc[p], j)
          BY <3>1, ClaimsType
        <5>2. c = d + 0
          BY <1>6, <4>1, <5>1
        <5> QED BY <5>1, <5>2
      <4> QED BY <3>1, <4>1, <4>2
    <3> QED BY <3>2, <3>3
  <2>2. ASSUME NEW j \in Inodes, NEW q \in Procs \ {p} PROVE busy'[j] = q <=> busy[j] = q
    BY <1>5, <1>16, Constants
  <2>3. busy' \in [Inodes -> Procs \cup {Nobody}]
    BY <1>3
  <2> QED BY <2>1, <2>2, <2>3 DEF LocksMove
<1>9. ValidInv'
  BY <1>4, <1>16 DEF Inv, ValidInv
<1>10. Doomed'
  <2> SUFFICES ASSUME NEW j \in Inodes, type[j] # "free", nlink[j] = 0, j \notin damaged
               PROVE  ref'[j] >= 1 /\ (valid'[j] \/ \E q \in Procs : loc'[q].pc = "c_lock" /\ loc'[q].ip = j)
    BY DEF Doomed
  <2>1. ref'[j] \in Nat /\ ref'[j] >= ref[j]
    BY <1>3
  <2> QED BY <1>2, <2>1, DoomedStep DEF Released, NewPcs
<1>11. ASSUME NEW j \in Inodes
       PROVE  /\ ref'[j] <= ref[j]
              /\ ~HeadIs(loc'[p], {"free", "done"}, j) /\ ~HeadIs(loc[p], {"done"}, j)
              /\ HeadIs(loc'[p], {"trunc"}, j) => j = i
  <2>1. ref'[j] <= ref[j]
    BY <1>3
  <2>2. loc'[p].rel[1].do = "trunc" /\ loc'[p].rel[1].ino = i /\ loc[p].rel[1].do = "put"
    BY <1>2, <1>15 DEF Released
  <2> QED BY <2>1, <2>2 DEF HeadIs
<1>12. ASSUME NEW j \in Inodes, HeadIs(loc'[p], {"trunc"}, j)
       PROVE  /\ Holds(loc'[p], file[p], j) = 1 /\ nlink[j] = 0
              /\ \A q \in Procs \ {p} : Holds(loc[q], file[q], j) = 0
  BY <1>4, <1>6, <1>11, <1>12
<1> QED BY <1>2, <1>3, <1>7, <1>8, <1>9, <1>10, <1>11, <1>12, ReleaseGood

(* (a sum with the same number added on both sides) *)
LEMMA Cancel ==
  \A a, b, o, u \in Nat : a + (o + u) = b + u => a + o = b
  OBVIOUS

(* and in the end lets go of it. *)
LEMMA DoneGood ==
  ASSUME Inv, NEW p \in Procs, loc[p].rel # <<>>, NEW i, i = loc[p].rel[1].ino, loc[p].rel[1].do = "done",
         busy' = [busy EXCEPT ![i] = Nobody], valid' = [valid EXCEPT ![i] = FALSE],
         ref' = [ref EXCEPT ![i] = @ - 1], loc' = [loc EXCEPT ![p].rel = Tail(loc[p].rel)],
         UNCHANGED <<type, nlink, entry, dots, file, strays, crashes, damaged>>
  PROVE  Good(p)
<1> DEFINE r == loc[p].rel
           t == Tail(loc[p].rel)
<1>0. HeadFirst(p, i, r, t) /\ r[1].do = "done" /\ HeadIs(loc[p], {"done"}, i) /\ r # <<>>
  BY HeadRelease DEF HeadIs
<1>14. loc' = [loc EXCEPT ![p].rel = t]
  OBVIOUS
<1> HIDE DEF r, t
<1>1. /\ i \in Inodes /\ r \in Seq(Releases) /\ t \in Seq(Releases) /\ Tidy(t)
      /\ Len(t) = 1 => t[1].do # "unlock"
      /\ t # <<>> => t[1].do \notin Last
      /\ \A j : Puts(r, j) = One(i = j) + Puts(t, j) /\ Locks(r, j) = One(i = j) + Locks(t, j)
      /\ \A j : Puts(t, j) \in Nat /\ Locks(t, j) \in Nat
      /\ busy[i] = p /\ Claims(loc[p], i) = 1
      /\ Holds(loc[p], file[p], i) = 1
  <2>1. /\ i \in Inodes /\ r \in Seq(Releases) /\ t \in Seq(Releases) /\ Tidy(t)
        /\ Len(t) = 1 => t[1].do # "unlock"
        /\ t # <<>> => t[1].do \notin Last
        /\ \A j : /\ Puts(r, j) = One(r[1].do # "unlock" /\ i = j) + Puts(t, j)
                  /\ Locks(r, j) = One(r[1].do # "put" /\ i = j) + Locks(t, j)
                  /\ Puts(t, j) \in Nat /\ Locks(t, j) \in Nat
        /\ r[1].do # "put" => busy[i] = p /\ Claims(loc[p], i) = 1
        /\ r[1].do \in Last => Private(loc[p], i)
    BY <1>0 DEF HeadFirst
  <2>2. \A j : One(r[1].do # "unlock" /\ i = j) = One(i = j) /\ One(r[1].do # "put" /\ i = j) = One(i = j)
    BY <1>0 DEF One
  <2>3. Private(loc[p], i)
    BY <1>0, <2>1 DEF Last
  <2>4. Holds(loc[p], file[p], i) = 1
    BY <2>1, <2>3 DEF Inv, PrivateInv
  <2> QED BY <1>0, <2>1, <2>2, <2>4
<1>2. Released(p, t)
  BY <1>0, <1>1, <1>14, Releasing DEF r
<1>3. ref \in [Inodes -> Nat] /\ busy \in [Inodes -> Procs \cup {Nobody}] /\ valid \in [Inodes -> BOOLEAN]
  BY DEF Inv, Base, TypeInv
<1>4. /\ ref[i] \in Nat /\ ref[i] >= 1
      /\ \A q \in Procs \ {p} : ref[i] >= 1 + Holds(loc[q], file[q], i)
  <2>1. /\ ref[i] \in Nat /\ ref[i] >= Holds(loc[p], file[p], i)
        /\ \A q \in Procs \ {p} : ref[i] >= Holds(loc[p], file[p], i) + Holds(loc[q], file[q], i)
    BY <1>1, RefHolds DEF Inv
  <2> QED BY <1>1, <2>1
<1>5. /\ ref' \in [Inodes -> Nat] /\ valid' \in [Inodes -> BOOLEAN]
      /\ \A j \in Inodes : ref'[j] = IF j = i THEN ref[i] - 1 ELSE ref[j]
      /\ \A j \in Inodes : valid'[j] <=> j # i /\ valid[j]
      /\ \A j \in Inodes : busy'[j] = IF j = i THEN Nobody ELSE busy[j]
  <2>1. \A j \in Inodes : ref'[j] = IF j = i THEN ref[i] - 1 ELSE ref[j]
    BY <1>1, <1>3
  <2>2. ref[i] - 1 \in Nat
    BY <1>4
  <2>3. ref' \in [Inodes -> Nat]
    BY <1>3, <2>2
  <2>4. \A j \in Inodes : valid'[j] <=> j # i /\ valid[j]
    BY <1>1, <1>3
  <2>5. valid' \in [Inodes -> BOOLEAN]
    BY <1>3
  <2>6. \A j \in Inodes : busy'[j] = IF j = i THEN Nobody ELSE busy[j]
    BY <1>1, <1>3
  <2> QED BY <2>1, <2>3, <2>4, <2>5, <2>6
<1>6. ASSUME NEW j \in Inodes
      PROVE  /\ Holds(loc'[p], file[p], j) + One(i = j) = Holds(loc[p], file[p], j)
             /\ Claims(loc'[p], j) + One(i = j) = Claims(loc[p], j)
  <2>1. PICK a, b, c, d, u, v, o \in Nat :
          /\ a = Holds(loc'[p], file[p], j) /\ b = Holds(loc[p], file[p], j)
          /\ c = Claims(loc'[p], j) /\ d = Claims(loc[p], j)
          /\ u = Puts(t, j) /\ v = Locks(t, j) /\ o = One(i = j)
    BY <1>1, HoldsType, ClaimsType, OneNat
  <2>2. /\ a + Puts(r, j) = b + Puts(t, j) /\ c + Locks(r, j) = d + Locks(t, j)
    BY <1>2, <2>1 DEF Released, r
  <2>3. a + (o + u) = b + u /\ c + (o + v) = d + v
    BY <1>1, <2>1, <2>2
  <2>4. a + o = b
    <3>1. a + (o + u) = b + u
      BY <2>3
    <3> HIDE <2>1, <2>2, <2>3
    <3> QED BY <3>1, Cancel
  <2>5. c + o = d
    <3>1. c + (o + v) = d + v
      BY <2>3
    <3> HIDE <2>1, <2>2, <2>3
    <3> QED BY <3>1, Cancel
  <2> QED BY <2>1, <2>4, <2>5
<1>7. Accounts(p)
  <2>1. ASSUME NEW j \in Inodes
        PROVE  ref'[j] + Holds(loc[p], file[p], j) = ref[j] + Holds(loc'[p], file[p], j)
    <3>1. PICK a, b, o, n \in Nat : /\ a = Holds(loc'[p], file[p], j) /\ b = Holds(loc[p], file[p], j)
                                    /\ o = One(i = j) /\ n = ref[j]
      BY <1>3, HoldsType, OneNat
    <3>2. a + o = b
      BY <1>6, <3>1
    <3>3. ref'[j] = n - o
      BY <1>5, <3>1 DEF One
    <3> QED BY <3>1, <3>2, <3>3
  <2> QED BY <1>5, <2>1 DEF Accounts
<1>8. LocksMove(p)
  <2>1. ASSUME NEW j \in Inodes PROVE Claims(loc'[p], j) = One(busy'[j] = p)
    <3>1. Claims(loc[p], j) = One(busy[j] = p) /\ Claims(loc'[p], j) \in Nat
      BY ClaimsType DEF Inv, Base, LockInv
    <3>2. CASE j = i
      <4>1. One(i = j) = 1 /\ Claims(loc[p], j) = 1
        BY <1>1, <3>2 DEF One
      <4>2. Claims(loc'[p], j) = 0
        BY <1>6, <3>1, <4>1
      <4>3. busy'[j] # p
        BY <1>5, <3>2, Constants
      <4> QED BY <4>2, <4>3 DEF One
    <3>3. CASE j # i
      <4>1. One(i = j) = 0 /\ busy'[j] = busy[j]
        BY <1>5, <3>3 DEF One
      <4>2. Claims(loc'[p], j) = Claims(loc[p], j)
        <5>1. PICK c, d \in Nat : c = Claims(loc'[p], j) /\ d = Claims(loc[p], j)
          BY <3>1, ClaimsType
        <5>2. c + 0 = d
          BY <1>6, <4>1, <5>1
        <5> QED BY <5>1, <5>2
      <4> QED BY <3>1, <4>1, <4>2
    <3> QED BY <3>2, <3>3
  <2>2. ASSUME NEW j \in Inodes, NEW q \in Procs \ {p} PROVE busy'[j] = q <=> busy[j] = q
    BY <1>1, <1>5, Constants
  <2>3. busy' \in [Inodes -> Procs \cup {Nobody}]
    BY <1>3
  <2> QED BY <2>1, <2>2, <2>3 DEF LocksMove
<1>9. ValidInv'
  BY <1>5 DEF Inv, ValidInv
<1>10. Doomed'
  <2> SUFFICES ASSUME NEW j \in Inodes, type[j] # "free", nlink[j] = 0, j \notin damaged
               PROVE  ref'[j] >= 1 /\ (valid'[j] \/ \E q \in Procs : loc'[q].pc = "c_lock" /\ loc'[q].ip = j)
    BY DEF Doomed
  <2>1. CASE j = i
    <3>1. PICK q \in Procs : Pair(p, q, i)
      BY <1>0, <1>1, <2>1 DEF Inv, DoneInv
    <3>2. loc[q].pc = "c_lock" /\ loc[q].ip = i /\ q # p /\ loc'[q] = loc[q]
      BY <1>2, <3>1 DEF Released, NewPcs, Frame, Pair
    <3>3. Private(loc[q], i)
      BY <3>2 DEF Private, NewPcs
    <3>4. Holds(loc[q], file[q], i) = 1
      BY <1>1, <3>3 DEF Inv, PrivateInv
    <3>5. ref[i] - 1 >= 1
      BY <1>4, <3>2, <3>4
    <3> QED BY <1>1, <1>5, <2>1, <3>2, <3>5
  <2>2. CASE j # i
    <3>1. ref'[j] \in Nat /\ ref'[j] >= ref[j] /\ (valid[j] => valid'[j])
      BY <1>3, <1>5, <2>2
    <3> QED BY <1>2, <3>1, DoomedStep DEF Released, NewPcs
  <2> QED BY <2>1, <2>2
<1>11. ASSUME NEW j \in Inodes
       PROVE  /\ ref'[j] <= ref[j]
              /\ ~HeadIs(loc'[p], Last, j)
              /\ HeadIs(loc[p], {"done"}, j) => Holds(loc'[p], file[p], j) = 0
  <2>1. ref'[j] <= ref[j]
    <3>1. ref[j] \in Nat
      BY <1>3
    <3> QED BY <1>4, <1>5, <3>1
  <2>2. ~HeadIs(loc'[p], Last, j)
    BY <1>1, <1>2 DEF HeadIs, Released
  <2>3. HeadIs(loc[p], {"done"}, j) => j = i
    BY DEF HeadIs
  <2>4. Holds(loc'[p], file[p], i) = 0
    <3>1. Holds(loc'[p], file[p], i) \in Nat /\ One(i = i) = 1
      BY HoldsType DEF One
    <3>2. Holds(loc'[p], file[p], i) + One(i = i) = Holds(loc[p], file[p], i)
      BY <1>1, <1>6
    <3> QED BY <1>1, <3>1, <3>2
  <2> QED BY <2>1, <2>2, <2>3, <2>4
<1>13. \A j \in Inodes : ~HeadIs(loc'[p], {"free", "done"}, j) /\ ~HeadIs(loc'[p], {"trunc"}, j)
  BY <1>11 DEF HeadIs, Last
<1> QED BY <1>2, <1>5, <1>7, <1>8, <1>9, <1>10, <1>11, <1>13, ReleaseGood

-----------------------------------------------------------------------------
(* What nobody holds is in nobody's hand. *)
LEMMA HoldsNone ==
  ASSUME NEW l, NEW f, NEW i, Holds(l, f, i) = 0
  PROVE  l.cur # i /\ l.dp # i /\ l.ip # i /\ f # i
<1>1. /\ One(l.cur = i) \in Nat /\ One(l.dp = i) \in Nat /\ One(l.ip = i) \in Nat
      /\ One(f = i) \in Nat /\ Puts(l.rel, i) \in Nat
  BY OneNat, CountType DEF Puts
<1>2. One(l.cur = i) = 0 /\ One(l.dp = i) = 0 /\ One(l.ip = i) = 0 /\ One(f = i) = 0
  <2>1. PICK a, b, c, d, e \in Nat :
          /\ a = One(l.cur = i) /\ b = One(l.dp = i) /\ c = One(l.ip = i) /\ d = One(f = i)
          /\ e = Puts(l.rel, i)
    BY <1>1
  <2>2. a + b + c + d + e = 0
    BY <2>1 DEF Holds
  <2>3. a = 0 /\ b = 0 /\ c = 0 /\ d = 0
    <3> HIDE <2>1
    <3> QED BY <2>2
  <2> QED BY <2>1, <2>3
<1> QED BY <1>2 DEF One

(* The disk writes of the last iput() change neither references nor locks. *)
Writes(p, i, x) ==
  /\ loc[p].rel # <<>> /\ i = loc[p].rel[1].ino /\ loc[p].rel[1].do \in {"trunc", "free"}
  /\ x \in Releases /\ x.do \in Last /\ x.ino = i
  /\ loc' = [loc EXCEPT ![p].rel = <<x>> \o Tail(loc[p].rel)]
  /\ UNCHANGED <<ref, busy, file>>
(* (What Freeing says.) *)
Wrote(p, i, x) ==
  /\ i \in Inodes /\ Released(p, loc'[p].rel) /\ Accounts(p) /\ LocksMove(p)
  /\ loc'[p].rel # <<>> /\ loc'[p].rel[1] = x
  /\ Holds(loc'[p], file[p], i) = 1 /\ busy[i] = p
(* The disk writes of the last iput() change neither references nor locks. *)
LEMMA Freeing ==
  ASSUME Inv, NEW p \in Procs, NEW i, NEW x, Writes(p, i, x)
  PROVE  Wrote(p, i, x)
<1> USE DEF Writes
<1> DEFINE r == loc[p].rel
           t == Tail(loc[p].rel)
           s == <<x>> \o Tail(loc[p].rel)
<1>0. HeadFirst(p, i, r, t) /\ r[1].do \in {"trunc", "free"} /\ HeadIs(loc[p], {"trunc", "free"}, i) /\ r # <<>>
  BY HeadRelease DEF HeadIs
<1>14. loc' = [loc EXCEPT ![p].rel = s]
  OBVIOUS
<1> HIDE DEF r, t
<1>1. /\ i \in Inodes /\ r \in Seq(Releases) /\ Tidy(r) /\ busy[i] = p
      /\ \A j : Puts(r, j) = One(i = j) + Puts(t, j) /\ Locks(r, j) = One(i = j) + Locks(t, j)
      /\ \A j : Puts(t, j) \in Nat /\ Locks(t, j) \in Nat
  <2>1. /\ i \in Inodes /\ r \in Seq(Releases) /\ Tidy(r)
        /\ \A j : /\ Puts(r, j) = One(r[1].do # "unlock" /\ i = j) + Puts(t, j)
                  /\ Locks(r, j) = One(r[1].do # "put" /\ i = j) + Locks(t, j)
                  /\ Puts(t, j) \in Nat /\ Locks(t, j) \in Nat
        /\ r[1].do # "put" => busy[i] = p
    BY <1>0 DEF HeadFirst
  <2>2. \A j : One(r[1].do # "unlock" /\ i = j) = One(i = j) /\ One(r[1].do # "put" /\ i = j) = One(i = j)
    BY <1>0 DEF One
  <2>3. r[1].do # "put"
    BY <1>0
  <2> QED BY <2>1, <2>2, <2>3
<1>2. /\ s \in Seq(Releases) /\ Tidy(s) /\ s # <<>> /\ s[1] = x
      /\ \A j : Puts(s, j) = One(i = j) + Puts(t, j) /\ Locks(s, j) = One(i = j) + Locks(t, j)
  <2>1. s = <<x>> \o Tail(r)
    BY DEF r
  <2> HIDE DEF s
  <2>2. /\ s \in Seq(Releases) /\ Tidy(s) /\ s # <<>> /\ s[1] = x
        /\ \A j : /\ Puts(s, j) = One(x.ino = j) + Puts(Tail(r), j)
                  /\ Locks(s, j) = One(x.ino = j) + Locks(Tail(r), j)
    BY <1>0, <1>1, <2>1, RelNext
  <2> QED BY <2>2 DEF r, t
<1> HIDE DEF s
<1>3. Released(p, s)
  <2>1. s[1].do # "unlock"
    BY <1>2 DEF Last
  <2> QED BY <1>0, <1>14, <1>2, <2>1, Releasing DEF r
<1>4. ASSUME NEW j \in Inodes
      PROVE  /\ Holds(loc'[p], file[p], j) = Holds(loc[p], file[p], j)
             /\ Claims(loc'[p], j) = Claims(loc[p], j)
  <2>1. PICK a, b, c, d, u, v, o \in Nat :
          /\ a = Holds(loc'[p], file[p], j) /\ b = Holds(loc[p], file[p], j)
          /\ c = Claims(loc'[p], j) /\ d = Claims(loc[p], j)
          /\ u = Puts(t, j) /\ v = Locks(t, j) /\ o = One(i = j)
    BY <1>1, HoldsType, ClaimsType, OneNat
  <2>2. /\ a + Puts(r, j) = b + Puts(s, j) /\ c + Locks(r, j) = d + Locks(s, j)
    BY <1>3, <2>1 DEF Released, r
  <2>3. a + (o + u) = b + (o + u) /\ c + (o + v) = d + (o + v)
    BY <1>1, <1>2, <2>1, <2>2
  <2>4. a = b /\ c = d
    BY <2>3
  <2> QED BY <2>1, <2>4
<1>5. ref \in [Inodes -> Nat] /\ busy \in [Inodes -> Procs \cup {Nobody}]
  BY DEF Inv, Base, TypeInv
<1>6. Accounts(p)
  <2>1. \A j \in Inodes : Holds(loc'[p], file'[p], j) = Holds(loc[p], file[p], j) /\ Holds(loc[p], file[p], j) \in Nat
    BY <1>4, HoldsType
  <2> QED BY <1>5, <2>1 DEF Accounts
<1>7. LocksMove(p)
  BY <1>4, <1>5 DEF LocksMove, Inv, Base, LockInv
<1>8. Holds(loc[p], file[p], i) = 1
  BY <1>0, <1>1, FreedAlone
<1>9. loc'[p].rel = s
  BY <1>3 DEF Released
<1> QED BY <1>1, <1>2, <1>3, <1>4, <1>6, <1>7, <1>8, <1>9 DEF Wrote

(* The last iput() of an inode truncates it, *)
LEMMA TruncGood ==
  ASSUME Inv, NEW p \in Procs, loc[p].rel # <<>>, NEW i, i = loc[p].rel[1].ino, loc[p].rel[1].do = "trunc",
         entry' = itrunc(i), dots' = [dots EXCEPT ![i] = <<>>],
         loc' = [loc EXCEPT ![p].rel = <<[do |-> "free", ino |-> i]>> \o Tail(loc[p].rel)],
         UNCHANGED <<type, nlink, ref, busy, valid, file, strays, crashes, damaged>>
  PROVE  Good(p)
<1> DEFINE m == loc'[p]
           x == [do |-> "free", ino |-> i]
<1>1. HeadIs(loc[p], {"trunc", "free"}, i) /\ HeadFirst(p, i, loc[p].rel, Tail(loc[p].rel))
  BY HeadRelease DEF HeadIs
<1>2. x \in Releases /\ x.do \in Last /\ x.ino = i
  BY <1>1 DEF HeadFirst, Releases, Last
<1>3. /\ i \in Inodes /\ Released(p, m.rel) /\ Accounts(p) /\ LocksMove(p)
      /\ m.rel # <<>> /\ m.rel[1] = x /\ Holds(m, file[p], i) = 1 /\ busy[i] = p
  <2>1. loc' = [loc EXCEPT ![p].rel = <<x>> \o Tail(loc[p].rel)]
    OBVIOUS
  <2>2. loc[p].rel[1].do \in {"trunc", "free"}
    OBVIOUS
  <2> HIDE DEF x
  <2>3. Writes(p, i, x)
    BY <1>2, <2>1, <2>2 DEF Writes
  <2>4. Wrote(p, i, x)
    BY <2>3, Freeing
  <2> QED BY <2>4 DEF Wrote
<1>4. /\ Holds(loc[p], file[p], i) = 1 /\ i # ROOTINO /\ ~Named(i) /\ nlink[i] = 0
      /\ loc[p].cur # i /\ loc[p].ip # i
  BY <1>1, <1>3, FreedAlone
<1>5. Subs(entry[i], type) = {}
  BY <1>3, <1>4, CountFacts
<1>6. /\ type \in [Inodes -> {"free", "file", "dir"}] /\ nlink \in [Inodes -> Nat]
      /\ entry \in [Inodes -> [Names -> Inodes \cup {None}]] /\ ref \in [Inodes -> Nat]
      /\ dots \in [Inodes -> Seq(Inodes)]
  BY DEF Inv, Base, TypeInv, DotsInv
<1>7. /\ entry' \in [Inodes -> [Names -> Inodes \cup {None}]]
      /\ entry'[i] = NoEntries /\ \A j \in Inodes : j # i => entry'[j] = entry[j]
      /\ \A n \in Names : entry'[i][n] = None
  <2>1. NoEntries \in [Names -> Inodes \cup {None}]
    BY DEF NoEntries
  <2>2. entry' \in [Inodes -> [Names -> Inodes \cup {None}]]
    BY <1>3, <1>6, <2>1 DEF itrunc
  <2>3. entry'[i] = NoEntries /\ \A j \in Inodes : j # i => entry'[j] = entry[j]
    BY <1>3, <1>6 DEF itrunc
  <2> QED BY <2>2, <2>3 DEF NoEntries
<1>8. /\ dots' \in [Inodes -> Seq(Inodes)] /\ dots'[i] = <<>>
      /\ \A j \in Inodes : j # i => dots'[j] = dots[j]
  BY <1>3, <1>6
<1>9. /\ Frame(p) /\ loc[p].pc \in RelPcs /\ loc[p].pc \notin NewPcs /\ loc[p].dp = None /\ file' = file
      /\ m.pc = loc[p].pc /\ m.call = loc[p].call /\ m.cur = loc[p].cur /\ m.dp = loc[p].dp /\ m.ip = loc[p].ip
      /\ m.rest = loc[p].rest
  BY <1>3 DEF Released
<1>10. TypeInv'
  BY <1>3, <1>7, <1>9 DEF Inv, Base, TypeInv, Accounts, LocksMove, Frame
<1>11. \A j : /\ ~HeadIs(loc[p], {"done"}, j) /\ ~HeadIs(m, {"done"}, j) /\ ~HeadIs(m, {"trunc"}, j)
              /\ HeadIs(m, {"free"}, j) => j = i
  BY <1>3 DEF HeadIs
<1> HIDE DEF m, x
<1>12. \A j \in Inodes, k \in Names : entry'[j][k] # None => j # i /\ entry'[j] = entry[j]
  BY <1>7
<1>13. Gains(p) /\ Ends(p) /\ Types(p) /\ Waits(p)
  <2>1. \A j \in Inodes : ~(ref'[j] > ref[j])
    BY <1>6
  <2> QED BY <1>9, <1>11, <2>1 DEF Gains, Ends, Types, Waits, NewPcs
<1>14. Touches(p)
  <2>1. \A j \in Inodes : Named(j)' => Named(j)
    BY <1>7, <1>12, Constants DEF Named
  <2>2. loc[p].pc # "c_lock"
    BY <1>9 DEF NewPcs
  <2>3. ASSUME NEW j \in Inodes, entry'[j] # entry[j] \/ dots'[j] # dots[j] PROVE j = i
    BY <1>7, <1>8, <2>3
  <2>4. Holds(loc[p], file[p], i) >= 1
    BY <1>4
  <2> QED BY <1>3, <1>11, <2>1, <2>2, <2>3, <2>4 DEF Touches
<1>15. Fresh(p)
  <2>1. ASSUME NEW j \in Inodes, Private(m, j) PROVE j = i
    BY <1>3, <1>9, <2>1 DEF Private, HeadIs, x
  <2>2. PrivateOwn(loc[p], file[p], i)'
    BY <1>3, <1>4, <1>7, <1>9, <1>12, Constants DEF PrivateOwn, Named, m
  <2>3. Private(loc[p], i)
    BY <1>1 DEF Private, HeadIs, Last
  <2> QED BY <1>11, <2>1, <2>2, <2>3 DEF Fresh, m
<1>16. DotsOwn(p)
  <2>1. \A j \in Inodes : Len(dots'[j]) <= 2 /\ (type[j] = "free" => dots'[j] = <<>>)
    <3>1. Len(<<>>) = 0
      OBVIOUS
    <3> QED BY <1>8, <3>1 DEF Inv, DotsInv
  <2>2. m.pc \notin {"c_lock", "c_init", "c_dots", "c_dot", "c_dotdot"}
    BY <1>9 DEF NewPcs
  <2> QED BY <1>8, <1>11, <2>1, <2>2 DEF DotsOwn, m
<1>17. (Kind(loc[p]) /\ Look(loc[p]))'
  <2>1. Kind(loc[p]) /\ Look(loc[p])
    BY DEF Inv, KindInv
  <2>2. m.pc \notin NewPcs /\ m.pc \notin {"u_lock", "u_check"}
    BY <1>9 DEF RelPcs
  <2> QED BY <1>9, <2>1, <2>2 DEF Kind, Look, Wants, m
<1>18. NamesInv'
  BY <1>12 DEF Inv, NamesInv
<1>19. ASSUME NEW j \in Inodes
       PROVE  /\ Subs(entry'[j], type') = Subs(entry[j], type)
              /\ Cardinality(Entries(entry', j)) \in Nat /\ Cardinality(Entries(entry, j)) \in Nat
              /\ Cardinality(Entries(entry', j)) <= Cardinality(Entries(entry, j))
              /\ j \notin strays => Entries(entry', j) = Entries(entry, j)
  <2>1. Subs(entry'[j], type') = Subs(entry[j], type)
    <3>1. CASE j = i
      <4>1. Subs(entry'[i], type') = {}
        BY <1>7 DEF Subs
      <4> QED BY <1>5, <3>1, <4>1
    <3>2. CASE j # i
      BY <1>7, <3>2
    <3> QED BY <3>1, <3>2
  <2>2. Entries(entry', j) \subseteq Entries(entry, j)
    BY <1>7, <1>12, Constants DEF Entries
  <2>3. j \notin strays => Entries(entry, j) \subseteq Entries(entry', j)
    <3> SUFFICES ASSUME j \notin strays, NEW d \in Inodes, NEW n \in Names, entry[d][n] = j
                 PROVE  entry'[d][n] = j
      BY DEF Entries
    <3>1. d # i
      <4> SUFFICES ASSUME d = i PROVE FALSE
        OBVIOUS
      <4>1. entry[i][n] # None
        BY Constants
      <4> QED BY <1>3, <1>4, <4>1 DEF Inv, StraysInv
    <3> QED BY <1>7, <3>1
  <2>4. IsFiniteSet(Entries(entry, j)) /\ Cardinality(Entries(entry, j)) \in Nat /\ Cardinality(Entries(entry', j)) \in Nat
    BY EntriesType
  <2>5. Cardinality(Entries(entry', j)) <= Cardinality(Entries(entry, j))
    BY <2>2, <2>4, FS_Subset
  <2> QED BY <2>1, <2>2, <2>3, <2>4, <2>5
<1>20. CountInv'
  <2>1. ASSUME NEW j \in Inodes
        PROVE  /\ nlink'[j] + Had(p, j) >= nlink[j] + HasNow(p, j)
               /\ j \notin strays' => nlink'[j] + Had(p, j) = nlink[j] + HasNow(p, j)
    <3>1. /\ One(PendIp(loc'[p], j)) = One(PendIp(loc[p], j)) /\ One(PendDp(loc[p], j)') = One(PendDp(loc[p], j))
          /\ One(PendIp(loc[p], j)) \in Nat /\ One(PendDp(loc[p], j)) \in Nat
      BY <1>3, OneNat DEF One, Released
    <3>2. PICK e, f, s, a, b, n \in Nat :
            /\ e = Cardinality(Entries(entry, j)) /\ f = Cardinality(Entries(entry', j))
            /\ s = Cardinality(Subs(entry[j], type)) /\ a = One(PendIp(loc[p], j)) /\ b = One(PendDp(loc[p], j))
            /\ n = nlink[j]
      BY <1>6, <1>19, <3>1, SubsType
    <3>3. f <= e /\ (j \notin strays => f = e) /\ s = Cardinality(Subs(entry'[j], type'))
      BY <1>19, <3>2
    <3>4. Had(p, j) = e + s + a + b /\ HasNow(p, j) = f + s + a + b /\ nlink'[j] = n
      BY <3>1, <3>2, <3>3 DEF Had, HasNow
    <3>5. /\ n + (e + s + a + b) >= n + (f + s + a + b)
          /\ f = e => n + (e + s + a + b) = n + (f + s + a + b)
      BY <3>3
    <3> QED BY <3>2, <3>3, <3>4, <3>5
  <2> QED BY <1>9, <1>10, <1>13, <1>18, <2>1, CountStep
<1>21. DirOnce'
  <2> SUFFICES ASSUME NEW j \in Inodes, type[j] = "dir"
               PROVE  Cardinality(Links(j)') + Pending(j)' <= 1
    BY DEF DirOnce
  <2>1. Links(j)' = Entries(entry', j) /\ Links(j) = Entries(entry, j)
    <3>1. TypeInv' /\ NamesInv' => LinksAre'
      BY LinksEntries, PTL
    <3> QED BY <1>10, <1>18, <3>1, LinksEntries DEF Inv, Base, LinksAre
  <2>2. Pending(j)' = Pending(j) /\ Pending(j) \in Nat
    <3>1. One(PendIp(loc[p], j)) = One(PendIp(loc'[p], j))
      BY <1>3 DEF One, Released
    <3>2. /\ Pending(j) \in Nat /\ Pending(j)' \in Nat
          /\ Pending(j)' + One(PendIp(loc[p], j)) = Pending(j) + One(PendIp(loc'[p], j))
      BY <1>9, <1>13, PendStep
    <3>3. PICK a, b, o \in Nat : a = Pending(j) /\ b = Pending(j)' /\ o = One(PendIp(loc[p], j))
      BY <3>2, OneNat
    <3>4. b + o = a + o
      BY <3>1, <3>2, <3>3
    <3> QED BY <3>3, <3>4
  <2>3. Cardinality(Links(j)) + Pending(j) <= 1
    BY DEF Inv, DirOnce
  <2> QED BY <1>19, <2>1, <2>2, <2>3
<1>22. StraysInv'
  <2> SUFFICES ASSUME NEW d \in Inodes, NEW n \in Names, entry'[d][n] # None, d # ROOTINO, ~Named(d)'
               PROVE  d \in strays /\ entry'[d][n] \in strays
    BY DEF StraysInv
  <2>1. d # i /\ entry'[d] = entry[d]
    BY <1>12
  <2>2. ~Named(d)
    <3> SUFFICES ASSUME NEW e \in Inodes, NEW k \in Names, entry[e][k] = d PROVE FALSE
      BY DEF Named
    <3>1. e = i
      BY <1>7 DEF Named
    <3>2. type[d] = "dir"
      BY <2>1 DEF Inv, NamesInv
    <3>3. k \in Subs(entry[i], type)
      BY <3>1, <3>2, Constants DEF Subs
    <3> QED BY <1>5, <3>3
  <2> QED BY <2>1, <2>2 DEF Inv, StraysInv
<1>23. Doomed'
  <2> SUFFICES ASSUME NEW j \in Inodes, type[j] # "free", nlink[j] = 0, j \notin damaged
               PROVE  ref'[j] >= 1 /\ (valid'[j] \/ \E q \in Procs : loc'[q].pc = "c_lock" /\ loc'[q].ip = j)
    BY DEF Doomed
  <2>1. ref'[j] \in Nat /\ ref'[j] >= ref[j] /\ loc[p].pc # "c_lock"
    BY <1>6, <1>9 DEF NewPcs
  <2> QED BY <1>9, <2>1, DoomedStep
<1>24. ValidInv'
  BY DEF Inv, ValidInv
<1> QED BY <1>3, <1>9, <1>10, <1>13, <1>14, <1>15, <1>16, <1>17, <1>18, <1>20, <1>21, <1>22, <1>23, <1>24 DEF Good

(* frees it, *)
LEMMA FreeGood ==
  ASSUME Inv, NEW p \in Procs, loc[p].rel # <<>>, NEW i, i = loc[p].rel[1].ino, loc[p].rel[1].do = "free",
         type' = [type EXCEPT ![i] = "free"],
         loc' = [loc EXCEPT ![p].rel = <<[do |-> "done", ino |-> i]>> \o Tail(loc[p].rel)],
         UNCHANGED <<nlink, entry, dots, ref, busy, valid, file, strays, crashes, damaged>>
  PROVE  Good(p)
<1> DEFINE m == loc'[p]
           x == [do |-> "done", ino |-> i]
<1>1. /\ HeadIs(loc[p], {"trunc", "free"}, i) /\ HeadIs(loc[p], {"free"}, i)
      /\ HeadFirst(p, i, loc[p].rel, Tail(loc[p].rel))
  BY HeadRelease DEF HeadIs
<1>2. x \in Releases /\ x.do \in Last /\ x.ino = i
  BY <1>1 DEF HeadFirst, Releases, Last
<1>3. /\ i \in Inodes /\ Released(p, m.rel) /\ Accounts(p) /\ LocksMove(p)
      /\ m.rel # <<>> /\ m.rel[1] = x /\ Holds(m, file[p], i) = 1 /\ busy[i] = p
  <2>1. loc' = [loc EXCEPT ![p].rel = <<x>> \o Tail(loc[p].rel)]
    OBVIOUS
  <2>2. loc[p].rel[1].do \in {"trunc", "free"}
    OBVIOUS
  <2> HIDE DEF x
  <2>3. Writes(p, i, x)
    BY <1>2, <2>1, <2>2 DEF Writes
  <2>4. Wrote(p, i, x)
    BY <2>3, Freeing
  <2> QED BY <2>4 DEF Wrote
<1>4. /\ Holds(loc[p], file[p], i) = 1 /\ i # ROOTINO /\ ~Named(i) /\ nlink[i] = 0
      /\ loc[p].cur # i /\ loc[p].ip # i
      /\ \A q \in Procs \ {p} : Holds(loc[q], file[q], i) = 0
  BY <1>1, <1>3, FreedAlone
<1>5. Private(loc[p], i) /\ entry[i] = NoEntries /\ dots[i] = <<>>
  <2>1. Private(loc[p], i)
    BY <1>1 DEF Private, HeadIs, Last
  <2> QED BY <1>1, <1>3, <2>1 DEF Inv, PrivateInv, DotsInv
<1>6. /\ type \in [Inodes -> {"free", "file", "dir"}] /\ nlink \in [Inodes -> Nat]
      /\ entry \in [Inodes -> [Names -> Inodes \cup {None}]] /\ ref \in [Inodes -> Nat]
  BY DEF Inv, Base, TypeInv
<1>7. /\ type' \in [Inodes -> {"free", "file", "dir"}]
      /\ \A j \in Inodes : type'[j] = IF j = i THEN "free" ELSE type[j]
  BY <1>3, <1>6
<1>9. /\ Frame(p) /\ loc[p].pc \in RelPcs /\ loc[p].pc \notin NewPcs /\ loc[p].dp = None /\ file' = file
      /\ m.pc = loc[p].pc /\ m.call = loc[p].call /\ m.cur = loc[p].cur /\ m.dp = loc[p].dp /\ m.ip = loc[p].ip
      /\ m.rest = loc[p].rest
  BY <1>3 DEF Released
<1>10. TypeInv'
  BY <1>3, <1>7, <1>9 DEF Inv, Base, TypeInv, Accounts, LocksMove, Frame
<1>11. \A j : /\ ~HeadIs(loc[p], {"done"}, j) /\ ~HeadIs(m, {"free"}, j) /\ ~HeadIs(m, {"trunc", "free"}, j)
              /\ HeadIs(m, {"done"}, j) => j = i
  BY <1>3 DEF HeadIs
<1>12. HeadIs(m, {"done"}, i)
  BY <1>3 DEF HeadIs
<1> HIDE DEF m, x
<1>13. Gains(p) /\ Ends(p) /\ Waits(p)
  <2>1. \A j \in Inodes : ~(ref'[j] > ref[j])
    BY <1>6
  <2> QED BY <1>9, <1>11, <2>1 DEF Gains, Ends, Waits, NewPcs
<1>14. Types(p)
  <2> SUFFICES ASSUME NEW j \in Inodes, type'[j] # type[j]
               PROVE  /\ \A q \in Procs \ {p} : loc[q].cur # j /\ loc[q].dp # j /\ loc[q].ip # j
                      /\ type[j] = "free" => loc'[p].pc = "c_lock" /\ loc'[p].ip = j
                      /\ type'[j] = "free" => /\ HeadIs(loc'[p], {"done"}, j)
                                              /\ \A q \in Procs \ {p} : Holds(loc[q], file[q], j) = 0
    BY DEF Types
  <2>1. j = i /\ type[j] # "free"
    BY <1>7
  <2>2. \A q \in Procs \ {p} : loc[q].cur # i /\ loc[q].dp # i /\ loc[q].ip # i
    BY <1>4, HoldsNone
  <2> QED BY <1>4, <1>12, <2>1, <2>2 DEF m
<1>15. Touches(p)
  BY DEF Touches, Named
<1>16. Fresh(p)
  <2>1. ASSUME NEW j \in Inodes, Private(m, j) PROVE j = i
    BY <1>3, <1>9, <2>1 DEF Private, HeadIs, x
  <2>2. PrivateOwn(loc[p], file[p], i)'
    BY <1>3, <1>4, <1>5, <1>9, <1>11 DEF PrivateOwn, Named, m
  <2> QED BY <1>5, <1>7, <1>11, <2>1, <2>2 DEF Fresh, m
<1>17. DotsOwn(p)
  <2>1. m.pc \notin {"c_lock", "c_init", "c_dots", "c_dot", "c_dotdot"}
    BY <1>9 DEF NewPcs
  <2> QED BY <1>5, <1>7, <1>11, <2>1 DEF DotsOwn, Inv, DotsInv, m
<1>18. (Kind(loc[p]) /\ Look(loc[p]))'
  <2>1. Kind(loc[p]) /\ Look(loc[p]) /\ WellFormed(loc[p], file[p])
        /\ loc[p].cur \in Inodes \cup {None} /\ loc[p].ip \in Inodes \cup {None}
    BY LocType DEF Inv, KindInv, Base, WFInv
  <2>2. m.pc \notin NewPcs /\ m.pc \notin {"u_lock", "u_check"}
    BY <1>9 DEF RelPcs
  <2>3. m.pc = "got" => loc[p].cur \in Inodes
    BY <1>9, <2>1 DEF WellFormed
  <2>4. /\ m.pc = "got" => type'[m.cur] = type[m.cur]
        /\ m.ip # None => type'[m.ip] = type[m.ip]
    BY <1>4, <1>7, <1>9, <2>1, <2>3
  <2>5. Kind(loc[p])'
    BY <1>9, <2>1, <2>2, <2>4 DEF Kind, Wants, m
  <2>6. Look(loc[p])'
    BY <1>9, <2>2 DEF Look, m
  <2> QED BY <2>5, <2>6
<1>19. \A d \in Inodes, k \in Names : entry[d][k] # None =>
         d # i /\ entry[d][k] \in Inodes /\ entry[d][k] # i
  BY <1>4, <1>5, <1>6 DEF Named, NoEntries
<1>20. NamesInv'
  <2>1. type'[ROOTINO] = "dir"
    BY <1>4, <1>7, Constants DEF Inv, NamesInv
  <2>2. ASSUME NEW d \in Inodes, NEW k \in Names, entry'[d][k] # None
        PROVE  type'[d] = "dir" /\ type'[entry'[d][k]] # "free" /\ entry'[d][k] # ROOTINO
    BY <1>7, <1>19, <2>2 DEF Inv, NamesInv
  <2>3. \A j \in Inodes : type'[j] = "free" => nlink'[j] = 0
    BY <1>4, <1>7 DEF Inv, NamesInv
  <2> QED BY <2>1, <2>2, <2>3 DEF NamesInv
<1>21. ASSUME NEW j \in Inodes PROVE Subs(entry'[j], type') = Subs(entry[j], type)
  <2>1. \A k \in Names : entry[j][k] # None => type'[entry[j][k]] = type[entry[j][k]]
    BY <1>7, <1>19
  <2> QED BY <2>1 DEF Subs
<1>22. CountInv'
  <2>1. ASSUME NEW j \in Inodes PROVE Had(p, j) = HasNow(p, j) /\ Had(p, j) \in Nat
    <3>1. /\ One(PendIp(loc'[p], j)) = One(PendIp(loc[p], j)) /\ One(PendDp(loc[p], j)') = One(PendDp(loc[p], j))
          /\ One(PendIp(loc[p], j)) \in Nat /\ One(PendDp(loc[p], j)) \in Nat
      BY <1>3, OneNat DEF One, Released
    <3>2. PICK e, s \in Nat : e = Cardinality(Entries(entry, j)) /\ s = Cardinality(Subs(entry[j], type))
      BY EntriesType, SubsType
    <3>3. e = Cardinality(Entries(entry', j)) /\ s = Cardinality(Subs(entry'[j], type'))
      BY <1>21, <3>2
    <3> QED BY <3>1, <3>2, <3>3 DEF Had, HasNow
  <2>2. ASSUME NEW j \in Inodes
        PROVE  /\ nlink'[j] + Had(p, j) >= nlink[j] + HasNow(p, j)
               /\ j \notin strays' => nlink'[j] + Had(p, j) = nlink[j] + HasNow(p, j)
    BY <1>6, <2>1
  <2> QED BY <1>9, <1>10, <1>14, <1>20, <2>2, CountStep
<1>23. DirOnce'
  <2> SUFFICES ASSUME NEW j \in Inodes, type'[j] = "dir"
               PROVE  Cardinality(Links(j)') + Pending(j)' <= 1
    BY DEF DirOnce
  <2>1. Links(j)' = Entries(entry', j) /\ Links(j) = Entries(entry, j)
    <3>1. TypeInv' /\ NamesInv' => LinksAre'
      BY LinksEntries, PTL
    <3> QED BY <1>10, <1>20, <3>1, LinksEntries DEF Inv, Base, LinksAre
  <2>2. Pending(j)' = Pending(j) /\ Pending(j) \in Nat
    <3>1. One(PendIp(loc[p], j)) = One(PendIp(loc'[p], j))
      BY <1>3 DEF One, Released
    <3>2. /\ Pending(j) \in Nat /\ Pending(j)' \in Nat
          /\ Pending(j)' + One(PendIp(loc[p], j)) = Pending(j) + One(PendIp(loc'[p], j))
      BY <1>9, <1>14, PendStep
    <3>3. PICK a, b, o \in Nat : a = Pending(j) /\ b = Pending(j)' /\ o = One(PendIp(loc[p], j))
      BY <3>2, OneNat
    <3>4. b + o = a + o
      BY <3>1, <3>2, <3>3
    <3> QED BY <3>3, <3>4
  <2>3. type[j] = "dir"
    BY <1>7
  <2>4. Cardinality(Links(j)) + Pending(j) <= 1
    BY <2>3 DEF Inv, DirOnce
  <2> QED BY <2>1, <2>2, <2>4
<1>24. StraysInv'
  BY DEF Inv, StraysInv, Named
<1>25. Doomed'
  <2> SUFFICES ASSUME NEW j \in Inodes, type'[j] # "free", nlink[j] = 0, j \notin damaged
               PROVE  ref'[j] >= 1 /\ (valid'[j] \/ \E q \in Procs : loc'[q].pc = "c_lock" /\ loc'[q].ip = j)
    BY DEF Doomed
  <2>1. ref'[j] \in Nat /\ ref'[j] >= ref[j] /\ loc[p].pc # "c_lock" /\ type[j] # "free"
    BY <1>6, <1>7, <1>9 DEF NewPcs
  <2> QED BY <1>9, <2>1, DoomedStep
<1>26. ValidInv'
  BY DEF Inv, ValidInv
<1> QED BY <1>3, <1>9, <1>10, <1>13, <1>14, <1>15, <1>16, <1>17, <1>18, <1>20, <1>22, <1>23, <1>24, <1>25, <1>26
     DEF Good

-----------------------------------------------------------------------------
(* Every step of a process. *)
LEMMA ReleaseStep ==
  ASSUME Inv, NEW p \in Procs, Release(p), UNCHANGED past
  PROVE  Good(p)
<1> DEFINE i == loc[p].rel[1].ino
           do == loc[p].rel[1].do
           t == Tail(loc[p].rel)
<1>1. loc[p].rel # <<>> /\ file' = file /\ strays' = strays /\ crashes' = crashes /\ damaged' = damaged
  BY DEF Release, past
<1>2. Head(loc[p].rel) = loc[p].rel[1]
  BY <1>1, HeadRelease DEF HeadFirst
<1>3. \/ /\ do = "unlock" /\ busy' = [busy EXCEPT ![i] = Nobody] /\ loc' = [loc EXCEPT ![p].rel = t]
         /\ UNCHANGED <<type, nlink, entry, dots, ref, valid>>
      \/ /\ do = "put" /\ ~LastReference(i) /\ ref' = [ref EXCEPT ![i] = @ - 1]
         /\ valid' = [valid EXCEPT ![i] = @ /\ ref[i] > 1] /\ loc' = [loc EXCEPT ![p].rel = t]
         /\ UNCHANGED <<type, nlink, entry, dots, busy>>
      \/ /\ do = "put" /\ LastReference(i) /\ busy' = [busy EXCEPT ![i] = p]
         /\ loc' = [loc EXCEPT ![p].rel = <<[do |-> "trunc", ino |-> i]>> \o t]
         /\ UNCHANGED <<type, nlink, entry, dots, ref, valid>>
      \/ /\ do = "trunc" /\ entry' = itrunc(i) /\ dots' = [dots EXCEPT ![i] = <<>>]
         /\ loc' = [loc EXCEPT ![p].rel = <<[do |-> "free", ino |-> i]>> \o t]
         /\ UNCHANGED <<type, nlink, ref, busy, valid>>
      \/ /\ do = "free" /\ type' = [type EXCEPT ![i] = "free"]
         /\ loc' = [loc EXCEPT ![p].rel = <<[do |-> "done", ino |-> i]>> \o t]
         /\ UNCHANGED <<nlink, entry, dots, ref, busy, valid>>
      \/ /\ do = "done" /\ busy' = [busy EXCEPT ![i] = Nobody] /\ valid' = [valid EXCEPT ![i] = FALSE]
         /\ ref' = [ref EXCEPT ![i] = @ - 1] /\ loc' = [loc EXCEPT ![p].rel = t]
         /\ UNCHANGED <<type, nlink, entry, dots>>
  BY <1>2 DEF Release, disk, icache
<1>4. CASE do = "unlock"
  BY <1>1, <1>3, <1>4, UnlockGood
<1>5. CASE do = "put" /\ ~LastReference(i)
  BY <1>1, <1>3, <1>5, PutGood
<1>6. CASE do = "put" /\ LastReference(i)
  BY <1>1, <1>3, <1>6, LastPutGood
<1>7. CASE do = "trunc"
  BY <1>1, <1>3, <1>7, TruncGood
<1>8. CASE do = "free"
  BY <1>1, <1>3, <1>8, FreeGood
<1>9. CASE do = "done"
  BY <1>1, <1>3, <1>9, DoneGood
<1>10. \/ do = "unlock" \/ (do = "put" /\ ~LastReference(i)) \/ (do = "put" /\ LastReference(i))
       \/ do = "trunc" \/ do = "free" \/ do = "done"
  BY <1>3
<1> QED BY <1>4, <1>5, <1>6, <1>7, <1>8, <1>9, <1>10

(* Walk() and GotLock() do one thing or another. *)
LEMMA WalkStep ==
  ASSUME Inv, NEW p \in Procs, Walk(p), UNCHANGED past
  PROVE  Good(p)
<1> DEFINE a == type[loc[p].cur] = "dir"
           b == WantsParent(p) /\ Len(loc[p].rest) = 1
           c == dirlookup(loc[p].cur, Head(loc[p].rest)) = None
<1>1. CASE a /\ b
  BY <1>1, WalkParent
<1>2. CASE ~a \/ (~b /\ c)
  BY <1>2, WalkNowhere
<1>3. CASE a /\ ~b /\ ~c
  BY <1>3, WalkOn
<1> HIDE DEF a, b, c
<1> QED BY <1>1, <1>2, <1>3

(* (The call a process runs is one of the five.) *)
LEMMA GotStep ==
  ASSUME Inv, NEW p \in Procs, GotLock(p), UNCHANGED past
  PROVE  Good(p)
<1>1. loc[p].call \in CallNames
  BY LocType DEF Inv, Base
<1>2. CASE loc[p].call \in {"create", "mkdir"}
  BY <1>2, GotCreate
<1>3. CASE loc[p].call = "unlink"
  BY <1>3, GotUnlink
<1>4. CASE loc[p].call = "open"
  BY <1>4, GotOpen
<1>5. CASE loc[p].call = "link" /\ loc[p].ip = None
  BY <1>5, GotLink
<1>6. CASE loc[p].call = "link" /\ loc[p].ip # None
  BY <1>6, GotLinkDir
<1> QED BY <1>1, <1>2, <1>3, <1>4, <1>5, <1>6 DEF CallNames

(* The cases of the other calls. *)
LEMMA CasesStep ==
  ASSUME Inv, NEW p \in Procs, UNCHANGED past,
         Nowhere(p) \/ Found(p) \/ Opened(p) \/ CreateLink(p) \/ Link(p) \/ UnlinkLookup(p) \/ UnlinkClear(p)
  PROVE  Good(p)
<1>1. CASE Nowhere(p)
  BY <1>1, NowhereEnds, NowhereBad
<1>2. CASE Found(p)
  BY <1>2, FoundEnds, FoundOpened
<1>3. CASE Opened(p)
  BY <1>3, OpenedKept, OpenedEnds
<1>4. CASE CreateLink(p)
  BY <1>4, CreateLinkEnds, CreateLinkOpens
<1>5. CASE Link(p)
  BY <1>5, LinkEnds, LinkCounts
<1>6. CASE UnlinkLookup(p)
  BY <1>6, UnlinkLookupEnds, UnlinkLookupGood
<1>7. CASE UnlinkClear(p)
  BY <1>7, UnlinkClearEnds, UnlinkClearGood
<1> QED BY <1>1, <1>2, <1>3, <1>4, <1>5, <1>6, <1>7

(* A step of a call preserves the invariant. *)
LEMMA CallGood ==
  ASSUME Inv, NEW p \in Procs, CallStep(p), UNCHANGED past
  PROVE  Good(p)
<1>1. CASE Release(p)
  BY <1>1, ReleaseStep
<1>2. CASE WalkLock(p)
  BY <1>2, WalkLockGood
<1>3. CASE Walk(p)
  BY <1>3, WalkStep
<1>4. CASE GotLock(p)
  BY <1>4, GotStep
<1>5. CASE Nowhere(p) \/ Found(p) \/ Opened(p) \/ CreateLink(p) \/ Link(p) \/ UnlinkLookup(p) \/ UnlinkClear(p)
  BY <1>5, CasesStep
<1>6. CASE CreateFound(p)
  BY <1>6, CreateFoundGood
<1>7. CASE FoundLock(p)
  BY <1>7, FoundLockGood
<1>8. CASE CreateAlloc(p)
  BY <1>8, CreateAllocGood
<1>9. CASE CreateLock(p)
  BY <1>9, CreateLockGood
<1>10. CASE CreateInit(p)
  BY <1>10, CreateInitGood
<1>11. CASE CreateDots(p)
  BY <1>11, CreateDotsGood
<1>12. CASE CreateDot(p)
  BY <1>12, CreateDotGood
<1>13. CASE LinkExists(p)
  BY <1>13, LinkExistsGood
<1>14. CASE LinkEnter(p)
  BY <1>14, LinkEnterGood
<1>15. CASE BadLock(p)
  BY <1>15, BadLockGood
<1>16. CASE Bad(p)
  BY <1>16, BadGood
<1>17. CASE UnlinkLock(p)
  BY <1>17, UnlinkLockGood
<1>18. CASE UnlinkParent(p)
  BY <1>18, UnlinkParentGood
<1>19. CASE UnlinkChild(p)
  BY <1>19, UnlinkChildGood
<1> QED BY <1>1, <1>2, <1>3, <1>4, <1>5, <1>6, <1>7, <1>8, <1>9, <1>10, <1>11, <1>12, <1>13, <1>14, <1>15,
           <1>16, <1>17, <1>18, <1>19 DEF CallStep

-----------------------------------------------------------------------------
(* The machine at rest: nothing is cached and no call runs. *)
AtRest ==
  /\ ref = [i \in Inodes |-> 0] /\ busy = [i \in Inodes |-> Nobody]
  /\ valid = [i \in Inodes |-> FALSE]
  /\ file = [p \in Procs |-> None] /\ loc = [p \in Procs |-> Idle]

(* A disk that has no call running on it. *)
DiskCount(i) == Cardinality(Links(i)) + Cardinality(Subdirs(i)) + One(i = ROOTINO)
DiskInv ==
  /\ NamesInv /\ StraysInv
  /\ dots \in [Inodes -> Seq(Inodes)]
  /\ \A i \in Inodes :
       /\ Len(dots[i]) <= 2 /\ (type[i] = "free" => dots[i] = <<>>)
       /\ nlink[i] >= DiskCount(i)
       /\ i \notin strays \cup damaged => nlink[i] = DiskCount(i)
       /\ type[i] = "dir" => Cardinality(Links(i)) <= 1
       /\ type[i] # "free" /\ i \notin damaged => nlink[i] >= 1

(* The invariant of a machine at rest is that of its disk. *)
LEMMA Resting == TypeInv /\ AtRest /\ DiskInv => Inv
<1> SUFFICES ASSUME TypeInv, AtRest, DiskInv PROVE Inv
  OBVIOUS
<1>1. /\ \A p \in Procs : loc[p] = Idle /\ file[p] = None
      /\ \A i \in Inodes : ref[i] = 0 /\ busy[i] = Nobody /\ ~valid[i] /\ i # None
  BY Constants DEF AtRest
<1>2. /\ Idle.pc = "idle" /\ Idle.call = "open" /\ Idle.rest = <<>> /\ Idle.cur = None /\ Idle.dp = None
      /\ Idle.ip = None /\ Idle.rel = <<>>
  BY DEF Idle
<1>3. WFInv
  <2>1. WellFormed(Idle, None)
    BY <1>2, RelEmpty DEF WellFormed, DpLocked, IpPcs, IpLocked, NewPcs
  <2> QED BY <1>1, <2>1 DEF WFInv
<1>4. \A i \in Inodes : /\ Claims(Idle, i) = 0 /\ Holds(Idle, None, i) = 0
                        /\ \A D : ~HeadIs(Idle, D, i)
                        /\ ~Private(Idle, i) /\ ~PendIp(Idle, i) /\ ~PendDp(Idle, i)
  <2> SUFFICES ASSUME NEW i \in Inodes
               PROVE  /\ Claims(Idle, i) = 0 /\ Holds(Idle, None, i) = 0
                      /\ \A D : ~HeadIs(Idle, D, i)
                      /\ ~Private(Idle, i) /\ ~PendIp(Idle, i) /\ ~PendDp(Idle, i)
    OBVIOUS
  <2>1. Claims(Idle, i) = 0
    BY <1>1, <1>2, RelEmpty DEF Claims, One, DpLocked, IpLocked, NewPcs
  <2>2. Holds(Idle, None, i) = 0
    BY <1>1, <1>2, RelEmpty DEF Holds, One
  <2>3. (\A D : ~HeadIs(Idle, D, i)) /\ ~Private(Idle, i) /\ ~PendIp(Idle, i) /\ ~PendDp(Idle, i)
    BY <1>1, <1>2 DEF HeadIs, Private, PendIp, PendDp, NewPcs
  <2> QED BY <2>1, <2>2, <2>3
<1>5. LockInv
  BY <1>1, <1>4, Constants DEF LockInv, One
<1>6. RefInv
  <2> SUFFICES ASSUME NEW i \in Inodes PROVE Held(i) = 0
    BY <1>1 DEF RefInv
  <2>1. {pv \in Procs \X {"cur", "dp", "ip"} : loc[pv[1]][pv[2]] = i} = {}
    BY <1>1, <1>2
  <2>2. {p \in Procs : file[p] = i} = {}
    BY <1>1
  <2>3. UNION {{<<p, k>> : k \in {k \in 1..Len(loc[p].rel) :
          loc[p].rel[k].ino = i /\ loc[p].rel[k].do # "unlock"}} : p \in Procs} = {}
    <3>1. \A p \in Procs : 1..Len(loc[p].rel) = {}
      BY <1>1, <1>2
    <3> QED BY <3>1
  <2>4. Held(i) = Cardinality({}) + Cardinality({}) + Cardinality({})
    BY <2>1, <2>2, <2>3, Zenon DEF Held
  <2> QED BY <2>4, FS_EmptySet
<1>7. NonFree /\ PrivateInv /\ DoneInv
  BY <1>1, <1>4 DEF NonFree, PrivateInv, DoneInv
<1>8. KindInv
  BY <1>1, <1>2 DEF KindInv, Kind, Look, NewPcs, WalkPcs
<1>9. ASSUME NEW i \in Inodes PROVE Pending(i) = 0 /\ PendingDp(i) = 0
  <2>1. {p \in Procs : PendIp(loc[p], i)} = {} /\ {p \in Procs : PendDp(loc[p], i)} = {}
    BY <1>1, <1>4
  <2> QED BY <2>1, FS_EmptySet DEF Pending, PendingDp
<1>10. ASSUME NEW i \in Inodes
       PROVE  /\ Cardinality(Links(i)) \in Nat /\ Cardinality(Subdirs(i)) \in Nat /\ Count(i) = DiskCount(i)
  <2>1. Cardinality(Links(i)) \in Nat /\ Cardinality(Subdirs(i)) \in Nat
    <3>1. Links(i) = Entries(entry, i) /\ Subdirs(i) = Subs(entry[i], type)
      BY LinksEntries, SubdirsSubs DEF DiskInv, LinksAre
    <3> QED BY <3>1, EntriesType, SubsType
  <2>2. PICK a, b, c \in Nat : a = Cardinality(Links(i)) /\ b = Cardinality(Subdirs(i)) /\ c = One(i = ROOTINO)
    BY <2>1, OneNat
  <2>3. Count(i) = a + b + 0 + 0 + c /\ DiskCount(i) = a + b + c
    BY <1>9, <2>2 DEF Count, DiskCount
  <2> QED BY <2>1, <2>3
<1>11. CountInv
  BY <1>10 DEF CountInv, DiskInv
<1>12. DirOnce
  <2> SUFFICES ASSUME NEW i \in Inodes, type[i] = "dir" PROVE Cardinality(Links(i)) + Pending(i) <= 1
    BY DEF DirOnce
  <2>1. PICK a \in Nat : a = Cardinality(Links(i)) /\ a <= 1
    BY <1>10 DEF DiskInv
  <2> QED BY <1>9, <2>1
<1>13. Doomed
  BY DEF Doomed, DiskInv, TypeInv
<1>14. ValidInv
  BY <1>1 DEF ValidInv
<1>15. DotsInv
  BY <1>1, <1>2, <1>4 DEF DotsInv, DiskInv
<1> QED BY <1>3, <1>5, <1>6, <1>7, <1>8, <1>11, <1>12, <1>13, <1>14, <1>15 DEF Inv, Base, DiskInv

(* What mkfs makes. *)
LEMMA InitRests == Init => Inv
<1> SUFFICES ASSUME Init PROVE Inv
  OBVIOUS
<1> USE DEF Init
<1>1. /\ \A i \in Inodes : /\ type[i] = IF i = ROOTINO THEN "dir" ELSE "free"
                           /\ nlink[i] = IF i = ROOTINO THEN 1 ELSE 0
                           /\ dots[i] = IF i = ROOTINO THEN <<ROOTINO, ROOTINO>> ELSE <<>>
                           /\ entry[i] = NoEntries /\ \A n \in Names : entry[i][n] = None
      /\ None \notin Inodes /\ ROOTINO \in Inodes
  BY Constants DEF NoEntries
<1>2. TypeInv
  <2>1. NoEntries \in [Names -> Inodes \cup {None}]
    BY DEF NoEntries
  <2>2. Idle \in Locs
    <3>1. <<>> \in Seq(Names) /\ <<>> \in Seq(Releases)
      BY RelEmpty
    <3> QED BY <3>1 DEF Idle, Locs, PCs, CallNames
  <2>3. 0 \in 0..MaxCrashes
    BY Constants
  <2> QED BY <2>1, <2>2, <2>3 DEF TypeInv
<1>3. AtRest
  BY DEF AtRest
<1>4. NamesInv /\ StraysInv
  BY <1>1 DEF NamesInv, StraysInv
<1>5. ASSUME NEW i \in Inodes PROVE Links(i) = {} /\ Subdirs(i) = {}
  BY <1>1 DEF Links, Subdirs
<1>6. \A i \in Inodes : Cardinality(Links(i)) = 0 /\ Cardinality(Subdirs(i)) = 0
  BY <1>5, FS_EmptySet
<1>7. /\ dots \in [Inodes -> Seq(Inodes)]
      /\ \A i \in Inodes : Len(dots[i]) <= 2 /\ (type[i] = "free" => dots[i] = <<>>)
  <2>1. /\ <<ROOTINO, ROOTINO>> \in Seq(Inodes) /\ Len(<<ROOTINO, ROOTINO>>) <= 2
        /\ <<>> \in Seq(Inodes) /\ Len(<<>>) <= 2
    BY <1>1
  <2> QED BY <1>1, <2>1
<1>8. DiskInv
  BY <1>1, <1>4, <1>6, <1>7 DEF DiskInv, DiskCount, One
<1> QED BY <1>2, <1>3, <1>8, Resting

(* What a crash leaves. *)
LEMMA CrashRests == ASSUME Inv, Crash PROVE Inv'
<1>1. AtRest' /\ UNCHANGED <<type, nlink, entry, dots, strays>> /\ damaged' = {i \in Inodes : ~Exact(i)}
  BY DEF AtRest, Crash, disk
<1>2. TypeInv'
  <2>1. Idle \in Locs
    <3>1. <<>> \in Seq(Names) /\ <<>> \in Seq(Releases)
      BY RelEmpty
    <3> QED BY <3>1 DEF Idle, Locs, PCs, CallNames
  <2>2. crashes' \in 0..MaxCrashes
    BY Constants DEF Crash, Inv, Base, TypeInv
  <2> QED BY <1>1, <2>1, <2>2 DEF TypeInv, Inv, Base, AtRest
<1>3. NamesInv' /\ StraysInv' /\ dots' \in [Inodes -> Seq(Inodes)]
  BY <1>1 DEF Inv, NamesInv, StraysInv, Named, DotsInv
<1>4. ASSUME NEW i \in Inodes
      PROVE  /\ Len(dots'[i]) <= 2 /\ (type'[i] = "free" => dots'[i] = <<>>)
             /\ nlink'[i] >= DiskCount(i)'
             /\ i \notin strays' \cup damaged' => nlink'[i] = DiskCount(i)'
             /\ type'[i] = "dir" => Cardinality(Links(i)') <= 1
             /\ type'[i] # "free" /\ i \notin damaged' => nlink'[i] >= 1
  <2>1. Links(i)' = Links(i) /\ Subdirs(i)' = Subdirs(i) /\ DiskCount(i)' = DiskCount(i)
    BY <1>1 DEF Links, Subdirs, DiskCount
  <2>2. Links(i) = Entries(entry, i) /\ Subdirs(i) = Subs(entry[i], type)
    BY LinksEntries, SubdirsSubs DEF Inv, Base, LinksAre
  <2>3. Cardinality(Links(i)) \in Nat /\ Cardinality(Subdirs(i)) \in Nat /\ IsFiniteSet(Links(i))
    BY <2>2, EntriesType, SubsType
  <2>4. Pending(i) \in Nat /\ PendingDp(i) \in Nat
    BY Constants, FS_Subset, FS_CardinalityType DEF Pending, PendingDp
  <2>5. PICK n, a, b, c, x, y \in Nat :
          /\ n = nlink[i] /\ a = Cardinality(Links(i)) /\ b = Cardinality(Subdirs(i)) /\ c = One(i = ROOTINO)
          /\ x = Pending(i) /\ y = PendingDp(i)
    <3>1. nlink[i] \in Nat
      BY DEF Inv, Base, TypeInv
    <3> QED BY <2>3, <2>4, <3>1, OneNat
  <2>6. n >= a + b + x + y + c
    BY <2>5 DEF Inv, CountInv, Count
  <2>7. DiskCount(i) = a + b + c /\ n >= a + b + c
    BY <2>5, <2>6 DEF DiskCount
  <2>8. type[i] = "dir" => a + x <= 1
    BY <2>5 DEF Inv, DirOnce
  <2>9. (c = 1 <=> i = ROOTINO) /\ (c = 0 <=> i # ROOTINO)
    BY <2>5 DEF One
  <2>10. Links(i) # {} => a >= 1
    <3>1. a = 0 => Links(i) = {}
      BY <2>3, <2>5, FS_EmptySet
    <3> QED BY <3>1
  <2>11. i = ROOTINO => a = 0
    <3>1. i = ROOTINO => Links(i) = {}
      BY Constants DEF Links, Inv, NamesInv
    <3> QED BY <2>5, <3>1, FS_EmptySet
  <2>12. type[i] # "dir" => b = 0
    <3>1. type[i] # "dir" => Subdirs(i) = {}
      BY DEF Subdirs, Inv, NamesInv
    <3> QED BY <2>5, <3>1, FS_EmptySet
  <2>13. type[ROOTINO] = "dir" /\ (type[i] = "free" => n = 0) /\ type[i] \in {"free", "file", "dir"}
    BY <2>5 DEF Inv, NamesInv, Base, TypeInv
  <2>14. ASSUME i \notin damaged' PROVE n = a + b + c /\ (type[i] # "free" => n >= 1)
    <3>1. /\ type[i] # "free" => a >= 1 \/ i = ROOTINO
          /\ type[i] = "file" => n = a
          /\ type[i] = "dir" => n = 1 + b
      BY <1>1, <2>5, <2>10, <2>14 DEF Exact
    <3>2. CASE type[i] = "free"
      BY <2>7, <2>13, <3>2
    <3>3. CASE type[i] = "file"
      BY <2>9, <2>12, <2>13, <3>1, <3>3
    <3>4. CASE type[i] = "dir"
      <4>1. CASE i = ROOTINO
        BY <2>9, <2>11, <3>1, <3>4, <4>1
      <4>2. CASE i # ROOTINO
        BY <2>8, <2>9, <3>1, <3>4, <4>2
      <4> QED BY <4>1, <4>2
    <3> QED BY <2>13, <3>2, <3>3, <3>4
  <2>15. type[i] = "dir" => a <= 1
    BY <2>8
  <2>16. Len(dots'[i]) <= 2 /\ (type'[i] = "free" => dots'[i] = <<>>)
    BY <1>1 DEF Inv, DotsInv
  <2> QED BY <1>1, <2>1, <2>5, <2>7, <2>14, <2>15, <2>16
<1>5. DiskInv'
  BY <1>3, <1>4 DEF DiskInv
<1>6. TypeInv' /\ AtRest' /\ DiskInv' => Inv'
  BY Resting, PTL
<1> QED BY <1>1, <1>2, <1>5, <1>6

-----------------------------------------------------------------------------
(* A step that changes nothing. *)
LEMMA Stuttering == ASSUME Inv, UNCHANGED vars PROVE Inv'
<1> USE DEF vars, disk, icache, past
<1>1. Base'
  <2>1. TypeInv' /\ WFInv' /\ LockInv'
    BY DEF Inv, Base, TypeInv, WFInv, LockInv
  <2>2. TypeInv' /\ WFInv' => HeldSum'
    BY HeldIs, PTL
  <2>3. ASSUME NEW i \in Inodes PROVE Held(i)' = Held(i)
    <3>1. Held(i) = HeldBy(loc, file, Procs, i)
      BY HeldIs DEF HeldSum, Inv, Base
    <3>2. Held(i)' = HeldBy(loc', file', Procs, i)
      BY <2>1, <2>2 DEF HeldSum
    <3>3. loc' = loc /\ file' = file
      OBVIOUS
    <3> QED BY <3>1, <3>2, <3>3
  <2>4. RefInv'
    BY <2>3 DEF RefInv, Inv, Base
  <2> QED BY <2>1, <2>4 DEF Base
<1>2. NonFree' /\ PrivateInv' /\ DoneInv'
  BY DEF Inv, NonFree, PrivateInv, DoneInv, Named, Pair
<1>3. NamesInv' /\ KindInv'
  BY DEF Inv, NamesInv, KindInv, Kind, Look
<1>4. CountInv' /\ DirOnce'
  BY DEF Inv, CountInv, DirOnce, Count, Links, Subdirs, Pending, PendingDp, PendDp
<1>5. StraysInv' /\ Doomed' /\ ValidInv' /\ DotsInv'
  BY DEF Inv, StraysInv, Named, Doomed, ValidInv, DotsInv
<1> QED BY <1>1, <1>2, <1>3, <1>4, <1>5 DEF Inv

(* The inductive invariant. *)
LEMMA InvNext == Inv /\ [Next]_vars => Inv'
<1> SUFFICES ASSUME Inv, [Next]_vars PROVE Inv'
  OBVIOUS
<1>1. ASSUME NEW p \in Procs, CallStep(p), UNCHANGED past PROVE Inv'
  BY <1>1, CallGood, GoodStep
<1>2. ASSUME NEW p \in Procs, Close(p), UNCHANGED past PROVE Inv'
  BY <1>2, CloseGood, GoodStep
<1>3. ASSUME NEW p \in Procs, NEW c \in Calls, Start(p, c), UNCHANGED past PROVE Inv'
  BY <1>3, StartGood, GoodStep
<1>4. CASE Crash
  BY <1>4, CrashRests
<1>5. CASE UNCHANGED vars
  BY <1>5, Stuttering
<1> QED BY <1>1, <1>2, <1>3, <1>4, <1>5 DEF Next

(* The invariant holds in every state: at the start, after every step of *)
(* every process, and after a crash.                                     *)
THEOREM Invariant == Spec => []Inv
<1>1. Init => Inv
  BY InitRests
<1>2. Inv /\ [Next]_vars => Inv'
  BY InvNext
<1> QED BY <1>1, <1>2, PTL DEF Spec

-----------------------------------------------------------------------------
(* What the invariant says of every state. *)
LEMMA InvTypeOK == Inv => TypeOK
<1> SUFFICES ASSUME Inv PROVE TypeOK
  OBVIOUS
<1>1. ASSUME NEW p \in Procs
      PROVE  /\ loc[p].pc \in PCs /\ loc[p].call \in CallNames
             /\ {loc[p].cur, loc[p].dp, loc[p].ip} \subseteq Inodes \cup {None}
             /\ \A k \in 1..Len(loc[p].rel) : loc[p].rel[k] \in Releases
  <2>1. /\ loc[p].pc \in PCs /\ loc[p].call \in CallNames /\ loc[p].rel \in Seq(Releases)
        /\ loc[p].cur \in Inodes \cup {None} /\ loc[p].dp \in Inodes \cup {None}
        /\ loc[p].ip \in Inodes \cup {None}
    BY LocType DEF Inv, Base
  <2>2. \A k \in 1..Len(loc[p].rel) : loc[p].rel[k] \in Releases
    BY <2>1, ElementOfSeq
  <2> QED BY <2>1, <2>2
<1> QED BY <1>1 DEF TypeOK, Inv, Base, TypeInv, DotsInv

(* No panic. *)
LEMMA InvNoPanic == Inv => NoPanic
<1> SUFFICES ASSUME Inv PROVE NoPanic
  OBVIOUS
<1>1. ASSUME NEW i \in Inodes, busy[i] # Nobody, type[i] = "free"
      PROVE  loc[busy[i]].rel # <<>> /\ Head(loc[busy[i]].rel) = [do |-> "done", ino |-> i]
  <2>1. PICK q \in Procs : busy[i] = q
    BY <1>1 DEF Inv, Base, TypeInv
  <2>2. Holds(loc[q], file[q], i) >= 1
    BY <2>1, Owner DEF Inv
  <2>3. HeadIs(loc[q], {"done"}, i)
    BY <1>1, <2>2 DEF Inv, NonFree
  <2>4. loc[q].rel # <<>> /\ i = loc[q].rel[1].ino /\ loc[q].rel[1].do = "done"
    BY <2>3 DEF HeadIs
  <2>5. HeadFirst(q, i, loc[q].rel, Tail(loc[q].rel))
    BY <2>4, HeadRelease
  <2>6. Head(loc[q].rel) = [do |-> "done", ino |-> i]
    BY <2>4, <2>5 DEF HeadFirst
  <2> QED BY <2>1, <2>4, <2>6
<1>2. ASSUME NEW p \in Procs, loc[p].rel # <<>>, Head(loc[p].rel).do = "put",
             LastReference(Head(loc[p].rel).ino)
      PROVE  busy[Head(loc[p].rel).ino] = Nobody
  <2>1. PICK i : i = loc[p].rel[1].ino
    OBVIOUS
  <2>2. HeadFirst(p, i, loc[p].rel, Tail(loc[p].rel))
    BY <1>2, <2>1, HeadRelease
  <2>3. /\ Head(loc[p].rel) = loc[p].rel[1] /\ i \in Inodes /\ loc[p].rel[1].do = "put"
        /\ Holds(loc[p], file[p], i) >= 1
    BY <1>2, <2>2 DEF HeadFirst
  <2>4. HeadIs(loc[p], {"put"}, i) /\ ref[i] = 1
    BY <1>2, <2>1, <2>3 DEF HeadIs, LastReference
  <2>5. /\ ref[i] >= Holds(loc[p], file[p], i)
        /\ \A q \in Procs \ {p} : ref[i] >= Holds(loc[p], file[p], i) + Holds(loc[q], file[q], i)
    BY <2>3, RefHolds DEF Inv
  <2>6. Holds(loc[p], file[p], i) \in Nat /\ \A q \in Procs \ {p} : Holds(loc[q], file[q], i) \in Nat
    BY HoldsType
  <2>7. Holds(loc[p], file[p], i) = 1 /\ \A q \in Procs \ {p} : Holds(loc[q], file[q], i) = 0
    BY <2>3, <2>4, <2>5, <2>6
  <2>8. ASSUME NEW q \in Procs, busy[i] = q PROVE FALSE
    <3>1. Holds(loc[q], file[q], i) >= 1 /\ (q = p => Holds(loc[p], file[p], i) >= 2)
      BY <2>3, <2>4, <2>8, Owner DEF Inv
    <3> QED BY <2>7, <3>1
  <2>9. busy[i] \in Procs \cup {Nobody}
    BY <2>3 DEF Inv, Base, TypeInv
  <2> QED BY <2>1, <2>3, <2>8, <2>9
<1>3. ASSUME NEW p \in Procs, loc[p].pc = "u_check" PROVE nlink[loc[p].ip] >= 1
  <2>1. /\ WellFormed(loc[p], file[p]) /\ loc[p].dp \in Inodes \cup {None} /\ loc[p].ip \in Inodes \cup {None}
        /\ loc[p].rest \in Seq(Names)
    BY LocType DEF Inv, Base, WFInv
  <2>2. loc[p].dp \in Inodes /\ loc[p].ip \in Inodes /\ Len(loc[p].rest) = 1
    BY <1>3, <2>1 DEF WellFormed, DpLocked, IpPcs, IpLocked
  <2>3. loc[p].rest[1] \in Names
    <3>1. 1 \in 1..1
      OBVIOUS
    <3>2. 1 \in 1..Len(loc[p].rest)
      BY <2>2, <3>1, Zenon
    <3> QED BY <2>1, <3>2, ElementOfSeq
  <2>4. entry[loc[p].dp][loc[p].rest[1]] = loc[p].ip
    BY <1>3 DEF Inv, KindInv, Look
  <2>5. Named(loc[p].ip)
    BY <2>2, <2>3, <2>4 DEF Named
  <2> QED BY <2>2, <2>5, CountFacts
<1> QED BY <1>1, <1>2, <1>3 DEF NoPanic

(* ip->ref counts the references to a cached inode, and no panic of iget(), *)
(* ilock(), iput() or sys_unlink() is reached.                              *)
THEOREM RefsAreExact == Spec => []RefExact
<1>1. Inv => RefExact
  BY InvTypeOK, InvNoPanic DEF RefExact, Inv, Base, RefInv
<1> QED BY <1>1, Invariant, PTL

(* Whenever the machine stops no name stands for a free inode, and an inode *)
(* has no more names than links.                                            *)
THEOREM CrashesAreSafe == Spec => []CrashSafe
<1>1. Inv => CrashSafe
  <2> SUFFICES ASSUME Inv, NEW i \in Inodes \ {ROOTINO}
               PROVE  (Links(i) # {} => type[i] # "free") /\ nlink[i] >= Cardinality(Links(i))
    BY DEF CrashSafe
  <2>1. Links(i) # {} => type[i] # "free"
    BY Constants DEF Links, Inv, NamesInv
  <2>2. Links(i) = Entries(entry, i) /\ Subdirs(i) = Subs(entry[i], type)
    BY LinksEntries, SubdirsSubs DEF Inv, Base, LinksAre
  <2>3. Pending(i) \in Nat /\ PendingDp(i) \in Nat
    BY Constants, FS_Subset, FS_CardinalityType DEF Pending, PendingDp
  <2>4. PICK n, a, b, c, x, y \in Nat :
          /\ n = nlink[i] /\ a = Cardinality(Links(i)) /\ b = Cardinality(Subdirs(i)) /\ c = One(i = ROOTINO)
          /\ x = Pending(i) /\ y = PendingDp(i)
    <3>1. nlink[i] \in Nat
      BY DEF Inv, Base, TypeInv
    <3>2. Cardinality(Links(i)) \in Nat /\ Cardinality(Subdirs(i)) \in Nat
      BY <2>2, EntriesType, SubsType
    <3> QED BY <2>3, <3>1, <3>2, OneNat
  <2>5. n >= a + b + x + y + c
    BY <2>4 DEF Inv, CountInv, Count
  <2>6. n >= a
    BY <2>5
  <2> QED BY <2>1, <2>4, <2>6
<1> QED BY <1>1, Invariant, PTL

(* With no call running, the links counted are the names, and every inode   *)
(* has a name or is open.                                                   *)
THEOREM NothingIsLost == Spec => []NothingLost
<1>1. Inv => NothingLost
  <2> SUFFICES ASSUME Inv, Quiet, NEW i \in Inodes \ ({ROOTINO} \cup strays \cup damaged)
               PROVE  /\ type[i] = "file" => nlink[i] = Cardinality(Links(i))
                      /\ type[i] = "dir" /\ Links(i) # {} => nlink[i] = 1 + Cardinality(Subdirs(i))
                      /\ type[i] # "free" => Links(i) # {} \/ \E p \in Procs : file[p] = i
                      /\ busy[i] = Nobody
    BY DEF NothingLost
  <2>1. \A p \in Procs : loc[p] = Idle
    BY DEF Quiet
  <2>2. /\ Idle.pc = "idle" /\ Idle.cur = None /\ Idle.dp = None /\ Idle.ip = None /\ Idle.rel = <<>> /\ i # None
    BY Constants DEF Idle
  <2>3. ~PendIp(Idle, i) /\ ~PendDp(Idle, i) /\ Claims(Idle, i) = 0
    <3>1. ~PendIp(Idle, i) /\ ~PendDp(Idle, i)
      BY <2>2 DEF PendIp, PendDp
    <3>2. Claims(Idle, i) = 0
      BY <2>2, RelEmpty DEF Claims, One, DpLocked, IpLocked, NewPcs
    <3> QED BY <3>1, <3>2
  <2>4. Pending(i) = 0 /\ PendingDp(i) = 0
    <3>1. {p \in Procs : PendIp(loc[p], i)} = {} /\ {p \in Procs : PendDp(loc[p], i)} = {}
      BY <2>1, <2>3
    <3> QED BY <3>1, FS_EmptySet DEF Pending, PendingDp
  <2>5. LinksAre /\ Links(i) = Entries(entry, i) /\ Subdirs(i) = Subs(entry[i], type)
    BY LinksEntries, SubdirsSubs DEF Inv, Base, LinksAre
  <2>6. IsFiniteSet(Links(i)) /\ Cardinality(Links(i)) \in Nat /\ Cardinality(Subdirs(i)) \in Nat
    BY <2>5, EntriesType, SubsType
  <2>7. PICK n, a, b \in Nat : n = nlink[i] /\ a = Cardinality(Links(i)) /\ b = Cardinality(Subdirs(i))
    <3>1. nlink[i] \in Nat
      BY DEF Inv, Base, TypeInv
    <3> QED BY <2>6, <3>1
  <2>8. n = a + b
    <3>1. nlink[i] = Count(i) /\ One(i = ROOTINO) = 0
      BY DEF Inv, CountInv, One
    <3>2. Count(i) = a + b + 0 + 0 + 0
      BY <2>4, <2>7, <3>1 DEF Count
    <3> QED BY <2>7, <3>1, <3>2
  <2>9. type[i] # "dir" => b = 0
    <3>1. type[i] # "dir" => Subdirs(i) = {}
      BY DEF Subdirs, Inv, NamesInv
    <3> QED BY <2>7, <3>1, FS_EmptySet
  <2>10. type[i] = "file" => nlink[i] = Cardinality(Links(i))
    BY <2>7, <2>8, <2>9
  <2>11. type[i] = "dir" /\ Links(i) # {} => nlink[i] = 1 + Cardinality(Subdirs(i))
    <3> SUFFICES ASSUME type[i] = "dir", Links(i) # {} PROVE n = 1 + b
      BY <2>7
    <3>1. a # 0
      BY <2>6, <2>7, FS_EmptySet
    <3>2. a + 0 <= 1
      BY <2>4, <2>7 DEF Inv, DirOnce
    <3> QED BY <2>8, <3>1, <3>2
  <2>12. ASSUME type[i] # "free", Links(i) = {} PROVE \E p \in Procs : file[p] = i
    <3>1. ~Named(i)
      <4> SUFFICES ASSUME NEW d \in Inodes, NEW k \in Names, entry[d][k] = i PROVE FALSE
        BY DEF Named
      <4>1. <<d, k>> \in Entries(entry, i)
        BY DEF Entries
      <4> QED BY <2>5, <2>12, <4>1
    <3>2. Subdirs(i) = {}
      BY <3>1 DEF Subdirs, Inv, StraysInv
    <3>3. a = 0 /\ b = 0
      BY <2>7, <2>12, <3>2, FS_EmptySet
    <3>4. nlink[i] = 0
      BY <2>7, <2>8, <3>3
    <3>5. ref[i] >= 1 /\ ref[i] = Held(i)
      BY <2>12, <3>4 DEF Inv, Doomed, Base, RefInv
    <3> SUFFICES ASSUME \A p \in Procs : file[p] # i PROVE FALSE
      OBVIOUS
    <3>6. {pv \in Procs \X {"cur", "dp", "ip"} : loc[pv[1]][pv[2]] = i} = {}
      BY <2>1, <2>2
    <3>7. {p \in Procs : file[p] = i} = {}
      OBVIOUS
    <3>8. UNION {{<<p, k>> : k \in {k \in 1..Len(loc[p].rel) :
            loc[p].rel[k].ino = i /\ loc[p].rel[k].do # "unlock"}} : p \in Procs} = {}
      <4>1. \A p \in Procs : 1..Len(loc[p].rel) = {}
        BY <2>1, <2>2
      <4> QED BY <4>1
    <3>9. Held(i) = Cardinality({}) + Cardinality({}) + Cardinality({})
      BY <3>6, <3>7, <3>8, Zenon DEF Held
    <3>10. Held(i) = 0
      BY <3>9, FS_EmptySet
    <3> QED BY <3>5, <3>10
  <2>13. busy[i] = Nobody
    <3>1. \A p \in Procs : busy[i] # p
      BY <2>1, <2>3 DEF Inv, Base, LockInv, One
    <3>2. busy[i] \in Procs \cup {Nobody}
      BY DEF Inv, Base, TypeInv
    <3> QED BY <3>1, <3>2
  <2> QED BY <2>10, <2>11, <2>12, <2>13
<1> QED BY <1>1, Invariant, PTL

-----------------------------------------------------------------------------
(* "." and ".." of a directory in the making, and of all that have a name. *)
DotsOf(l) ==
  /\ l.pc = "c_dotdot" => dots[l.ip] = <<l.ip>>
  /\ l.pc = "c_link" /\ l.call = "mkdir" => dots[l.ip] = <<l.ip, l.dp>>
DotsRight ==
  /\ dots[ROOTINO] = <<ROOTINO, ROOTINO>>
  /\ \A d \in Inodes, n \in Names :
       entry[d][n] # None /\ type[entry[d][n]] = "dir" => dots[entry[d][n]] = <<entry[d][n], d>>
  /\ \A p \in Procs : DotsOf(loc[p])

(* The dots in the making of the others stay as they are. *)
LEMMA RightStep ==
  ASSUME Inv, DotsRight, NEW p \in Procs, Good(p), DotsOf(loc[p])', dots'[ROOTINO] = dots[ROOTINO],
         \A d \in Inodes, n \in Names :
           entry'[d][n] # None /\ type'[entry'[d][n]] = "dir" => dots'[entry'[d][n]] = <<entry'[d][n], d>>
  PROVE  DotsRight'
<1>1. ASSUME NEW q \in Procs \ {p} PROVE DotsOf(loc[q])'
  <2>1. loc'[q] = loc[q] /\ DotsOf(loc[q])
    BY FrameFacts DEF Good, DotsRight
  <2>2. ASSUME loc[q].pc \in {"c_dotdot", "c_link"} PROVE dots'[loc[q].ip] = dots[loc[q].ip]
    <3>1. loc[q].ip \in Inodes /\ Private(loc[q], loc[q].ip)
      <4>1. loc[q].pc \in NewPcs /\ loc[q].pc \in IpPcs
        BY <2>2 DEF NewPcs, IpPcs, IpLocked
      <4>2. loc[q].ip # None /\ loc[q].ip \in Inodes \cup {None}
        BY <4>1, LocType DEF Inv, Base, WFInv, WellFormed
      <4> QED BY <4>1, <4>2 DEF Private
    <3> QED BY <3>1, Excluded DEF Touches, Good
  <2> QED BY <2>1, <2>2 DEF DotsOf
<1> QED BY <1>1 DEF DotsRight

(* Steps that leave directories alone and go on to no dots in the making. *)
LEMMA RightCalm ==
  ASSUME Inv, DotsRight, NEW p \in Procs, Good(p), UNCHANGED <<type, entry, dots>>,
         loc'[p].pc = "c_link" => loc'[p].call # "mkdir", loc'[p].pc # "c_dotdot"
  PROVE  DotsRight'
<1>1. DotsOf(loc[p])'
  BY DEF DotsOf
<1> QED BY <1>1, RightStep DEF DotsRight

(* Most steps do so. *)
Calmly(p) ==
  /\ UNCHANGED <<type, entry, dots>>
  /\ loc'[p].pc = "c_link" => loc'[p].call # "mkdir"
  /\ loc'[p].pc # "c_dotdot"

(* Locking, *)
LEMMA LocksCalm ==
  ASSUME Inv, NEW p \in Procs,
         WalkLock(p) \/ GotLock(p) \/ CreateLock(p) \/ FoundLock(p) \/ BadLock(p) \/ UnlinkLock(p)
  PROVE  Calmly(p)
<1>1. loc \in [Procs -> Locs]
  BY DEF Inv, Base, TypeInv
<1>2. CASE WalkLock(p) \/ CreateLock(p) \/ FoundLock(p) \/ BadLock(p) \/ UnlinkLock(p)
  BY <1>1, <1>2 DEF WalkLock, CreateLock, FoundLock, BadLock, UnlinkLock, Locs, disk, Calmly
<1>3. CASE GotLock(p)
  BY <1>1, <1>3 DEF GotLock, Locs, disk, Calmly
<1> QED BY <1>2, <1>3

(* walking the path, *)
LEMMA WalkCalm ==
  ASSUME Inv, NEW p \in Procs, Walk(p) \/ Nowhere(p) \/ Opened(p) \/ Close(p) \/ \E c \in Calls : Start(p, c)
  PROVE  Calmly(p)
<1>1. loc \in [Procs -> Locs]
  BY DEF Inv, Base, TypeInv
<1>2. CASE Walk(p)
  BY <1>1, <1>2 DEF Walk, Locs, disk, Calmly
<1>3. CASE Nowhere(p)
  BY <1>1, <1>3 DEF Nowhere, Locs, disk, Calmly, Idle
<1>4. CASE Opened(p) \/ Close(p)
  BY ZenonT(60), <1>1, <1>4 DEF Opened, Close, Return, Locs, disk, Calmly, Idle
<1>5. CASE \E c \in Calls : Start(p, c)
  <2>1. PICK c \in Calls : loc' = [loc EXCEPT ![p] = [Idle EXCEPT !.pc = "walk", !.call = c.call,
                 !.rest = c.path, !.new = c.new, !.cur = ROOTINO]] /\ UNCHANGED disk
    BY <1>5 DEF Start
  <2>2. loc'[p].pc = "walk"
    BY <1>1, <2>1 DEF Idle
  <2> QED BY <2>1, <2>2 DEF Calmly, disk
<1> QED BY <1>2, <1>3, <1>4, <1>5

(* creating, *)
LEMMA CreateCalm ==
  ASSUME Inv, NEW p \in Procs,
         CreateFound(p) \/ Found(p) \/ CreateInit(p) \/ CreateDots(p)
  PROVE  Calmly(p)
<1>1. loc \in [Procs -> Locs]
  BY DEF Inv, Base, TypeInv
<1>2. CASE CreateFound(p)
  BY <1>1, <1>2 DEF CreateFound, Locs, disk, Calmly
<1>3. CASE Found(p)
  <2>1. UNCHANGED <<type, entry, dots>> /\ (loc' = [loc EXCEPT ![p].pc = "opened"] \/ Return(p, unlockput(loc[p].ip)))
    BY <1>3 DEF Found, disk
  <2>2. loc'[p].pc \in {"opened", "idle"}
    BY <1>1, <2>1 DEF Return, Locs, Idle
  <2> QED BY <2>1, <2>2 DEF Calmly
<1>4. CASE CreateInit(p)
  BY <1>1, <1>4 DEF CreateInit, Locs, Calmly
<1>5. CASE CreateDots(p)
  BY <1>1, <1>5 DEF CreateDots, Locs, Calmly
<1> QED BY <1>2, <1>3, <1>4, <1>5

(* linking and unlinking, but for the entries themselves. *)
LEMMA LinkCalm ==
  ASSUME Inv, NEW p \in Procs,
         Link(p) \/ LinkExists(p) \/ Bad(p) \/ UnlinkLookup(p) \/ UnlinkParent(p) \/ UnlinkChild(p)
  PROVE  Calmly(p)
<1>1. loc \in [Procs -> Locs]
  BY DEF Inv, Base, TypeInv
<1>2. CASE Link(p)
  BY <1>1, <1>2 DEF Link, Return, Locs, Calmly, Idle
<1>3. CASE LinkExists(p)
  BY <1>1, <1>3 DEF LinkExists, Locs, disk, Calmly
<1>4. CASE Bad(p) \/ UnlinkChild(p)
  BY ZenonT(60), <1>1, <1>4 DEF Bad, UnlinkChild, Return, Locs, Calmly, Idle
<1>5. CASE UnlinkLookup(p)
  BY <1>1, <1>5 DEF UnlinkLookup, Return, Locs, disk, Calmly, Idle
<1>6. CASE UnlinkParent(p)
  BY <1>1, <1>6 DEF UnlinkParent, Locs, Calmly
<1> QED BY <1>2, <1>3, <1>4, <1>5, <1>6

(* Releasing: a last iput() clears dots and type of what has no name. *)
LEMMA ReleaseRight ==
  ASSUME Inv, DotsRight, NEW p \in Procs, Release(p), Good(p)
  PROVE  DotsRight'
<1> DEFINE i == loc[p].rel[1].ino
           do == loc[p].rel[1].do
<1>1. loc[p].rel # <<>> /\ HeadFirst(p, i, loc[p].rel, Tail(loc[p].rel)) /\ loc \in [Procs -> Locs]
  BY Zenon, HeadRelease DEF Release, Inv, Base, TypeInv
<1>2. Head(loc[p].rel).do = do /\ Head(loc[p].rel).ino = i /\ i \in Inodes
  BY <1>1 DEF HeadFirst
<1>3. loc'[p].pc = loc[p].pc /\ loc[p].pc \in RelPcs
  <2>1. PICK r : loc' = [loc EXCEPT ![p].rel = r]
    BY Zenon DEF Release
  <2>2. loc'[p].pc = loc[p].pc
    BY <1>1, <2>1 DEF Locs
  <2> QED BY <1>1, <2>2 DEF Inv, Base, WFInv, WellFormed
<1>4. loc'[p].pc \notin {"c_dotdot", "c_link"} /\ DotsOf(loc[p])'
  BY <1>3 DEF RelPcs, DotsOf
<1>5. /\ type \in [Inodes -> {"free", "file", "dir"}] /\ dots \in [Inodes -> Seq(Inodes)]
      /\ entry \in [Inodes -> [Names -> Inodes \cup {None}]]
  BY DEF Inv, Base, TypeInv, DotsInv
<1>6. CASE UNCHANGED <<type, entry, dots>>
  BY <1>4, <1>6, RightCalm
<1>7. CASE do = "trunc" /\ type' = type /\ entry' = itrunc(i) /\ dots' = [dots EXCEPT ![i] = <<>>]
  <2>1. i # ROOTINO /\ ~Named(i)
    <3>1. HeadIs(loc[p], {"trunc", "free"}, i)
      BY <1>1, <1>7 DEF HeadIs
    <3> QED BY <1>2, <3>1, FreedAlone
  <2>2. dots'[ROOTINO] = dots[ROOTINO]
    BY <1>5, <1>7, <2>1, Constants
  <2>3. ASSUME NEW d \in Inodes, NEW n \in Names, entry'[d][n] # None, type'[entry'[d][n]] = "dir"
        PROVE  dots'[entry'[d][n]] = <<entry'[d][n], d>>
    <3>1. entry'[d][n] = entry[d][n]
      BY <1>2, <1>5, <1>7, <2>3 DEF itrunc, NoEntries
    <3>2. entry[d][n] \in Inodes /\ entry[d][n] # i
      BY <1>5, <2>1, <2>3, <3>1 DEF Named
    <3>3. dots[entry[d][n]] = <<entry[d][n], d>>
      BY <1>7, <2>3, <3>1 DEF DotsRight
    <3> QED BY <1>5, <1>7, <3>1, <3>2, <3>3
  <2> QED BY <1>4, <2>2, <2>3, RightStep
<1>8. CASE entry' = entry /\ dots' = dots /\ type' = [type EXCEPT ![i] = "free"]
  <2>1. \A j \in Inodes : type'[j] = "dir" => type[j] = "dir"
    BY <1>2, <1>5, <1>8
  <2>2. \A d \in Inodes, n \in Names : entry[d][n] # None => entry[d][n] \in Inodes
    BY <1>5
  <2>3. \A d \in Inodes, n \in Names :
           entry'[d][n] # None /\ type'[entry'[d][n]] = "dir" => dots'[entry'[d][n]] = <<entry'[d][n], d>>
    BY <1>8, <2>1, <2>2 DEF DotsRight
  <2> QED BY <1>4, <1>8, <2>3, RightStep
<1> HIDE DEF i, do
<1>9. \/ UNCHANGED <<type, entry, dots>>
      \/ do = "trunc" /\ type' = type /\ entry' = itrunc(i) /\ dots' = [dots EXCEPT ![i] = <<>>]
      \/ entry' = entry /\ dots' = dots /\ type' = [type EXCEPT ![i] = "free"]
  BY ZenonT(30), <1>2 DEF Release, disk
<1> QED BY <1>6, <1>7, <1>8, <1>9

(* ialloc() takes an inode that has no name, *)
LEMMA AllocRight ==
  ASSUME Inv, DotsRight, NEW p \in Procs, CreateAlloc(p), Good(p)
  PROVE  DotsRight'
<1>1. PICK i \in Inodes :
        /\ type[i] = "free"
        /\ type' = [type EXCEPT ![i] = IF loc[p].call = "mkdir" THEN "dir" ELSE "file"]
        /\ loc' = [loc EXCEPT ![p].pc = "c_lock", ![p].ip = i]
  BY DEF CreateAlloc
<1>2. entry' = entry /\ dots' = dots
  BY DEF CreateAlloc
<1>3. /\ type \in [Inodes -> {"free", "file", "dir"}] /\ loc \in [Procs -> Locs]
      /\ entry \in [Inodes -> [Names -> Inodes \cup {None}]]
  BY DEF Inv, Base, TypeInv
<1>4. DotsOf(loc[p])'
  BY <1>1, <1>3 DEF Locs, DotsOf
<1>5. ASSUME NEW d \in Inodes, NEW n \in Names, entry[d][n] # None, type'[entry[d][n]] = "dir"
      PROVE  dots[entry[d][n]] = <<entry[d][n], d>>
  <2>1. entry[d][n] \in Inodes /\ entry[d][n] # i
    BY <1>1, <1>3, <1>5 DEF Inv, NamesInv
  <2>2. type'[entry[d][n]] = type[entry[d][n]]
    BY <1>1, <1>3, <2>1
  <2> QED BY <1>5, <2>2 DEF DotsRight
<1> QED BY <1>2, <1>4, <1>5, RightStep

(* (Two elements in a row.) *)
LEMMA AppendTwo == \A x, y \in Inodes : Append(<<x>>, y) = <<x, y>>
<1> SUFFICES ASSUME NEW x \in Inodes, NEW y \in Inodes PROVE Append(<<x>>, y) = <<x, y>>
  OBVIOUS
<1>1. <<x>> \in Seq(Inodes) /\ Len(<<x>>) = 1 /\ <<x>>[1] = x
  OBVIOUS
<1>2. PICK s \in Seq(Inodes) : s = <<x>> /\ Len(s) = 1 /\ s[1] = x
  BY <1>1
<1>3. /\ Append(s, y) \in Seq(Inodes) /\ Len(Append(s, y)) = 2
      /\ Append(s, y)[1] = x /\ Append(s, y)[2] = y
  BY <1>2, AppendProperties
<1>4. <<x, y>> \in Seq(Inodes) /\ Len(<<x, y>>) = 2 /\ <<x, y>>[1] = x /\ <<x, y>>[2] = y
  OBVIOUS
<1>5. PICK t, u \in Seq(Inodes) : t = Append(s, y) /\ u = <<x, y>>
  BY <1>3, <1>4
<1>6. t = u
  <2>1. Len(t) = 2 /\ Len(u) = 2 /\ t[1] = u[1] /\ t[2] = u[2]
    BY <1>3, <1>4, <1>5
  <2>2. \A k \in 1..Len(t) : t[k] = u[k]
    BY <2>1
  <2> QED BY <2>1, <2>2, SeqEqual
<1> QED BY <1>2, <1>5, <1>6

(* create() gives it its dots, *)
LEMMA DotRight ==
  ASSUME Inv, DotsRight, NEW p \in Procs, CreateDot(p), Good(p)
  PROVE  DotsRight'
<1> DEFINE i == loc[p].ip
           d0 == loc[p].dp
<1>1. /\ loc[p].pc \in {"c_dot", "c_dotdot"} /\ type' = type /\ entry' = entry
      /\ dots' = [dots EXCEPT ![i] = Append(@, IF loc[p].pc = "c_dot" THEN i ELSE d0)]
      /\ loc' = [loc EXCEPT ![p].pc = IF loc[p].pc = "c_dot" THEN "c_dotdot" ELSE "c_link"]
  BY DEF CreateDot
<1>2. /\ dots \in [Inodes -> Seq(Inodes)] /\ loc \in [Procs -> Locs]
      /\ entry \in [Inodes -> [Names -> Inodes \cup {None}]]
  BY DEF Inv, Base, TypeInv, DotsInv
<1>3. i \in Inodes /\ d0 \in Inodes /\ Private(loc[p], i)
  <2>1. loc[p].pc \in NewPcs /\ loc[p].pc \in IpPcs /\ loc[p].pc \in DpLocked
    BY <1>1 DEF NewPcs, IpPcs, IpLocked, DpLocked
  <2>2. WellFormed(loc[p], file[p]) /\ i \in Inodes \cup {None} /\ d0 \in Inodes \cup {None}
    BY LocType DEF Inv, Base, WFInv
  <2> QED BY <2>1, <2>2 DEF WellFormed, Private
<1>4. i # ROOTINO /\ ~Named(i)
  BY <1>3 DEF Inv, PrivateInv
<1>5. dots'[ROOTINO] = dots[ROOTINO]
  BY <1>1, <1>2, <1>4, Constants
<1>6. loc'[p].ip = i /\ loc'[p].dp = d0 /\ loc'[p].pc = IF loc[p].pc = "c_dot" THEN "c_dotdot" ELSE "c_link"
  BY <1>1, <1>2 DEF Locs
<1>7. dots'[i] = Append(dots[i], IF loc[p].pc = "c_dot" THEN i ELSE d0)
  BY <1>1, <1>2, <1>3
<1>8. DotsOf(loc[p])'
  <2>1. CASE loc[p].pc = "c_dot"
    <3>1. dots[i] = <<>>
      BY <1>3, <2>1 DEF Inv, DotsInv
    <3>2. dots'[i] = <<i>>
      BY <1>3, <1>7, <2>1, <3>1
    <3> QED BY <1>6, <2>1, <3>2 DEF DotsOf
  <2>2. CASE loc[p].pc = "c_dotdot"
    <3>1. dots[i] = <<i>>
      BY <2>2 DEF DotsRight, DotsOf
    <3>2. dots'[i] = <<i, d0>>
      <4>1. dots'[i] = Append(<<i>>, d0)
        BY <1>7, <2>2, <3>1
      <4> QED BY <1>3, <4>1, AppendTwo
    <3> QED BY <1>6, <2>2, <3>2 DEF DotsOf
  <2> QED BY <1>1, <2>1, <2>2
<1>9. ASSUME NEW d \in Inodes, NEW n \in Names, entry[d][n] # None, type[entry[d][n]] = "dir"
      PROVE  dots'[entry[d][n]] = <<entry[d][n], d>>
  <2>1. entry[d][n] \in Inodes /\ entry[d][n] # i
    BY <1>2, <1>4, <1>9 DEF Named
  <2>2. dots'[entry[d][n]] = dots[entry[d][n]]
    BY <1>1, <1>2, <2>1
  <2> QED BY <1>9, <2>2 DEF DotsRight
<1> QED BY <1>1, <1>5, <1>8, <1>9, RightStep

(* and then its name; link() names files only, and unlink() clears a name. *)
LEMMA EnterRight ==
  ASSUME Inv, DotsRight, NEW p \in Procs, NEW i,
         entry' = [entry EXCEPT ![loc[p].dp][Name(p)] = i], type' = type, dots' = dots,
         i # None /\ type[i] = "dir" => dots[i] = <<i, loc[p].dp>>,
         loc'[p].pc \notin {"c_dotdot", "c_link"}, Good(p)
  PROVE  DotsRight'
<1>1. entry \in [Inodes -> [Names -> Inodes \cup {None}]]
  BY DEF Inv, Base, TypeInv
<1>2. DotsOf(loc[p])'
  BY DEF DotsOf
<1>3. ASSUME NEW d \in Inodes, NEW n \in Names, entry'[d][n] # None, type[entry'[d][n]] = "dir"
      PROVE  dots[entry'[d][n]] = <<entry'[d][n], d>>
  <2>1. CASE d = loc[p].dp /\ n = Name(p)
    <3>1. entry'[d][n] = i
      BY <1>1, <2>1
    <3> QED BY <1>3, <2>1, <3>1
  <2>2. CASE ~(d = loc[p].dp /\ n = Name(p))
    <3>1. entry'[d][n] = entry[d][n]
      BY <1>1, <2>2
    <3> QED BY <1>3, <3>1 DEF DotsRight
  <2> QED BY <2>1, <2>2
<1> QED BY <1>2, <1>3, RightStep

(* The three calls that write entries. *)
LEMMA EntriesRight ==
  ASSUME Inv, DotsRight, NEW p \in Procs, CreateLink(p) \/ LinkEnter(p) \/ UnlinkClear(p), Good(p)
  PROVE  DotsRight'
<1> DEFINE l == loc[p]
<1>1. loc \in [Procs -> Locs] /\ WellFormed(l, file[p]) /\ Kind(l)
  BY DEF Inv, Base, TypeInv, WFInv, KindInv
<1>2. CASE CreateLink(p)
  <2>1. /\ l.pc = "c_link" /\ type' = type /\ dots' = dots
        /\ entry' = [entry EXCEPT ![l.dp][Name(p)] = l.ip]
    BY <1>2 DEF CreateLink, Enter, At
  <2>2. loc'[p].pc \notin {"c_dotdot", "c_link"}
    <3>1. \/ loc' = [loc EXCEPT ![p].pc = "opened", ![p].dp = None, ![p].rel = unlockput(l.dp)]
          \/ Return(p, unlockput(l.dp) \o unlockput(l.ip))
      BY <1>2 DEF CreateLink
    <3>2. loc'[p].pc \in {"opened", "idle"}
      BY <1>1, <3>1 DEF Return, Locs, Idle
    <3> QED BY <3>2
  <2>3. type[l.ip] = "dir" => l.call = "mkdir"
    BY <1>1, <2>1 DEF Kind, NewPcs
  <2>4. type[l.ip] = "dir" => dots[l.ip] = <<l.ip, l.dp>>
    BY <2>1, <2>3 DEF DotsRight, DotsOf
  <2> QED BY <2>1, <2>2, <2>4, EnterRight
<1>3. CASE LinkEnter(p)
  <2>1. /\ l.pc = "link_dir" /\ type' = type /\ dots' = dots
        /\ entry' = [entry EXCEPT ![l.dp][Name(p)] = l.ip]
    BY <1>3 DEF LinkEnter, Enter, At
  <2>2. loc'[p].pc \notin {"c_dotdot", "c_link"}
    BY <1>1, <1>3 DEF LinkEnter, Return, Idle
  <2>3. l.ip # None => type[l.ip] = "file"
    BY <1>1, <2>1 DEF Kind
  <2> QED BY <2>1, <2>2, <2>3, EnterRight
<1>4. CASE UnlinkClear(p)
  <2>1. /\ type' = type /\ dots' = dots
        /\ entry' = entry \/ entry' = [entry EXCEPT ![l.dp][Name(p)] = None]
    BY <1>4 DEF UnlinkClear
  <2>2. loc'[p].pc \notin {"c_dotdot", "c_link"}
    BY <1>1, <1>4 DEF UnlinkClear, Return, Locs, Idle
  <2> QED BY <2>1, <2>2, EnterRight, RightCalm
<1> QED BY <1>2, <1>3, <1>4

(* Every step leaves the dots right. *)
LEMMA RightNext == Inv /\ DotsRight /\ [Next]_vars => DotsRight'
<1> SUFFICES ASSUME Inv, DotsRight, [Next]_vars PROVE DotsRight'
  OBVIOUS
<1>1. ASSUME NEW p \in Procs, Good(p), Calmly(p) PROVE DotsRight'
  BY <1>1, RightCalm DEF Calmly
<1>2. ASSUME NEW p \in Procs, CallStep(p), UNCHANGED past PROVE DotsRight'
  <2>1. Good(p)
    BY <1>2, CallGood
  <2>2. CASE Release(p)
    BY <2>1, <2>2, ReleaseRight
  <2>3. CASE CreateAlloc(p)
    BY <2>1, <2>3, AllocRight
  <2>4. CASE CreateDot(p)
    BY <2>1, <2>4, DotRight
  <2>5. CASE CreateLink(p) \/ LinkEnter(p) \/ UnlinkClear(p)
    BY <2>1, <2>5, EntriesRight
  <2>6. CASE WalkLock(p) \/ GotLock(p) \/ CreateLock(p) \/ FoundLock(p) \/ BadLock(p) \/ UnlinkLock(p)
    BY <1>1, <2>1, <2>6, LocksCalm
  <2>7. CASE Walk(p) \/ Nowhere(p) \/ Opened(p)
    BY <1>1, <2>1, <2>7, WalkCalm
  <2>8. CASE CreateFound(p) \/ Found(p) \/ CreateInit(p) \/ CreateDots(p)
    BY <1>1, <2>1, <2>8, CreateCalm
  <2>9. CASE Link(p) \/ LinkExists(p) \/ Bad(p) \/ UnlinkLookup(p) \/ UnlinkParent(p) \/ UnlinkChild(p)
    BY <1>1, <2>1, <2>9, LinkCalm
  <2> QED BY <1>2, <2>2, <2>3, <2>4, <2>5, <2>6, <2>7, <2>8, <2>9 DEF CallStep
<1>3. ASSUME NEW p \in Procs, Close(p), UNCHANGED past PROVE DotsRight'
  BY <1>1, <1>3, CloseGood, WalkCalm
<1>4. ASSUME NEW p \in Procs, NEW c \in Calls, Start(p, c), UNCHANGED past PROVE DotsRight'
  <2>1. Good(p)
    BY <1>4, StartGood
  <2>2. Calmly(p)
    BY <1>4, WalkCalm
  <2> QED BY <1>1, <2>1, <2>2
<1>5. CASE Crash
  <2>1. UNCHANGED <<type, entry, dots>> /\ loc' = [p \in Procs |-> Idle]
    BY <1>5 DEF Crash, disk
  <2>2. \A p \in Procs : loc'[p].pc = "idle"
    BY <2>1 DEF Idle
  <2> QED BY <2>1, <2>2 DEF DotsRight, DotsOf
<1>6. CASE UNCHANGED vars
  BY <1>6 DEF vars, disk, DotsRight, DotsOf
<1> QED BY <1>2, <1>3, <1>4, <1>5, <1>6 DEF Next

(* "." and ".." are right in every state. *)
THEOREM DotsAreRight == Spec => []DotsRight
<1>1. Init => DotsRight
  <2> SUFFICES ASSUME Init PROVE DotsRight
    OBVIOUS
  <2>1. dots[ROOTINO] = <<ROOTINO, ROOTINO>>
    BY Constants DEF Init
  <2>2. \A d \in Inodes, n \in Names : entry[d][n] = None
    BY DEF Init, NoEntries
  <2>3. \A p \in Procs : loc[p].pc = "idle"
    BY DEF Init, Idle
  <2> QED BY <2>1, <2>2, <2>3 DEF DotsRight, DotsOf
<1>2. Inv /\ DotsRight /\ [Next]_vars => DotsRight'
  BY RightNext
<1> QED BY <1>1, <1>2, Invariant, PTL DEF Spec

-----------------------------------------------------------------------------
(* The names of directory d, as the checker sees them. *)
Real(d) == {[name |-> n, inum |-> entry[d][n]] : n \in {n \in Names : entry[d][n] # None}}

(* What the checker sees of a directory whose dots stand for itself and c. *)
LEMMA DirentsAre ==
  ASSUME DotsInv, NEW d \in Inodes
  PROVE  /\ Real(d) \subseteq Dirents(d)
         /\ \A e \in Real(d) : e.name \in Names /\ e.name \notin {".", ".."} /\ e.inum # None
         /\ \A e \in Dirents(d) : e.name \notin {".", ".."} => e \in Real(d)
         /\ dots[d] = <<>> => Dirents(d) = Real(d)
         /\ \A c \in Inodes : dots[d] = <<d, c>> =>
              /\ \A e \in Dirents(d) : e.name = "." => e.inum = d
              /\ \A e \in Dirents(d) : e.name = ".." => e.inum = c
              /\ \E e \in Dirents(d) : e.name = "." /\ e.inum = d
              /\ \E e \in Dirents(d) : e.name = ".." /\ e.inum = c
<1> DEFINE D == {[name |-> IF k = 1 THEN "." ELSE "..", inum |-> dots[d][k]] : k \in DOMAIN dots[d]}
<1>1. Dirents(d) = Real(d) \cup D
  BY DEF Dirents, Real
<1>2. \A e \in Real(d) : e.name \in Names /\ e.name \notin {".", ".."} /\ e.inum # None
  BY NoDotNames DEF Real, NoDotNames
<1>3. \A e \in D : e.name \in {".", ".."}
  OBVIOUS
<1>4. dots[d] = <<>> => D = {}
  OBVIOUS
<1>5. ASSUME NEW c \in Inodes, dots[d] = <<d, c>>
      PROVE  D = {[name |-> ".", inum |-> d], [name |-> "..", inum |-> c]}
  <2>1. DOMAIN dots[d] = {1, 2} /\ dots[d][1] = d /\ dots[d][2] = c
    BY <1>5
  <2> QED BY <2>1
<1> HIDE DEF D
<1>6. ASSUME NEW c \in Inodes, dots[d] = <<d, c>>
      PROVE  /\ \A e \in Dirents(d) : e.name = "." => e.inum = d
             /\ \A e \in Dirents(d) : e.name = ".." => e.inum = c
             /\ \E e \in Dirents(d) : e.name = "." /\ e.inum = d
             /\ \E e \in Dirents(d) : e.name = ".." /\ e.inum = c
  <2> DEFINE u == [name |-> ".", inum |-> d]
             v == [name |-> "..", inum |-> c]
  <2>1. u.name = "." /\ u.inum = d /\ v.name = ".." /\ v.inum = c
    OBVIOUS
  <2>2. Dirents(d) = Real(d) \cup {u, v}
    BY <1>1, <1>5, <1>6
  <2> HIDE DEF u, v
  <2>3. \A e \in Dirents(d) : e \in Real(d) \/ e = u \/ e = v
    BY <2>2
  <2>4. u \in Dirents(d) /\ v \in Dirents(d)
    BY <2>2
  <2> QED BY <1>2, <2>1, <2>3, <2>4
<1>7. Real(d) \subseteq Dirents(d) /\ (dots[d] = <<>> => Dirents(d) = Real(d))
  BY <1>1, <1>4
<1>8. \A e \in Dirents(d) : e.name \notin {".", ".."} => e \in Real(d)
  BY <1>1, <1>3
<1> QED BY <1>2, <1>6, <1>7, <1>8, Zenon

(* The entries of all directories that the checker counts for i. *)
LEMMA EntriesAre ==
  ASSUME NEW i, NEW x
  PROVE  x \in Rules!Entries(i) <=>
           \E d \in Inodes : type[d] = "dir" /\ \E e \in Dirents(d) : e.inum = i /\ x = <<d, e>>
BY DEF Rules!Entries, Rules!dirarr

(* (They are finitely many: each has another place or name.) *)
LEMMA EntriesFinite == \A i : IsFiniteSet(Rules!Entries(i))
<1> SUFFICES ASSUME NEW i PROVE IsFiniteSet(Rules!Entries(i))
  OBVIOUS
<1> DEFINE S == Rules!Entries(i)
           T == Inodes \X (Names \cup {".", ".."})
           f == [x \in S |-> <<x[1], x[2].name>>]
<1>1. IsFiniteSet(T)
  <2>1. IsFiniteSet(Names \cup {".", ".."})
    <3>1. Names \cup {".", ".."} = (Names \cup {"."}) \cup {".."}
      OBVIOUS
    <3> QED BY <3>1, Constants, FS_AddElement
  <2> QED BY <2>1, InodesFinite, FS_Product
<1>2. ASSUME NEW x \in S
      PROVE  f[x] \in T /\ x = <<f[x][1], [name |-> f[x][2], inum |-> i]>>
  <2>1. PICK d \in Inodes : type[d] = "dir" /\ \E e \in Dirents(d) : e.inum = i /\ x = <<d, e>>
    BY EntriesAre
  <2>2. PICK e \in Dirents(d) : e.inum = i /\ x = <<d, e>>
    BY <2>1
  <2>3. e.name \in Names \cup {".", ".."} /\ e = [name |-> e.name, inum |-> e.inum]
    BY DEF Dirents
  <2> QED BY <2>2, <2>3
<1>3. f \in [S -> T]
  BY <1>2
<1>4. ASSUME NEW x \in S, NEW y \in S, f[x] = f[y] PROVE x = y
  BY <1>2, <1>4, Zenon
<1> HIDE DEF f, S, T
<1>5. f \in Injection(S, T)
  BY <1>3, <1>4 DEF Injection, IsInjective
<1> QED BY <1>1, <1>5, FS_Injection DEF S

(* But for the dots, they are the names of i. *)
LEMMA ChildrenAre ==
  ASSUME DotsInv, NEW i \in Inodes
  PROVE  Rules!dirreference(i) = Cardinality(Links(i))
<1> DEFINE S == Links(i)
           T == {de \in Rules!Entries(i) : de[2].name \notin {".", ".."}}
           f == [dn \in S |-> <<dn[1], [name |-> dn[2], inum |-> i]>>]
<1>1. Rules!dirreference(i) = Cardinality(T)
  <2>1. Rules!dirreference(i) = Rules!Cardinality(T)
    BY DEF Rules!dirreference, Rules!Dots
  <2> HIDE DEF T
  <2>2. Rules!Cardinality(T) = Cardinality(T)
    BY DEF Rules!Cardinality, Cardinality
  <2> QED BY <2>1, <2>2
<1>2. IsFiniteSet(S)
  BY InodesFinite, FS_Subset DEF Links
<1>3. \A dn \in S : /\ dn[1] \in Inodes /\ dn[2] \in Names /\ dn = <<dn[1], dn[2]>>
                    /\ type[dn[1]] = "dir" /\ entry[dn[1]][dn[2]] = i
  BY DEF Links
<1>4. ASSUME NEW dn \in S PROVE f[dn] \in T
  <2>1. [name |-> dn[2], inum |-> i] \in Real(dn[1])
    BY <1>3, Constants DEF Real
  <2>2. f[dn] \in Rules!Entries(i)
    BY <1>3, <2>1, DirentsAre, EntriesAre
  <2>3. f[dn][2].name \notin {".", ".."}
    BY <1>3, NoDotNames DEF NoDotNames
  <2> QED BY <2>2, <2>3
<1>5. ASSUME NEW x \in T PROVE \E dn \in S : f[dn] = x
  <2>1. PICK d \in Inodes : type[d] = "dir" /\ \E e \in Dirents(d) : e.inum = i /\ x = <<d, e>>
    BY EntriesAre
  <2>2. PICK e \in Dirents(d) : e.inum = i /\ x = <<d, e>>
    BY <2>1
  <2>3. e \in Real(d)
    BY <2>2, DirentsAre
  <2>4. PICK n \in Names : entry[d][n] # None /\ e = [name |-> n, inum |-> entry[d][n]]
    BY <2>3 DEF Real
  <2>5. <<d, n>> \in S
    BY <2>1, <2>2, <2>4 DEF Links
  <2>6. f[<<d, n>>] = x
    BY <2>2, <2>4, <2>5
  <2> QED BY <2>5, <2>6
<1>6. ASSUME NEW a \in S, NEW b \in S, f[a] = f[b] PROVE a = b
  <2>1. a[1] = b[1] /\ [name |-> a[2], inum |-> i] = [name |-> b[2], inum |-> i]
    BY <1>6
  <2>2. a[2] = b[2]
    BY <2>1
  <2> QED BY <1>3, <2>1, <2>2
<1>7. f \in [S -> T]
  BY <1>4
<1> HIDE DEF f, S, T
<1>8. f \in Bijection(S, T)
  BY <1>5, <1>6, <1>7 DEF Bijection, Injection, Surjection, IsInjective
<1>9. Cardinality(T) = Cardinality(S)
  BY <1>2, <1>8, FS_Bijection DEF ExistsBijection
<1> QED BY <1>1, <1>9 DEF S

-----------------------------------------------------------------------------
(* A directory has one name, and the root none; a file has names, and as   *)
(* many links as it has names.                                             *)
Once == \A d \in Inodes : type[d] = "dir" => Cardinality(Links(d)) = IF d = ROOTINO THEN 0 ELSE 1
FilesRight == \A i \in Inodes : type[i] = "file" => Links(i) # {} /\ nlink[i] = Cardinality(Links(i))
(* The dots of every directory stand for itself and another. *)
Tree == \A d \in Inodes : type[d] = "dir" => \E c \in Inodes : type[c] = "dir" /\ dots[d] = <<d, c>>

(* (What is counted is a number.) *)
LEMMA LinksCounted ==
  ASSUME NEW i \in Inodes
  PROVE  /\ Cardinality(Links(i)) \in Nat /\ (Cardinality(Links(i)) = 0 <=> Links(i) = {})
         /\ \A d \in Inodes, n \in Names : <<d, n>> \in Links(i) <=> type[d] = "dir" /\ entry[d][n] = i
         /\ Cardinality(Links(i)) = 1 <=> \E d \in Inodes, n \in Names : Links(i) = {<<d, n>>}
<1>1. IsFiniteSet(Links(i)) /\ Links(i) \subseteq Inodes \X Names
  BY InodesFinite, FS_Subset DEF Links
<1>2. Cardinality(Links(i)) \in Nat /\ (Cardinality(Links(i)) = 0 <=> Links(i) = {})
  BY <1>1, FS_CardinalityType, FS_EmptySet
<1>3. \A d \in Inodes, n \in Names : <<d, n>> \in Links(i) <=> type[d] = "dir" /\ entry[d][n] = i
  BY DEF Links
<1>4. Cardinality(Links(i)) = 1 <=> \E x : Links(i) = {x}
  BY <1>1, FS_Singleton
<1>5. ASSUME NEW x, Links(i) = {x} PROVE \E d \in Inodes, n \in Names : Links(i) = {<<d, n>>}
  <2>1. x \in Inodes \X Names
    BY <1>1, <1>5
  <2>2. PICK d \in Inodes, n \in Names : x = <<d, n>>
    BY <2>1
  <2> QED BY <1>5, <2>2
<1>6. Cardinality(Links(i)) = 1 <=> \E d \in Inodes, n \in Names : Links(i) = {<<d, n>>}
  BY <1>4, <1>5
<1> QED BY <1>2, <1>3, <1>6

(* A directory with one name has the dots that go with it, and the root has *)
(* no name.                                                                 *)
LEMMA DotsFollow ==
  ASSUME Inv, DotsRight
  PROVE  /\ type[ROOTINO] = "dir" /\ dots[ROOTINO] = <<ROOTINO, ROOTINO>> /\ Links(ROOTINO) = {}
         /\ Cardinality(Links(ROOTINO)) = 0 /\ ROOTINO \in Inodes
         /\ \A i \in Inodes : type[i] = "free" => Links(i) = {}
         /\ \A i, d \in Inodes, n \in Names : <<d, n>> \in Links(i) /\ type[i] = "dir" => dots[i] = <<i, d>>
<1>1. type[ROOTINO] = "dir" /\ dots[ROOTINO] = <<ROOTINO, ROOTINO>> /\ ROOTINO \in Inodes
  BY Constants DEF Inv, NamesInv, DotsRight
<1>2. \A i \in Inodes : type[i] = "free" \/ i = ROOTINO => Links(i) = {}
  BY Constants DEF Links, Inv, NamesInv
<1>3. \A i, d \in Inodes, n \in Names : <<d, n>> \in Links(i) /\ type[i] = "dir" => dots[i] = <<i, d>>
  <2> SUFFICES ASSUME NEW i \in Inodes, NEW d \in Inodes, NEW n \in Names, <<d, n>> \in Links(i), type[i] = "dir"
               PROVE  dots[i] = <<i, d>>
    OBVIOUS
  <2>1. entry[d][n] = i /\ i # None
    BY Constants, LinksCounted
  <2> QED BY <2>1 DEF DotsRight
<1> QED BY <1>1, <1>2, <1>3, LinksCounted

(* So that directories with a name each make a tree, *)
LEMMA TreeIs == ASSUME Inv, DotsRight, Once PROVE Tree
<1> SUFFICES ASSUME NEW d \in Inodes, type[d] = "dir"
             PROVE  \E c \in Inodes : type[c] = "dir" /\ dots[d] = <<d, c>>
  BY DEF Tree
<1>1. CASE d = ROOTINO
  BY <1>1, DotsFollow
<1>2. CASE d # ROOTINO
  <2>1. PICK c \in Inodes, n \in Names : Links(d) = {<<c, n>>}
    BY <1>2, LinksCounted DEF Once
  <2>2. <<c, n>> \in Links(d)
    BY <2>1
  <2> QED BY <2>2, DotsFollow, LinksCounted
<1> QED BY <1>1, <1>2

(* and a sound tree is no more than that and files with the right counts. *)
LEMMA SoundIs == ASSUME Inv, DotsRight PROVE Sound <=> Once /\ FilesRight
<1>1. \A i \in Inodes : type[i] \in {"free", "file", "dir"}
  BY DEF Inv, Base, TypeInv
<1>2. ASSUME Sound PROVE Once /\ FilesRight
  <2>1. ASSUME NEW d \in Inodes, type[d] = "dir"
        PROVE  Cardinality(Links(d)) = IF d = ROOTINO THEN 0 ELSE 1
    <3>1. d # ROOTINO => \E c \in Inodes, n \in Names : Links(d) = {<<c, n>>}
      BY <1>2, <2>1 DEF Sound
    <3> QED BY <3>1, DotsFollow, LinksCounted
  <2>2. ASSUME NEW i \in Inodes, type[i] = "file"
        PROVE  Links(i) # {} /\ nlink[i] = Cardinality(Links(i))
    <3>1. i # ROOTINO
      BY <2>2, DotsFollow
    <3> QED BY <1>2, <2>2, <3>1 DEF Sound
  <2> QED BY <2>1, <2>2 DEF Once, FilesRight
<1>3. ASSUME Once, FilesRight PROVE Sound
  <2> SUFFICES ASSUME NEW i \in Inodes \ {ROOTINO}
               PROVE  /\ type[i] # "free" <=> Links(i) # {}
                      /\ type[i] = "file" => nlink[i] = Cardinality(Links(i))
                      /\ type[i] = "dir" => \E d \in Inodes : \E n \in Names :
                                              Links(i) = {<<d, n>>} /\ dots[i] = <<i, d>>
    BY DEF Sound
  <2>1. ASSUME type[i] = "dir"
        PROVE  \E d \in Inodes : \E n \in Names : Links(i) = {<<d, n>>} /\ dots[i] = <<i, d>>
    <3>1. Cardinality(Links(i)) = 1
      BY <1>3, <2>1 DEF Once
    <3>2. PICK d \in Inodes, n \in Names : Links(i) = {<<d, n>>}
      BY <3>1, LinksCounted
    <3>3. <<d, n>> \in Links(i)
      BY <3>2
    <3>4. dots[i] = <<i, d>>
      BY <2>1, <3>3, DotsFollow
    <3> QED BY <3>2, <3>4
  <2>2. type[i] = "file" => Links(i) # {} /\ nlink[i] = Cardinality(Links(i))
    BY <1>3 DEF FilesRight
  <2>3. type[i] = "free" => Links(i) = {}
    BY DotsFollow
  <2>4. type[i] = "dir" => Links(i) # {}
    BY <2>1
  <2> QED BY <1>1, <2>1, <2>2, <2>3, <2>4
<1> QED BY <1>2, <1>3

(* In such a tree the dots refer to directories only. *)
LEMMA DotsAside ==
  ASSUME Inv, Tree, NEW i \in Inodes, type[i] # "dir"
  PROVE  Rules!inoderefer(i) = Cardinality(Links(i))
<1> DEFINE T == {de \in Rules!Entries(i) : de[2].name \notin Rules!Dots}
<1>1. Rules!Entries(i) = T
  <2> SUFFICES ASSUME NEW x \in Rules!Entries(i) PROVE x[2].name \notin {".", ".."}
    BY DEF Rules!Dots
  <2>1. PICK d \in Inodes : type[d] = "dir" /\ \E e \in Dirents(d) : e.inum = i /\ x = <<d, e>>
    BY EntriesAre
  <2>2. PICK e \in Dirents(d) : e.inum = i /\ x = <<d, e>>
    BY <2>1
  <2>3. PICK c \in Inodes : type[c] = "dir" /\ dots[d] = <<d, c>>
    BY <2>1 DEF Tree
  <2>4. (e.name = "." => e.inum = d) /\ (e.name = ".." => e.inum = c)
    BY <2>2, <2>3, DirentsAre DEF Inv
  <2> QED BY <2>1, <2>2, <2>3, <2>4
<1>2. Rules!inoderefer(i) = Rules!dirreference(i)
  BY <1>1 DEF Rules!inoderefer, Rules!dirreference
<1> QED BY <1>2, ChildrenAre DEF Inv

(* The rules of the checker hold of such a tree with such files ... *)
LEMMA RulesHold ==
  ASSUME Inv, DotsRight, Once, FilesRight
  PROVE  ~Rules!RuleBroken
<1>1. Tree
  BY TreeIs
<1>2. \A i \in Inodes : type[i] # "dir" => Rules!inoderefer(i) = Cardinality(Links(i))
  BY <1>1, DotsAside
<1>3. \A d : d \in Rules!dirarr <=> d \in Inodes /\ type[d] = "dir"
  BY DEF Rules!dirarr
<1>4. ~Rules!RootMissing
  <2>1. \A e \in Dirents(ROOTINO) : e.name = ".." => e.inum = ROOTINO
    BY DotsFollow, DirentsAre DEF Inv
  <2> QED BY <1>3, <2>1, DotsFollow DEF Rules!RootMissing
<1>5. ~Rules!BadFormat
  <2> SUFFICES ASSUME NEW d \in Inodes, type[d] = "dir"
               PROVE  /\ \E e \in Dirents(d) : e.name = ".."
                      /\ \E e \in Dirents(d) : e.name = "." /\ e.inum = d
    BY <1>3 DEF Rules!BadFormat
  <2>1. PICK c \in Inodes : type[c] = "dir" /\ dots[d] = <<d, c>>
    BY <1>1 DEF Tree
  <2> QED BY <2>1, DirentsAre DEF Inv
<1>6. ~Rules!NotFound
  <2> SUFFICES ASSUME NEW i \in Inodes, type[i] # "free" PROVE ~(Rules!inoderefer(i) < 1)
    BY DEF Rules!NotFound, Rules!inodeinuse
  <2>1. CASE type[i] = "file"
    BY <1>2, <2>1, LinksCounted DEF FilesRight
  <2>2. CASE type[i] = "dir"
    <3>1. Rules!inoderefer(i) \in Nat /\ Rules!inoderefer(i) # 0
      <4>1. PICK c \in Inodes : type[c] = "dir" /\ dots[i] = <<i, c>>
        BY <1>1, <2>2 DEF Tree
      <4>2. PICK e \in Dirents(i) : e.name = "." /\ e.inum = i
        BY <4>1, DirentsAre DEF Inv
      <4>3. <<i, e>> \in Rules!Entries(i)
        BY <2>2, <4>2, EntriesAre
      <4>4. IsFiniteSet(Rules!Entries(i))
        BY EntriesFinite
      <4>5. Cardinality(Rules!Entries(i)) \in Nat /\ Cardinality(Rules!Entries(i)) # 0
        BY <4>3, <4>4, FS_CardinalityType, FS_EmptySet
      <4>6. Rules!inoderefer(i) = Cardinality(Rules!Entries(i))
        BY DEF Rules!inoderefer, Rules!Cardinality, Cardinality
      <4> QED BY <4>5, <4>6
    <3> QED BY <3>1
  <2> QED BY <2>1, <2>2 DEF Inv, Base, TypeInv
<1>7. ~Rules!MarkedFree
  <2> SUFFICES ASSUME NEW i \in Inodes, type[i] = "free" PROVE Rules!inoderefer(i) = 0
    BY DEF Rules!MarkedFree, Rules!inodeinuse
  <2> QED BY <1>2, DotsFollow, LinksCounted
<1>8. ~Rules!BadCount
  BY <1>2 DEF Rules!BadCount, FilesRight
<1>9. ~Rules!MoreThanOnce
  <2>1. \A d \in Inodes : Rules!dirreference(d) = Cardinality(Links(d))
    BY ChildrenAre DEF Inv
  <2> QED BY <1>3, <2>1 DEF Rules!MoreThanOnce, Once
<1>10. ~Rules!Mismatch
  <2> SUFFICES ASSUME NEW d \in Inodes, type[d] = "dir", NEW c \in Rules!childentry(d)
               PROVE  Rules!parentinum(c) = d
    BY <1>3 DEF Rules!Mismatch
  <2>1. PICK e \in Dirents(d) : e.name \notin {".", ".."} /\ e.inum = c /\ c \in Inodes /\ type[c] = "dir"
    BY <1>3 DEF Rules!childentry, Rules!Dots
  <2>2. e \in Real(d)
    BY <2>1, DirentsAre DEF Inv
  <2>3. PICK n \in Names : entry[d][n] # None /\ e = [name |-> n, inum |-> entry[d][n]]
    BY <2>2 DEF Real
  <2>4. <<d, n>> \in Links(c)
    BY <2>1, <2>3, LinksCounted
  <2>5. dots[c] = <<c, d>>
    BY <2>1, <2>4, DotsFollow
  <2>6. /\ \E x \in Dirents(c) : x.name = ".."
        /\ \A x \in Dirents(c) : x.name = ".." => x.inum = d
    BY <2>1, <2>5, DirentsAre DEF Inv
  <2> QED BY <1>3, <2>1, <2>6 DEF Rules!parentinum
<1> QED BY <1>4, <1>5, <1>6, <1>7, <1>8, <1>9, <1>10 DEF Rules!RuleBroken

(* ... and of nothing else. *)
LEMMA RulesBreak ==
  ASSUME Inv, DotsRight, ~(Once /\ FilesRight)
  PROVE  Rules!RuleBroken
<1>1. CASE ~Once
  <2>1. PICK d \in Inodes : type[d] = "dir" /\ Cardinality(Links(d)) # IF d = ROOTINO THEN 0 ELSE 1
    BY <1>1 DEF Once
  <2>2. Rules!dirreference(d) # IF d = ROOTINO THEN 0 ELSE 1
    BY <2>1, ChildrenAre DEF Inv
  <2>3. Rules!MoreThanOnce
    BY <2>1, <2>2 DEF Rules!MoreThanOnce, Rules!dirarr
  <2> QED BY <2>3 DEF Rules!RuleBroken
<1>2. CASE Once
  <2>1. PICK i \in Inodes : type[i] = "file" /\ ~(Links(i) # {} /\ nlink[i] = Cardinality(Links(i)))
    BY <1>2 DEF FilesRight
  <2>2. Rules!inoderefer(i) = Cardinality(Links(i))
    BY <1>2, <2>1, TreeIs, DotsAside
  <2>3. CASE Links(i) = {}
    <3>1. Rules!inoderefer(i) = 0
      BY <2>2, <2>3, LinksCounted
    <3>2. Rules!NotFound
      BY <2>1, <3>1 DEF Rules!NotFound, Rules!inodeinuse
    <3> QED BY <3>2 DEF Rules!RuleBroken
  <2>4. CASE nlink[i] # Cardinality(Links(i))
    <3>1. Rules!BadCount
      BY <2>1, <2>2, <2>4 DEF Rules!BadCount
    <3> QED BY <3>1 DEF Rules!RuleBroken
  <2> QED BY <2>1, <2>3, <2>4
<1> QED BY <1>1, <1>2

(* Whenever the machine stops, a rule of the checker is broken just when   *)
(* the tree on the disk is not sound.                                      *)
THEOREM RulesAreExact == Spec => []RulesExact
<1>1. Inv /\ DotsRight => RulesExact
  BY SoundIs, RulesHold, RulesBreak DEF RulesExact
<1> QED BY <1>1, Invariant, DotsAreRight, PTL

(* With no call running, nothing open without a name, and no crash nor     *)
(* stray before, the tree on the disk is sound.                            *)
THEOREM LeftIsSound == Spec => []LeftSound
<1>1. Inv /\ DotsRight /\ NothingLost => LeftSound
  <2> SUFFICES ASSUME Inv, DotsRight, NothingLost, Quiet, strays \cup damaged = {},
                      \A p \in Procs : file[p] # None => Links(file[p]) # {}
               PROVE  Sound
    BY DEF LeftSound
  <2>1. ASSUME NEW i \in Inodes \ {ROOTINO}
        PROVE  /\ type[i] = "file" => nlink[i] = Cardinality(Links(i))
               /\ type[i] # "free" => Links(i) # {}
    <3>1. /\ type[i] = "file" => nlink[i] = Cardinality(Links(i))
          /\ type[i] # "free" => Links(i) # {} \/ \E p \in Procs : file[p] = i
      BY DEF NothingLost
    <3> QED BY <3>1, Constants
  <2>2. FilesRight
    BY <2>1, DotsFollow DEF FilesRight
  <2>3. ASSUME NEW d \in Inodes, type[d] = "dir", d # ROOTINO PROVE Cardinality(Links(d)) = 1
    <3>1. Links(d) # {}
      BY <2>1, <2>3
    <3>2. Cardinality(Links(d)) \in Nat /\ Cardinality(Links(d)) # 0
      BY <3>1, LinksCounted
    <3>3. Pending(d) \in Nat
      BY Constants, FS_Subset, FS_CardinalityType DEF Pending
    <3>4. Cardinality(Links(d)) + Pending(d) <= 1
      BY <2>3 DEF Inv, DirOnce
    <3> QED BY <3>2, <3>3, <3>4
  <2>4. Once
    BY <2>3, DotsFollow DEF Once
  <2> QED BY <2>2, <2>4, SoundIs
<1> QED BY <1>1, Invariant, DotsAreRight, NothingIsLost, PTL
=============================================================================
