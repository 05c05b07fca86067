--------------------------- MODULE Project2Proofs ---------------------------
(***************************************************************************)
(* The two programs of Project 2.  The shell mysh (2-1) keeps its jobs and *)
(* waits for its foreground children, for every number of pids and every   *)
(* size of the table; the hard step is the scan: the places it gives to    *)
(* the entries it keeps are 1, 2, ... without gap.  The scheduler (2-2)    *)
(* never lets a slice of its feedback queue pass the limit of its level,   *)
(* for any number of slots and levels and any limits.                      *)
(***************************************************************************)
EXTENDS Mysh, Mlfq, FiniteSetTheorems, TLAPS

(* Who has a role is a child of the shell, ended or not. *)
ChildInv == \A c \in Pids : role[c] # "none" => proc[c] \in Child

(* The child of a foreground command is the one waited for. *)
WaitInv ==
  \A c \in Pids : /\ role[c] = "front" => pc = "wait" /\ childid = c
                  /\ role[c] = "second" => pc = "pipewait" /\ childid = c

(* A job is among the processnum entries in use, which the next job does   *)
(* not overwrite.                                                          *)
JobInv ==
  \A c \in Pids : role[c] = "job" =>
    \E i \in 1..NTAB : i <= processnum /\ processtable[i] = c

MyshInv == ShellTypeOK /\ ChildInv /\ WaitInv /\ JobInv

-----------------------------------------------------------------------------
(* Of finitely many numbers, the first, the second, ... exist, up to as    *)
(* many as there are: the scan's processnum++ leaves no entry out.         *)
LEMMA Ranks ==
  ASSUME NEW n \in Nat, NEW K, K \subseteq 1..n
  PROVE  /\ Cardinality(K) \in 0..n
         /\ \E rank \in [K -> 1..Cardinality(K)] :
              /\ \A i \in K : rank[i] = Cardinality({j \in K : j <= i})
              /\ \A k \in 1..Cardinality(K) : \E i \in K : rank[i] = k
              /\ \A i, j \in K : rank[i] = rank[j] => i = j
<1> PICK rank : rank = [i \in K |-> Cardinality({j \in K : j <= i})]
  OBVIOUS
<1> DEFINE Upto(i) == {j \in K : j <= i}
<1>1. IsFiniteSet(K) /\ Cardinality(K) \in 0..n
  <2>1. IsFiniteSet(1..n) /\ Cardinality(1..n) = n
    BY FS_Interval
  <2>2. IsFiniteSet(K) /\ Cardinality(K) <= n
    BY <2>1, FS_Subset
  <2> QED BY <2>2, FS_CardinalityType
<1>2. \A i \in K : /\ Upto(i) \in SUBSET K /\ IsFiniteSet(Upto(i))
                   /\ rank[i] = Cardinality(Upto(i)) /\ rank[i] \in 1..Cardinality(K)
  <2> SUFFICES ASSUME NEW i \in K
               PROVE  /\ Upto(i) \in SUBSET K /\ IsFiniteSet(Upto(i))
                      /\ rank[i] = Cardinality(Upto(i)) /\ rank[i] \in 1..Cardinality(K)
    OBVIOUS
  <2>1. Upto(i) \in SUBSET K /\ i \in Upto(i) /\ rank[i] = Cardinality(Upto(i))
    OBVIOUS
  <2>2. IsFiniteSet(Upto(i)) /\ Cardinality(Upto(i)) <= Cardinality(K)
    BY <1>1, <2>1, FS_Subset
  <2>3. Cardinality(Upto(i)) \in Nat /\ Cardinality(Upto(i)) # 0
    BY <2>1, <2>2, FS_CardinalityType, FS_EmptySet
  <2> QED BY <1>1, <2>1, <2>2, <2>3
<1>3. ASSUME NEW i \in K, NEW j \in K, i < j
      PROVE  rank[i] # rank[j]
  <2>a. i \in Int /\ j \in Int /\ \A x \in K : x \in Int
    OBVIOUS
  <2>b. j \in Upto(j) /\ j \notin Upto(i)
    BY <1>3, <2>a
  <2>c. \A x \in K : x <= i => x <= j
    BY <1>3, <2>a
  <2>1. Upto(i) \in SUBSET Upto(j) /\ j \in Upto(j) /\ j \notin Upto(i)
    BY <2>b, <2>c
  <2>2. Cardinality(Upto(i)) # Cardinality(Upto(j))
    BY <1>2, <2>1, FS_Subset
  <2> QED BY <1>2, <2>2
<1>4. \A i, j \in K : rank[i] = rank[j] => i = j
  BY <1>3
<1>5. rank \in [K -> 1..Cardinality(K)]
  BY <1>2
<1>6. \A k \in 1..Cardinality(K) : \E i \in K : rank[i] = k
  <2> DEFINE R == {rank[i] : i \in K}
  <2>1. R \in SUBSET (1..Cardinality(K))
    BY <1>2
  <2>2. rank \in Bijection(K, R)
    <3>1. rank \in [K -> R]
      OBVIOUS
    <3>2. IsInjective(rank)
      BY <1>4, <3>1 DEF IsInjective
    <3> QED BY <3>1, <3>2 DEF Bijection, Injection, Surjection
  <2>3. Cardinality(R) = Cardinality(K)
    BY <1>1, <2>2, FS_Bijection DEF ExistsBijection
  <2>4. IsFiniteSet(1..Cardinality(K)) /\ Cardinality(1..Cardinality(K)) = Cardinality(K)
    BY <1>1, FS_Interval
  <2>5. R = 1..Cardinality(K)
    BY <2>1, <2>3, <2>4, FS_Subset
  <2> QED BY <2>5
<1> QED BY <1>1, <1>2, <1>4, <1>5, <1>6

(* The scan moves an entry to its place, moves nothing over another one    *)
(* that it keeps, and leaves processnum behind the last.                   *)
LEMMA ScanKeeps ==
  ASSUME ShellTypeOK, Scan, MyshAssumption
  PROVE  /\ processtable' \in [1..NTAB -> Pids \cup {Init_pid, Every}]
         /\ processnum' \in 0..NTAB
         /\ \A i \in 1..NTAB : Exists(processtable[i]) =>
              \E k \in 1..NTAB : k <= processnum' /\ processtable'[k] = processtable[i]
<1>1. Kept \subseteq 1..NTAB /\ NTAB \in Nat
  BY DEF Kept, MyshAssumption
<1>2. Cardinality(Kept) \in 0..NTAB
  BY <1>1, Ranks
<1>3. PICK rank \in [Kept -> 1..Cardinality(Kept)] :
        /\ \A i \in Kept : rank[i] = Cardinality({j \in Kept : j <= i})
        /\ \A k \in 1..Cardinality(Kept) : \E i \in Kept : rank[i] = k
        /\ \A i, j \in Kept : rank[i] = rank[j] => i = j
  BY <1>1, Ranks
<1>4. \A i \in Kept : Place(i) = rank[i]
  BY <1>3 DEF Place
<1>5. PICK source : source = [k \in 1..NTAB |-> CHOOSE i \in Kept : Place(i) = k]
  OBVIOUS
<1>6. \A k \in 1..Cardinality(Kept) : source[k] \in Kept /\ Place(source[k]) = k
  <2> SUFFICES ASSUME NEW k \in 1..Cardinality(Kept)
               PROVE  source[k] \in Kept /\ Place(source[k]) = k
    OBVIOUS
  <2>1. PICK i \in Kept : Place(i) = k
    BY <1>3, <1>4
  <2>2. k \in 1..NTAB
    BY <1>1, <1>2
  <2>3. source[k] = CHOOSE j \in Kept : Place(j) = k
    BY <1>5, <2>2
  <2> QED BY <2>1, <2>3
<1>7. /\ processnum' = Cardinality(Kept)
      /\ processtable' = [k \in 1..NTAB |-> IF k <= Cardinality(Kept)
                                            THEN processtable[source[k]] ELSE processtable[k]]
  BY <1>5 DEF Scan
<1>8. processtable' \in [1..NTAB -> Pids \cup {Init_pid, Every}]
  <2> SUFFICES ASSUME NEW k \in 1..NTAB
               PROVE  processtable'[k] \in Pids \cup {Init_pid, Every}
    BY <1>7
  <2>1. CASE k <= Cardinality(Kept)
    <3>1. k \in 1..Cardinality(Kept)
      BY <1>1, <1>2, <2>1
    <3>2. source[k] \in 1..NTAB
      BY <1>1, <1>6, <3>1
    <3> QED BY <1>7, <2>1, <3>2 DEF ShellTypeOK
  <2>2. CASE ~ (k <= Cardinality(Kept))
    BY <1>7, <2>2 DEF ShellTypeOK
  <2> QED BY <2>1, <2>2
<1>9. ASSUME NEW i \in 1..NTAB, Exists(processtable[i])
      PROVE  \E k \in 1..NTAB : k <= processnum' /\ processtable'[k] = processtable[i]
  <2>1. i \in Kept
    BY <1>9 DEF Kept
  <2>2. rank[i] \in 1..Cardinality(Kept) /\ rank[i] \in 1..NTAB
    BY <1>1, <1>2, <1>3, <2>1
  <2>3. source[rank[i]] \in Kept /\ rank[source[rank[i]]] = rank[i]
    BY <1>4, <1>6, <2>2
  <2>4. source[rank[i]] = i
    BY <1>3, <2>1, <2>3
  <2> QED BY <1>7, <2>2, <2>4
<1> QED BY <1>2, <1>7, <1>8, <1>9

-----------------------------------------------------------------------------
(* The types: fork() and waitpid() set what the system has under a pid,    *)
(* the scan and Enter() the table.                                         *)
LEMMA TypeStep ==
  ASSUME ShellTypeOK, [ShellNext]_shellvars
  PROVE  ShellTypeOK'
<1>1. CASE NoCommand
  BY MyshAssumption, <1>1 DEF NoCommand, ShellTypeOK, Child, Zombie, Roles, Pids, Every
<1>2. CASE Quit
  BY MyshAssumption, <1>2 DEF Quit, ShellTypeOK, Child, Zombie, Roles, Pids, Every
<1>3. CASE PipeFirst
  BY MyshAssumption, <1>3 DEF PipeFirst, Spawn, ShellTypeOK, Child, Zombie, Roles, Pids, Every
<1>4. ASSUME NEW r \in Redirections, Foreground(r)
      PROVE  ShellTypeOK'
  BY MyshAssumption, <1>4
  DEF Foreground, StartFront, Spawn, ShellTypeOK, Child, Zombie, Roles, Pids, Every
<1>5. ASSUME NEW r \in Redirections, Background(r)
      PROVE  ShellTypeOK'
  <2>1. /\ processtable' \in [1..NTAB -> Pids \cup {Init_pid, Every}]
        /\ processnum' \in 0..NTAB
    BY MyshAssumption, <1>5 DEF MyshAssumption, Background, StartJob, Enter, ShellTypeOK
  <2>2. proc' \in [Pids -> {"none", "other"} \cup Child] /\ role' \in [Pids -> Roles]
    BY <1>5 DEF Background, StartJob, Spawn, ShellTypeOK, Child, Roles
  <2> QED BY <1>5, <2>1, <2>2 DEF Background, ShellTypeOK
<1>6. CASE Scan
  BY <1>6, ScanKeeps, MyshAssumption DEF Scan, ShellTypeOK
<1>7. CASE ForegroundWait
  BY MyshAssumption, <1>7
  DEF ForegroundWait, Reap, NoChild, ShellTypeOK, Child, Zombie, Roles, Pids, Every
<1>8. CASE PipeSecond
  BY MyshAssumption, <1>8
  DEF PipeSecond, Spawn, ShellTypeOK, Child, Zombie, Roles, Pids, Every
<1>9. CASE PipeWait
  BY MyshAssumption, <1>9
  DEF PipeWait, Reap, NoChild, Over, ShellTypeOK, Child, Zombie, Roles, Pids, Every
<1>10. ASSUME NEW c \in Pids, End(c)
      PROVE  ShellTypeOK'
  BY MyshAssumption, <1>10 DEF End, ShellTypeOK, Child, Zombie, Roles, Pids, Every
<1>11. ASSUME NEW c \in Pids, Others(c)
      PROVE  ShellTypeOK'
  BY MyshAssumption, <1>11 DEF Others, ShellTypeOK, Child, Zombie, Roles, Pids, Every
<1>12. CASE UNCHANGED shellvars
  BY MyshAssumption, <1>12 DEF shellvars, ShellTypeOK, Child, Zombie, Roles, Pids, Every
<1> QED
  BY <1>1, <1>2, <1>3, <1>4, <1>5, <1>6, <1>7, <1>8, <1>9, <1>10, <1>11, <1>12
  DEF ShellNext, Command, ShellStep

(* Only the wait for a child takes it away, and takes its role away, too.  *)
LEMMA ChildStep ==
  ASSUME ShellTypeOK, ChildInv, [ShellNext]_shellvars
  PROVE  ChildInv'
<1>1. CASE NoCommand
  BY <1>1 DEF NoCommand, ShellTypeOK, ChildInv, Child, Zombie
<1>2. CASE Quit
  BY <1>2 DEF Quit, ShellTypeOK, ChildInv, Child, Zombie
<1>3. CASE PipeFirst
  BY <1>3 DEF PipeFirst, Spawn, ShellTypeOK, ChildInv, Child, Zombie
<1>4. ASSUME NEW r \in Redirections, Foreground(r)
      PROVE  ChildInv'
  BY <1>4 DEF Foreground, StartFront, Spawn, ShellTypeOK, ChildInv, Child, Zombie
<1>5. ASSUME NEW r \in Redirections, Background(r)
      PROVE  ChildInv'
  BY <1>5 DEF Background, StartJob, Spawn, Enter, ShellTypeOK, ChildInv, Child, Zombie
<1>6. CASE Scan
  BY <1>6 DEF Scan, ShellTypeOK, ChildInv, Child, Zombie
<1>7. CASE ForegroundWait
  BY <1>7 DEF ForegroundWait, Reap, NoChild, ShellTypeOK, ChildInv, Child, Zombie
<1>8. CASE PipeSecond
  BY <1>8 DEF PipeSecond, Spawn, ShellTypeOK, ChildInv, Child, Zombie
<1>9. CASE PipeWait
  BY <1>9 DEF PipeWait, Reap, NoChild, Over, ShellTypeOK, ChildInv, Child, Zombie
<1>10. ASSUME NEW c \in Pids, End(c)
      PROVE  ChildInv'
  BY <1>10 DEF End, ShellTypeOK, ChildInv, Child, Zombie
<1>11. ASSUME NEW c \in Pids, Others(c)
      PROVE  ChildInv'
  BY <1>11 DEF Others, ShellTypeOK, ChildInv, Child, Zombie
<1>12. CASE UNCHANGED shellvars
  BY <1>12 DEF shellvars, ShellTypeOK, ChildInv, Child, Zombie
<1> QED
  BY <1>1, <1>2, <1>3, <1>4, <1>5, <1>6, <1>7, <1>8, <1>9, <1>10, <1>11, <1>12
  DEF ShellNext, Command, ShellStep

(* Who waits for a child does nothing else, and stops when it has got it.  *)
LEMMA WaitStep ==
  ASSUME ShellTypeOK, ChildInv, WaitInv, [ShellNext]_shellvars
  PROVE  WaitInv'
<1>1. CASE NoCommand
  BY <1>1 DEF NoCommand, ShellTypeOK, ChildInv, WaitInv, Child, Zombie, Pids, Every
<1>2. CASE Quit
  BY <1>2 DEF Quit, ShellTypeOK, ChildInv, WaitInv, Child, Zombie, Pids, Every
<1>3. CASE PipeFirst
  BY <1>3 DEF PipeFirst, Spawn, ShellTypeOK, ChildInv, WaitInv, Child, Zombie, Pids, Every
<1>4. ASSUME NEW r \in Redirections, Foreground(r)
      PROVE  WaitInv'
  BY <1>4
  DEF Foreground, StartFront, Spawn, ShellTypeOK, ChildInv, WaitInv, Child, Zombie,
      Pids, Every
<1>5. ASSUME NEW r \in Redirections, Background(r)
      PROVE  WaitInv'
  BY <1>5
  DEF Background, StartJob, Spawn, Enter, ShellTypeOK, ChildInv, WaitInv, Child, Zombie,
      Pids, Every
<1>6. CASE Scan
  BY <1>6 DEF Scan, ShellTypeOK, ChildInv, WaitInv, Child, Zombie, Pids, Every
<1>7. CASE ForegroundWait
  <2>1. ASSUME NEW c \in Pids, childid \in {c, Every}, Reap(c)
        PROVE  WaitInv'
    BY MyshAssumption, <1>7, <2>1
    DEF MyshAssumption, ForegroundWait, Reap, ShellTypeOK, WaitInv, Pids, Every
  <2>2. CASE NoChild /\ UNCHANGED <<proc, role>>
    BY <2>2 DEF NoChild, ChildInv, WaitInv
  <2> QED BY <1>7, <2>1, <2>2 DEF ForegroundWait
<1>8. CASE PipeSecond
  BY <1>8 DEF PipeSecond, Spawn, ShellTypeOK, ChildInv, WaitInv, Child, Zombie, Pids, Every
<1>9. CASE PipeWait
  BY <1>9
  DEF PipeWait, Reap, NoChild, Over, ShellTypeOK, ChildInv, WaitInv, Child, Zombie,
      Pids, Every
<1>10. ASSUME NEW c \in Pids, End(c)
      PROVE  WaitInv'
  BY <1>10 DEF End, ShellTypeOK, ChildInv, WaitInv, Child, Zombie, Pids, Every
<1>11. ASSUME NEW c \in Pids, Others(c)
      PROVE  WaitInv'
  BY <1>11 DEF Others, ShellTypeOK, ChildInv, WaitInv, Child, Zombie, Pids, Every
<1>12. CASE UNCHANGED shellvars
  BY <1>12 DEF shellvars, ShellTypeOK, ChildInv, WaitInv, Child, Zombie, Pids, Every
<1> QED
  BY <1>1, <1>2, <1>3, <1>4, <1>5, <1>6, <1>7, <1>8, <1>9, <1>10, <1>11, <1>12
  DEF ShellNext, Command, ShellStep

(* Nothing overwrites an entry below processnum but the scan, which has    *)
(* moved it by then.                                                       *)
LEMMA JobStep ==
  ASSUME ShellTypeOK, ChildInv, JobInv, [ShellNext]_shellvars
  PROVE  JobInv'
<1>1. CASE NoCommand
  BY MyshAssumption, <1>1 DEF NoCommand, ShellTypeOK, ChildInv, JobInv, Child, Zombie
<1>2. CASE Quit
  BY MyshAssumption, <1>2 DEF Quit, ShellTypeOK, ChildInv, JobInv, Child, Zombie
<1>3. CASE PipeFirst
  BY MyshAssumption, <1>3 DEF PipeFirst, Spawn, ShellTypeOK, ChildInv, JobInv, Child, Zombie
<1>4. ASSUME NEW r \in Redirections, Foreground(r)
      PROVE  JobInv'
  BY MyshAssumption, <1>4
  DEF Foreground, StartFront, Spawn, ShellTypeOK, ChildInv, JobInv, Child, Zombie
<1>5. ASSUME NEW r \in Redirections, Background(r)
      PROVE  JobInv'
  <2>1. ASSUME NEW c \in Pids, StartJob(c, r)
        PROVE  JobInv'
    <3>1. CASE Entered(r) /\ processnum < NTAB
      <4>1. /\ processtable' = [processtable EXCEPT ![processnum + 1] = c]
            /\ processnum' = processnum + 1 /\ processnum + 1 \in 1..NTAB
            /\ role' = [role EXCEPT ![c] = "job"]
        BY MyshAssumption, <2>1, <3>1 DEF MyshAssumption, StartJob, Spawn, Enter, ShellTypeOK
      <4> QED BY <4>1 DEF ShellTypeOK, JobInv
    <3>2. CASE ~ (Entered(r) /\ processnum < NTAB)
      <4>1. role' = [role EXCEPT ![c] = "lost"] /\ UNCHANGED <<processtable, processnum>>
        BY <2>1, <3>2 DEF StartJob, Spawn, Enter
      <4> QED BY <4>1 DEF ShellTypeOK, JobInv
    <3> QED BY <3>1, <3>2
  <2>2. CASE UNCHANGED <<role, processtable, processnum>>
    BY <2>2 DEF JobInv
  <2>3. ASSUME Enter(Every), UNCHANGED role
        PROVE  JobInv'
    BY MyshAssumption, <2>3 DEF MyshAssumption, Enter, ShellTypeOK, JobInv
  <2> QED BY <1>5, <2>1, <2>2, <2>3 DEF Background
<1>6. CASE Scan
  BY <1>6, ScanKeeps, MyshAssumption
  DEF Scan, ShellTypeOK, ChildInv, JobInv, Exists, Child, Zombie
<1>7. CASE ForegroundWait
  BY MyshAssumption, <1>7
  DEF ForegroundWait, Reap, NoChild, ShellTypeOK, ChildInv, JobInv, Child, Zombie
<1>8. CASE PipeSecond
  BY MyshAssumption, <1>8 DEF PipeSecond, Spawn, ShellTypeOK, ChildInv, JobInv, Child, Zombie
<1>9. CASE PipeWait
  BY MyshAssumption, <1>9
  DEF PipeWait, Reap, NoChild, Over, ShellTypeOK, ChildInv, JobInv, Child, Zombie
<1>10. ASSUME NEW c \in Pids, End(c)
      PROVE  JobInv'
  BY MyshAssumption, <1>10 DEF End, ShellTypeOK, ChildInv, JobInv, Child, Zombie
<1>11. ASSUME NEW c \in Pids, Others(c)
      PROVE  JobInv'
  BY MyshAssumption, <1>11 DEF Others, ShellTypeOK, ChildInv, JobInv, Child, Zombie
<1>12. CASE UNCHANGED shellvars
  BY MyshAssumption, <1>12 DEF shellvars, ShellTypeOK, ChildInv, JobInv, Child, Zombie
<1> QED
  BY <1>1, <1>2, <1>3, <1>4, <1>5, <1>6, <1>7, <1>8, <1>9, <1>10, <1>11, <1>12
  DEF ShellNext, Command, ShellStep

(* The inductive invariant holds of every behaviour of the shell.          *)
LEMMA MyshInvariant == ShellSpec => []MyshInv
<1>1. ShellInit => MyshInv
  <2> SUFFICES ASSUME ShellInit PROVE MyshInv
    OBVIOUS
  <2>1. ShellTypeOK
    BY MyshAssumption DEF MyshAssumption, ShellInit, ShellTypeOK, Roles
  <2>2. \A c \in Pids : role[c] = "none"
    BY DEF ShellInit
  <2>3. ChildInv /\ WaitInv /\ JobInv
    BY <2>2 DEF ChildInv, WaitInv, JobInv
  <2> QED BY <2>1, <2>3 DEF MyshInv
<1>2. MyshInv /\ [ShellNext]_shellvars => MyshInv'
  BY TypeStep, ChildStep, WaitStep, JobStep DEF MyshInv
<1> QED BY <1>1, <1>2, PTL DEF ShellSpec

-----------------------------------------------------------------------------
(* A background job that main() has entered into processtable stays there  *)
(* until it is waited for, whatever the scans move and whoever gets a      *)
(* freed pid.                                                              *)
THEOREM JobsKeptCorrect == ShellSpec => []JobsKept
<1>1. MyshInv => JobsKept
  BY DEF MyshInv, JobInv, JobsKept
<1> QED BY <1>1, MyshInvariant, PTL

(* Whatever other children waitpid(-1) takes on the way, the shell is not  *)
(* back at its prompt before the foreground command, or the second command *)
(* of the pipe, was waited for.                                            *)
THEOREM ForegroundOverCorrect == ShellSpec => []ForegroundOver
<1>1. MyshInv => ForegroundOver
  BY DEF MyshInv, WaitInv, ForegroundOver, ShellTypeOK
<1> QED BY <1>1, MyshInvariant, PTL
-----------------------------------------------------------------------------
(* The multi-level feedback queue of the scheduler.                        *)

(* The limits are positive, as in clkPerPrio[] and clkWait[].              *)
LEMMA Limits ==
  /\ NPROC \in Nat /\ NPROC > 0 /\ Top \in Nat /\ Top > 0
  /\ \A q \in Levels : clkPerPrio[q] \in Nat /\ clkPerPrio[q] > 0
                                    /\ clkWait[q] \in Nat
  /\ \A q \in 0..Top-1 : clkWait[q] > 0
BY MlfqAssumption DEF MlfqAssumption

(* The first loop of scheduler() finds a level: a set of levels has a      *)
(* highest, as a set of natural numbers has a least.                       *)
LEMMA Least ==
  ASSUME NEW S \in SUBSET Nat, S # {}
  PROVE  \E x \in S : \A y \in S : x <= y
<1> DEFINE R == {ss \in Nat \X Nat : ss[1] < ss[2]}
<1>1. IsWellFoundedOn(R, Nat)
  BY NatLessThanWellFounded DEF OpToRel
<1>2. PICK x \in S : \A y \in S : ~ (<<y, x>> \in R)
  <2> HIDE DEF R
  <2> QED BY <1>1, WFMin
<1>3. \A y \in S : y < x => <<y, x>> \in R
  OBVIOUS
<1>4. \A y \in S : x <= y
  <2>1. \A y \in S : ~ (y < x)
    BY <1>2, <1>3
  <2> HIDE DEF R
  <2> QED BY <2>1
<1> QED BY <1>4

(* The level that scheduler() picks exists and is the highest.             *)
LEMMA MaxLevel ==
  ASSUME NEW S \in SUBSET Levels, S # {}
  PROVE  Max(S) \in S /\ \A x \in S : x <= Max(S)
<1> DEFINE T == {Top - x : x \in S}
<1>1. T \in SUBSET Nat /\ T # {}
  <2>1. \A x \in S : x \in 0..Top
    BY Limits DEF Levels
  <2>2. \A x \in S : Top - x \in Nat
    BY Limits, <2>1
  <2> QED BY <2>2
<1>2. PICK t \in T : \A y \in T : t <= y
  <2> HIDE DEF T
  <2> QED BY <1>1, Least
<1>3. PICK x \in S : t = Top - x
  OBVIOUS
<1>4. \A y \in S : x >= y
  <2>1. ASSUME NEW y \in S PROVE x >= y
    <3>1. Top - y \in T /\ x \in 0..Top /\ y \in 0..Top
      BY Limits DEF Levels
    <3>2. Top - x <= Top - y
      BY <1>2, <1>3, <3>1
    <3> HIDE DEF T
    <3> QED BY Limits, <3>1, <3>2
  <2> QED BY <2>1
<1>5. Max(S) \in S /\ \A y \in S : Max(S) >= y
  BY <1>3, <1>4 DEF Max
<1> QED BY <1>5 DEF Levels

-----------------------------------------------------------------------------
(* Within a slice cou counts at least the clicks that the process has used *)
(* on the level it is on now: it starts equal, both count up, and a        *)
(* demotion finds the next level's clicks reset.  Nobody moves the chosen  *)
(* process but the scheduler: it does not age itself, and fork() takes     *)
(* free slots only.                                                        *)
SliceInv ==
  at \in {"slice", "run", "back"} =>
    /\ p \in Slots
    /\ at = "run" => state[p] = "RUNNING"
    /\ max_pri = 0 => priority[p] = 0
    /\ max_pri > 0 /\ priority[p] > 0 =>
         ticks[p][priority[p]] <= IF at = "slice" THEN cou ELSE cou + 1

MlfqInv == SliceBounded /\ SliceInv

(* The smaller of two limits.                                              *)
LEMMA MinOfTwo ==
  ASSUME NEW a \in Nat, NEW b \in Nat
  PROVE  Min({a, b}) = IF a <= b THEN a ELSE b
<1>1. \E x \in {a, b} : \A y \in {a, b} : x <= y
  OBVIOUS
<1>2. Min({a, b}) \in {a, b} /\ \A y \in {a, b} : Min({a, b}) <= y
  BY <1>1 DEF Min
<1> QED BY <1>2

(* A click does not move the process that runs. *)
LEMMA NoSelfAge ==
  ASSUME TypeOK, p \in Slots
  PROVE  /\ p \notin Boosted
         /\ AgedPriority[p] = priority[p]
         /\ AgedPriority \in [Slots -> Levels]
         /\ AgedWait \in [Slots -> [0..Top-1 -> Nat]]
<1>0. /\ Top \in Nat /\ Levels = 0..Top
      /\ \A s \in Slots : priority[s] \in 0..Top
      /\ \A s \in Slots : \A q \in 0..Top-1 : wait_ticks[s][q] \in Nat
  BY Limits DEF TypeOK, Levels
<1>1. ASSUME NEW s \in Slots, priority[s] < Top
      PROVE  /\ WaitedFrom(s) + 1 \in Nat
             /\ Waited(s) \in Nat
             /\ (WaitedFrom(s) + 1 = 0 => Waited(s) = 0)
  <2>1. priority[s] \in 0..Top-1
    BY <1>0, <1>1
  <2>2. WaitedFrom(s) + 1 \in Nat
    <3>1. CASE s = p
      BY <3>1 DEF WaitedFrom
    <3>2. CASE s # p
      <4>1. wait_ticks[s][priority[s]] \in Nat
        BY <1>0, <2>1
      <4> QED BY <3>2, <4>1 DEF WaitedFrom
    <3> QED BY <3>1, <3>2
  <2>3. clkWait[priority[s]] \in Nat
    BY <1>0, Limits
  <2> QED BY <2>2, <2>3, MinOfTwo DEF Waited
<1>2. p \notin Boosted
  <2>1. CASE priority[p] < Top
    <3>1. WaitedFrom(p) + 1 = 0
      BY DEF WaitedFrom
    <3>2. Waited(p) = 0
      BY <1>1, <2>1, <3>1
    <3>3. priority[p] \in 0..Top-1
      BY <1>0, <2>1
    <3>4. clkWait[priority[p]] > 0 /\ clkWait[priority[p]] \in Nat
      BY <1>0, <3>3, Limits
    <3> QED BY <3>2, <3>4 DEF Boosted
  <2>2. CASE ~(priority[p] < Top)
    BY <2>2 DEF Boosted
  <2> QED BY <2>1, <2>2
<1>3. /\ AgedPriority \in [Slots -> Levels]
      /\ AgedPriority[p] = priority[p]
  <2>1. ASSUME NEW s \in Slots PROVE AgedPriority[s] \in Levels
    <3>1. CASE s \in Boosted
      <4>1. priority[s] < Top /\ priority[s] \in 0..Top
        BY <1>0, <3>1 DEF Boosted
      <4>2. priority[s] + 1 \in 0..Top
        BY <1>0, <4>1
      <4> QED BY <1>0, <3>1, <4>2 DEF AgedPriority
    <3>2. CASE s \notin Boosted
      BY <1>0, <3>2 DEF AgedPriority
    <3> QED BY <3>1, <3>2
  <2> QED BY <1>2, <2>1 DEF AgedPriority
<1>4. AgedWait \in [Slots -> [0..Top-1 -> Nat]]
  <2>1. ASSUME NEW s \in Slots, NEW q \in 0..Top-1 PROVE AgedWait[s][q] \in Nat
    <3>1. CASE s \in Boosted /\ q = priority[s] + 1
      BY <3>1 DEF AgedWait
    <3>2. CASE ~(s \in Boosted /\ q = priority[s] + 1) /\ s \in InUse
              /\ q = priority[s]
      <4>1. priority[s] < Top
        BY <1>0, <3>2
      <4>2. Waited(s) \in Nat
        BY <1>1, <4>1
      <4>3. AgedWait[s][q] = Waited(s)
        BY <3>2 DEF AgedWait
      <4> QED BY <4>2, <4>3
    <3>3. CASE ~(s \in Boosted /\ q = priority[s] + 1)
              /\ ~(s \in InUse /\ q = priority[s])
      <4>1. AgedWait[s][q] = wait_ticks[s][q]
        BY <3>3 DEF AgedWait
      <4> QED BY <1>0, <4>1
    <3> QED BY <3>1, <3>2, <3>3
  <2> QED BY <2>1 DEF AgedWait
<1> QED BY <1>2, <1>3, <1>4

(* Running, demoting, ageing and forking keep a slice within its limit.    *)
LEMMA MlfqStep == MlfqInv /\ [Next]_vars => MlfqInv'
<1> SUFFICES ASSUME MlfqInv, [Next]_vars PROVE MlfqInv'
  OBVIOUS
<1>0. TypeOK /\ SliceBounded /\ SliceInv
  BY DEF MlfqInv, SliceBounded
<1>1. CASE Select
  <2>1. max_pri' \in Levels
    <3> DEFINE S == {0} \cup {priority[s] : s \in Runnable}
    <3>1. S \in SUBSET Levels /\ S # {}
      BY Limits, <1>0 DEF TypeOK, Runnable, Levels
    <3> QED BY <1>1, <3>1, MaxLevel DEF Select
  <2> QED BY Limits, <1>0, <1>1, <2>1
    DEF Select, MlfqInv, TypeOK, SliceBounded, SliceInv, table
<1>2. CASE Skip
  <2>1. p' \in 1..NPROC+1 /\ max_pri' \in Levels /\ at' \in {"select", "scan"}
    BY Limits, <1>0, <1>2 DEF Skip, TypeOK, Levels
  <2>2. UNCHANGED <<state, priority, ticks, wait_ticks, cou>>
    BY <1>2 DEF Skip, table
  <2> QED BY Limits, <1>0, <2>1, <2>2
    DEF MlfqInv, TypeOK, SliceBounded, SliceInv
<1>3. CASE BeginSlice
  <2>1. p \in Slots /\ priority[p] = max_pri
    BY Limits, <1>0, <1>3 DEF BeginSlice, Chosen, TypeOK, Slots
  <2>2. CASE max_pri = 0
    BY Limits, <1>0, <1>3, <2>1, <2>2, SMTT(30) DEF BeginSlice, MlfqInv,
        TypeOK, SliceBounded, SliceInv
  <2>3. CASE max_pri # 0
    <3>1. max_pri \in 1..Top
      BY Limits, <1>0, <2>3 DEF TypeOK, Levels
    <3>2. /\ ticks' = [ticks EXCEPT ![p] = Restart(ticks[p], max_pri)]
          /\ cou' = ticks'[p][max_pri]
          /\ UNCHANGED <<state, priority, wait_ticks, p, max_pri>> /\ at' = "slice"
      BY <1>3, <2>3 DEF BeginSlice
    <3>3. Restart(ticks[p], max_pri) \in [1..Top -> Nat]
      BY Limits, <1>0, <2>1, <3>1 DEF Restart, TypeOK
    <3>4. \A q \in 1..Top : Restart(ticks[p], max_pri)[q] <= clkPerPrio[q]
      <4>1. \A q \in 1..Top : ticks[p][q] <= clkPerPrio[q] /\ 0 <= clkPerPrio[q]
        BY Limits, <1>0, <2>1 DEF SliceBounded, Levels
      <4>2. \A q \in 1..Top :
             Restart(ticks[p], max_pri)[q] \in {0, ticks[p][q]}
        BY Limits, <1>0, <2>1, <3>1 DEF Restart, TypeOK
      <4> QED BY <4>1, <4>2
    <3>5. TypeOK' /\ SliceBounded'
      BY Limits, <1>0, <2>1, <3>1, <3>2, <3>3, <3>4 DEF TypeOK, SliceBounded
    <3> QED BY Limits, <1>0, <2>1, <3>1, <3>2, <3>5 DEF MlfqInv, SliceInv, TypeOK
  <2> QED BY <2>2, <2>3
<1>4. CASE Dispatch
  <2>1. /\ p \in Slots
        /\ priority[p] \in Levels
        /\ p \in Runnable
    BY Limits, <1>0, <1>4 DEF Dispatch, SliceInv, TypeOK, InSlice
  <2>2. PICK q \in Levels : q = priority[p]
    BY <2>1
  <2>3. /\ priority' \in [Slots -> Levels] /\ priority'[p] = q
        /\ wait_ticks' \in [Slots -> [0..Top-1 -> Nat]]
    BY Limits, <1>0, <1>4, <2>1, <2>2, NoSelfAge DEF Dispatch
  <2>4. q > 0 => ticks[p][q] < clkPerPrio[q] /\ ticks[p][q] <= cou
    <3> SUFFICES ASSUME q > 0 
                 PROVE  ticks[p][q] < clkPerPrio[q] /\ ticks[p][q] <= cou
      OBVIOUS
    <3>1. max_pri > 0 /\ ticks[p][q] <= cou
      BY Limits, <1>0, <1>4, <2>1, <2>2 DEF Dispatch, SliceInv, TypeOK,
          Levels
    <3>2. cou < clkPerPrio[q]
      BY <1>4, <2>2, <3>1 DEF Dispatch, InSlice
    <3>3. ticks[p][q] \in Nat /\ cou \in Nat /\ clkPerPrio[q] \in Nat
      BY Limits, <1>0, <2>1 DEF TypeOK, Levels
    <3> QED BY <3>1, <3>2, <3>3
  <2>5. CASE q = 0
    <3>1. /\ ticks' = ticks
          /\ state' = [state EXCEPT ![p] = "RUNNING"]
          /\ at' = "run"
          /\ UNCHANGED locals
      BY <1>4, <2>3, <2>5 DEF Dispatch
    <3>2. TypeOK'
      BY Limits, <1>0, <2>3, <3>1 DEF TypeOK, locals
    <3>3. SliceBounded'
      BY Limits, <1>0, <3>1, <3>2 DEF SliceBounded
    <3>4. SliceInv'
      BY Limits, <1>0, <2>1, <2>3, <2>5, <3>1 DEF SliceInv, TypeOK, locals
    <3> QED BY <3>3, <3>4 DEF MlfqInv
  <2>6. CASE q # 0
    <3>1. /\ ticks' = [ticks EXCEPT ![p][q] = @ + 1]
          /\ state' = [state EXCEPT ![p] = "RUNNING"]
          /\ at' = "run"
          /\ UNCHANGED locals
      BY <1>4, <2>3, <2>6 DEF Dispatch
    <3>2. /\ q \in 1..Top
          /\ ticks[p] \in [1..Top -> Nat]
          /\ ticks[p][q] \in Nat
          /\ clkPerPrio[q] \in Nat
      BY Limits, <1>0, <2>1, <2>6 DEF TypeOK, Levels
    <3>3. PICK t \in [1..Top -> Nat] : t = [ticks[p] EXCEPT ![q] = @ + 1]
      <4>1. PICK f \in [1..Top -> Nat] : f = ticks[p]
        BY <3>2
      <4>2. f[q] + 1 \in Nat
        BY <3>2
      <4>3. [f EXCEPT ![q] = f[q] + 1] \in [1..Top -> Nat]
        BY <4>2
      <4> QED BY <4>1, <4>3
    <3>4. ticks' = [ticks EXCEPT ![p] = t]
      BY <3>1, <3>3
    <3>5. \A r \in 1..Top : t[r] <= clkPerPrio[r]
      BY Limits, <1>0, <2>1, <2>4, <3>2, <3>3 DEF SliceBounded, Levels
    <3>6. TypeOK'
      BY Limits, <1>0, <2>1, <2>3, <3>1, <3>4 DEF TypeOK, locals
    <3>7. SliceBounded'
      BY Limits, <1>0, <2>1, <3>4, <3>5, <3>6 DEF SliceBounded, TypeOK
    <3>8. ticks'[p][q] <= cou + 1
      <4>1. ticks'[p][q] = ticks[p][q] + 1
        BY Limits, <1>0, <2>1, <3>2, <3>3, <3>4 DEF TypeOK
      <4>2. cou \in Nat
        BY Limits, <1>0 DEF TypeOK
      <4> QED BY <2>4, <3>2, <4>1, <4>2
    <3>9. SliceInv'
      BY Limits, <1>0, <2>1, <2>2, <2>3, <3>1, <3>8, <1>4 DEF Dispatch, SliceInv,
          TypeOK, locals
    <3> QED BY <3>7, <3>9 DEF MlfqInv
  <2> QED BY <2>5, <2>6
<1>5. CASE EndSlice
  <2>1. p \in 1..NPROC
    BY Limits, <1>0, <1>5 DEF EndSlice, SliceInv, Slots
  <2>2. p' \in 1..NPROC+1 /\ cou' \in Nat /\ at' = "scan"
    BY Limits, <1>0, <1>5, <2>1 DEF EndSlice, TypeOK
  <2>3. UNCHANGED <<state, priority, ticks, wait_ticks, max_pri>>
    BY <1>5 DEF EndSlice, table
  <2> QED BY Limits, <1>0, <2>2, <2>3
    DEF MlfqInv, TypeOK, SliceBounded, SliceInv
<1>6. CASE Back
  <2>1. /\ p \in Slots
        /\ priority[p] \in Levels
        /\ UNCHANGED <<state, wait_ticks, max_pri>>
    BY Limits, <1>0, <1>6 DEF Back, SliceInv, TypeOK
  <2>2. PICK q \in Levels : q = priority[p]
    BY <2>1
  <2>3. CASE max_pri > 0 /\ Spent(ticks[p], q)
    <3>1. q \in 1..Top /\ q - 1 \in Levels
      BY Limits, <2>3 DEF Spent, Levels
    <3>2. /\ priority' = [priority EXCEPT ![p] = q - 1]
          /\ ticks' = [ticks EXCEPT ![p] = LowerTicks(ticks[p], q)]
          /\ at' = "slice" /\ cou' = cou + 1 /\ p' = p
      BY <1>6, <2>2, <2>3 DEF Back
    <3>3. /\ ticks[p] \in [1..Top -> Nat]
          /\ \A r \in 1..Top : ticks[p][r] <= clkPerPrio[r] /\ 0 <= clkPerPrio[r]
      BY Limits, <1>0, <2>1 DEF TypeOK, SliceBounded, Levels
    <3>4. PICK t \in [1..Top -> Nat] : t = LowerTicks(ticks[p], q)
      BY <3>3 DEF LowerTicks
    <3>5. (\A r \in 1..Top : t[r] <= clkPerPrio[r]) /\ (q # 1 => t[q - 1] = 0)
      <4>1. CASE q = 1
        BY <3>3, <3>4, <4>1 DEF LowerTicks
      <4>2. CASE q # 1
        <5>1. t = [ticks[p] EXCEPT ![q - 1] = 0] /\ q - 1 \in 1..Top
          BY <3>1, <3>4, <4>2 DEF LowerTicks
        <5> QED BY <3>3, <5>1
      <4> QED BY <4>1, <4>2
    <3>6. TypeOK'
      <4>1. /\ priority' \in [Slots -> Levels]
            /\ ticks' \in [Slots -> [1..Top -> Nat]]
            /\ cou' \in Nat
        <5>1. priority' \in [Slots -> Levels]
          BY <1>0, <2>1, <3>1, <3>2 DEF TypeOK
        <5>2. ticks' \in [Slots -> [1..Top -> Nat]]
          BY <1>0, <2>1, <3>2, <3>4 DEF TypeOK
        <5>3. cou' \in Nat
          BY <1>0, <3>2 DEF TypeOK
        <5> QED BY <5>1, <5>2, <5>3
      <4> QED BY Limits, <1>0, <2>1, <3>2, <4>1 DEF TypeOK
    <3>7. SliceBounded'
      BY Limits, <1>0, <2>1, <3>2, <3>4, <3>5, <3>6 DEF SliceBounded, TypeOK
    <3>8. priority'[p] = q - 1 /\ (q - 1 > 0 => ticks'[p][q - 1] = 0)
      BY Limits, <1>0, <2>1, <3>1, <3>2, <3>4, <3>5 DEF TypeOK
    <3>9. q - 1 > 0 => ticks'[p][q - 1] <= cou'
      BY Limits, <1>0, <3>2, <3>8 DEF TypeOK
    <3> QED BY <2>1, <2>3, <3>2, <3>7, <3>8, <3>9 DEF MlfqInv, SliceInv
  <2>4. CASE max_pri > 0 /\ ~Spent(ticks[p], q)
    <3>1. /\ UNCHANGED <<priority, ticks, p>>
          /\ at' = "slice"
          /\ cou' = cou + 1
          /\ at = "back"
      BY <1>6, <2>2, <2>4 DEF Back
    <3>2. TypeOK'
      BY Limits, <1>0, <2>1, <3>1, SMTT(30) DEF TypeOK
    <3>3. SliceBounded'
      BY Limits, <1>0, <3>1, <3>2 DEF SliceBounded
    <3>4. SliceInv'
      BY Limits, <1>0, <2>1, <2>4, <3>1 DEF SliceInv
    <3> QED BY <3>3, <3>4 DEF MlfqInv
  <2>5. CASE ~(max_pri > 0)
    <3>1. UNCHANGED <<priority, ticks, cou>> /\ at' = "scan" /\ p' = p + 1
      BY <1>6, <2>5 DEF Back
    <3>2. p' \in 1..NPROC+1
      BY Limits, <2>1, <3>1 DEF Slots
    <3> QED BY Limits, <1>0, <2>1, <3>1, <3>2
      DEF MlfqInv, SliceBounded, SliceInv, TypeOK
  <2> QED BY <2>3, <2>4, <2>5
<1>7. CASE Yield \/ Sleep \/ Exit
  <2>1. /\ at = "run" /\ at' = "back"
        /\ UNCHANGED <<priority, ticks, wait_ticks, locals>>
        /\ state' \in [Slots ->
                        {"UNUSED", "SLEEPING", "RUNNABLE", "RUNNING", "ZOMBIE"}]
    BY Limits, <1>0, <1>7 DEF Yield, Sleep, Exit, Leave,
        TypeOK
  <2> QED BY Limits, <1>0, <2>1
    DEF MlfqInv, SliceBounded, SliceInv, TypeOK, locals
<1>8. ASSUME NEW s \in Slots, Fork(s) PROVE MlfqInv'
  <2>1. s # p
    BY Limits, <1>0, <1>8 DEF Fork, SliceInv
  <2>4. /\ NoTicks \in [1..Top -> Nat]
        /\ NoWait \in [0..Top-1 -> Nat]
        /\ Top \in Levels
        /\ \A q \in 1..Top : NoTicks[q] <= clkPerPrio[q]
    BY Limits DEF NoTicks, NoWait, Levels
  <2>5. TypeOK'
    BY Limits, <1>0, <1>8, <2>4 DEF Fork, TypeOK, locals
  <2>2. SliceBounded'
    BY Limits, <1>0, <1>8, <2>4, <2>5 DEF Fork, SliceBounded, TypeOK
  <2>3. SliceInv'
    BY Limits, <1>0, <1>8, <2>1 DEF Fork, SliceInv, TypeOK, locals
  <2> QED BY <2>2, <2>3 DEF MlfqInv
<1>9. ASSUME NEW s \in Slots, Wait(s) \/ Wakeup(s) PROVE MlfqInv'
  BY Limits, <1>0, <1>9 DEF Wait, Wakeup, MlfqInv, TypeOK,
      SliceBounded, SliceInv, locals
<1>10. CASE UNCHANGED vars
  BY Limits, <1>0, <1>10 DEF vars, table, locals, MlfqInv,
      TypeOK, SliceBounded, SliceInv
<1> QED
  BY <1>1, <1>2, <1>3, <1>4, <1>5, <1>6, <1>7, <1>8, <1>9, <1>10 DEF Next,
      SchedulerStep

(* Demotion, aging, fork() and the scheduler's local count together: a     *)
(* process never passes the limit of a level, after which BeginSlice would *)
(* not start its slice over and it would never run again.                  *)
THEOREM SliceBoundedCorrect == Spec => []SliceBounded
<1>1. Init => MlfqInv
  BY Limits DEF Init, MlfqInv, SliceBounded, SliceInv, TypeOK,
      NoTicks, NoWait, Levels,
       Slots, initproc
<1>2. MlfqInv => SliceBounded
  BY DEF MlfqInv
<1> QED BY <1>1, <1>2, MlfqStep, PTL DEF Spec
=============================================================================
