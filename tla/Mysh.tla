-------------------------------- MODULE Mysh --------------------------------
(***************************************************************************)
(* The shell mysh (Project2-1/mysh.c): its loop of a scan of the process   *)
(* table, a prompt and one command, the children it forks and the ones it  *)
(* waits for.  A table entry is a pid, 1 for "never used", or the -1 that  *)
(* a failed fork() leaves there.  Processes are the system's: a child that *)
(* has ended is a zombie until it is waited for, and its pid may then be   *)
(* given to anybody.  kill(pid, 0) finds zombies too, but not init (the    *)
(* shell is not run by root).                                              *)
(*                                                                         *)
(* A command line is what the parser leaves: whether it has a pipe, "<",   *)
(* ">" and "&", and whether their places and counts are right.  Left out:  *)
(* cd and pwd, the words and their memory, what a child does before exec.  *)
(***************************************************************************)
EXTENDS Integers, FiniteSets

CONSTANTS MaxPid,       \* bound: pids 2 .. MaxPid
          NTAB,         \* entries of processtable (20)
          MayFail       \* whether fork() can fail

MyshAssumption == MaxPid \in Nat /\ NTAB \in Nat \ {0} /\ MayFail \in BOOLEAN

ASSUME MyshAssumption

Pids == 2..MaxPid
Init_pid == 1
Every == -1             \* to kill() and waitpid(), -1 is everybody

VARIABLES proc,         \* what the system has under a pid
          role,         \* what the shell forked it for
          processtable, processnum,
          pc, childid   \* the child that the shell waits for (secondson)

shellvars == <<proc, role, processtable, processnum, pc, childid>>

Zombie == {"exited", "signaled"}
Child == {"running"} \cup Zombie
Roles == {"none", "front", "job", "lost", "first", "second"}

ShellTypeOK ==
  /\ proc \in [Pids -> {"none", "other"} \cup Child]
  /\ role \in [Pids -> Roles]
  /\ processtable \in [1..NTAB -> Pids \cup {Init_pid, Every}]
  /\ processnum \in 0..NTAB
  /\ pc \in {"scan", "prompt", "pipe", "wait", "pipewait", "gone"}
  /\ childid \in Pids \cup {Every}

ShellInit ==
  /\ proc \in [Pids -> {"none", "other"}]
  /\ role = [p \in Pids |-> "none"]
  /\ processtable = [i \in 1..NTAB |-> Init_pid]
  /\ processnum = 0
  /\ pc = "scan"
  /\ childid = Every

-----------------------------------------------------------------------------
(* kill(pid, 0) == 0: somebody of the same user is there to be signalled. *)
Exists(p) == p = Every \/ (p \in Pids /\ proc[p] # "none")

(* The scan moves the entries that exist to the front, and leaves what was *)
(* behind them.  Its waitpid() of the others finds no such child.          *)
Kept_SkipsFirst == {i \in 2..NTAB : Exists(processtable[i])}
Kept == {i \in 1..NTAB : Exists(processtable[i])}
Place(i) == Cardinality({j \in Kept : j <= i})
Scan ==
  /\ pc = "scan"
  /\ processtable' = [k \in 1..NTAB |-> IF k <= Cardinality(Kept)
                                        THEN processtable[CHOOSE i \in Kept : Place(i) = k]
                                        ELSE processtable[k]]
  /\ processnum' = Cardinality(Kept)
  /\ pc' = "prompt"
  /\ UNCHANGED <<proc, role, childid>>

(* fork(): any pid that names no process and no zombie. *)
Spawn(p, r) ==
  /\ proc[p] = "none"
  /\ proc' = [proc EXCEPT ![p] = "running"]
  /\ role' = [role EXCEPT ![p] = r]

(* waitpid(p): the child is gone, or with -1 any child. *)
Reap(p) ==
  /\ proc[p] \in Zombie
  /\ proc' = [proc EXCEPT ![p] = "none"]
  /\ role' = [role EXCEPT ![p] = "none"]
NoChild == \A p \in Pids : proc[p] \notin Child

Enter(p) ==
  IF processnum < NTAB
  THEN /\ processtable' = [processtable EXCEPT ![processnum + 1] = p]
       /\ processnum' = processnum + 1
  ELSE UNCHANGED <<processtable, processnum>>

-----------------------------------------------------------------------------
(* A line that is empty, wrong or built in: back to the scan. *)
NoCommand ==
  /\ pc = "prompt"
  /\ pc' = "scan"
  /\ UNCHANGED <<proc, role, processtable, processnum, childid>>

(* exit, end of file, and "cmd < a > b &" with wrong arguments end the     *)
(* shell; the first sends SIGTERM to whom the table names.                 *)
Quit ==
  /\ pc = "prompt"
  /\ pc' = "gone"
  /\ UNCHANGED <<proc, role, processtable, processnum, childid>>

(* The redirections of a command, and how their branches differ: with both *)
(* nobody looks whether fork() failed, and "cmd > b &" enters no job.      *)
Redirections == {"none", "in", "out", "both"}
Noticed(r) == r # "both"
Entered(r) == r # "out"

StartFront(p) == Spawn(p, "front") /\ childid' = p /\ pc' = "wait"
StartJob(p, r) ==
  IF Entered(r)
  THEN Spawn(p, IF processnum < NTAB THEN "job" ELSE "lost") /\ Enter(p)
  ELSE Spawn(p, "lost") /\ UNCHANGED <<processtable, processnum>>

(* In the foreground: a fork() that failed unnoticed has the shell wait    *)
(* for child -1, which is any child.                                       *)
Foreground(r) ==
  /\ pc = "prompt"
  /\ \/ \E p \in Pids : StartFront(p)
     \/ /\ MayFail
        /\ IF Noticed(r) THEN pc' = "scan" /\ UNCHANGED childid
                         ELSE pc' = "wait" /\ childid' = Every
        /\ UNCHANGED <<proc, role>>
  /\ UNCHANGED <<processtable, processnum>>

ForegroundWait ==
  /\ pc = "wait"
  /\ \/ \E p \in Pids : childid \in {p, Every} /\ Reap(p)
     \/ childid = Every /\ NoChild /\ UNCHANGED <<proc, role>>
  /\ pc' = "scan"
  /\ UNCHANGED <<processtable, processnum, childid>>

(* In the background: a fork() that failed unnoticed is entered as a job.  *)
Background(r) ==
  /\ pc = "prompt"
  /\ \/ \E p \in Pids : StartJob(p, r)
     \/ /\ MayFail
        /\ IF Noticed(r) THEN UNCHANGED <<processtable, processnum>> ELSE Enter(Every)
        /\ UNCHANGED <<proc, role>>
  /\ pc' = "scan"
  /\ UNCHANGED childid

(* "a | b": two forks; the shell goes on when the second child exits, and  *)
(* if that was killed by a signal, when no child is left at all.           *)
PipeFirst ==
  /\ pc = "prompt"
  /\ \E p \in Pids : Spawn(p, "first")
  /\ pc' = "pipe"
  /\ UNCHANGED <<processtable, processnum, childid>>

PipeSecond ==
  /\ pc = "pipe"
  /\ \/ /\ \E p \in Pids : Spawn(p, "second") /\ childid' = p
        /\ pc' = "pipewait"
     \/ MayFail /\ pc' = "scan" /\ UNCHANGED <<proc, role, childid>>
  /\ UNCHANGED <<processtable, processnum>>

Over_Any(p) == proc[p] = "exited"
Over_Signaled(p) == p = childid /\ proc[p] = "signaled"
Over(p) == p = childid /\ proc[p] = "exited"
PipeWait ==
  /\ pc = "pipewait"
  /\ \/ \E p \in Pids : Reap(p) /\ pc' = IF Over(p) THEN "scan" ELSE pc
     \/ NoChild /\ pc' = "scan" /\ UNCHANGED <<proc, role>>
  /\ UNCHANGED <<processtable, processnum, childid>>

-----------------------------------------------------------------------------
(* Children end, and other processes come and go. *)
End(p) ==
  /\ proc[p] = "running"
  /\ \E z \in Zombie : proc' = [proc EXCEPT ![p] = z]
  /\ UNCHANGED <<role, processtable, processnum, pc, childid>>

Others(p) ==
  /\ \/ proc[p] = "none" /\ proc' = [proc EXCEPT ![p] = "other"]
     \/ proc[p] = "other" /\ proc' = [proc EXCEPT ![p] = "none"]
  /\ UNCHANGED <<role, processtable, processnum, pc, childid>>

Command == \/ NoCommand \/ Quit \/ PipeFirst
           \/ \E r \in Redirections : Foreground(r) \/ Background(r)
ShellStep == Scan \/ ForegroundWait \/ PipeSecond \/ PipeWait

ShellNext == Command \/ ShellStep \/ \E p \in Pids : End(p) \/ Others(p)

ShellSpec == ShellInit /\ [][ShellNext]_shellvars

FairShell == ShellSpec /\ WF_shellvars(ShellStep)

-----------------------------------------------------------------------------
(* A job that was entered stays in the table until it was waited for: the  *)
(* scan moves entries about and new jobs overwrite what it left behind.    *)
JobsKept ==
  /\ ShellTypeOK
  /\ \A p \in Pids : role[p] = "job" => \E i \in 1..NTAB : processtable[i] = p

(* At the prompt no foreground command is left, nor the second of a pipe:  *)
(* the waits, one by pid and one for anybody, end with the right child.    *)
ForegroundOver ==
  pc = "prompt" => \A p \in Pids : role[p] \notin {"front", "second"}

(* When the awaited child has ended the prompt comes back, whatever other  *)
(* children are reaped on the way (the second of a pipe has to exit).      *)
PromptReturns ==
  \/ pc = "wait" /\ childid # Every /\ proc[childid] \in Zombie
  \/ pc = "pipewait" /\ proc[childid] = "exited"
  ~> pc = "prompt"
=============================================================================
