------------------------------ MODULE ProcTable ------------------------------
(***************************************************************************)
(* The process table of the kernel-threads xv6 (Project4-2/kernel/proc.c): *)
(* processes and kernel threads are slots of ptable.  A critical section   *)
(* under ptable.lock is one step; a write the code makes without that lock *)
(* is a step of its own, so that another CPU can run in between.  pc is    *)
(* where a process stands in the kernel ("user" is user mode), and np is   *)
(* the slot that its fork() or clone() is filling in.                      *)
(*                                                                         *)
(* Left out: the trap frame, names, open files and kernel stacks; memory   *)
(* contents (an address space is its page directory's identity).           *)
(***************************************************************************)
EXTENDS Integers, FiniteSets

CONSTANTS NPROC,       \* number of slots of ptable
          NCPU,        \* number of CPUs running scheduler()
          NPGDIR,      \* page directories that memory has room for
          KillPids,    \* the arguments given to kill()
          Loads        \* the workloads to look at

Calls == {"fork", "clone", "exec", "wait", "join", "kill", "io", "exit"}

(* A workload: the calls that the user programs make, whether kalloc() and *)
(* copyout() can fail, whether the programs are disciplined (below), and   *)
(* a bound: no pid above this one is handed out.                           *)
ProcTableAssumption ==
  /\ NPROC \in Nat \ {0}
  /\ NCPU \in Nat \ {0}
  /\ NPGDIR \in Nat \ {0}
  /\ KillPids \subseteq Nat \ {1}   \* killing init panics: "init exiting"
  /\ Loads \subseteq [calls : SUBSET Calls, fail : BOOLEAN,
                      disciplined : BOOLEAN, MaxPid : Nat]

ASSUME ProcTableAssumption

Slots == 1..NPROC
Nobody == 0
initproc == 1                       \* allocproc() gives userinit() slot 1
PgDirs == 1..NPGDIR
NoDir == 0
IO == NPROC + 1                     \* a channel that a device wakes

States == {"UNUSED", "EMBRYO", "SLEEPING", "RUNNABLE", "RUNNING", "ZOMBIE"}
Alive == {"SLEEPING", "RUNNABLE", "RUNNING"}
PCs == {"user", "fork", "fork_copy", "fork_run", "fork_reset", "clone",
        "clone_set", "clone_run", "exec", "wait", "join", "kill", "io",
        "io_wait", "exit"}

VARIABLES state, pid, parent, pgdir, killed, chan, count_thread, \* struct proc
          nextpid,
          spaces,                   \* page directories in use
          pc, np,
          load                      \* the workload, which never changes

table == <<state, pid, parent, pgdir, killed, chan, count_thread, nextpid,
           spaces, pc, np>>
vars == <<state, pid, parent, pgdir, killed, chan, count_thread, nextpid,
          spaces, pc, np, load>>

TypeOK ==
  /\ state \in [Slots -> States]
  /\ pid \in [Slots -> Nat]
  /\ parent \in [Slots -> Slots \cup {Nobody}]
  /\ pgdir \in [Slots -> PgDirs \cup {NoDir}]
  /\ killed \in [Slots -> BOOLEAN]
  /\ chan \in [Slots -> Slots \cup {Nobody, IO}]
  /\ count_thread \in [Slots -> Int]
  /\ nextpid \in Nat \ {0}
  /\ spaces \subseteq PgDirs
  /\ pc \in [Slots -> PCs]
  /\ np \in [Slots -> Slots \cup {Nobody}]
  /\ load \in Loads

(* userinit(): the first process, alone in the table. *)
Init ==
  /\ state = [s \in Slots |-> IF s = initproc THEN "RUNNABLE" ELSE "UNUSED"]
  /\ pid = [s \in Slots |-> IF s = initproc THEN 1 ELSE 0]
  /\ parent = [s \in Slots |-> Nobody]
  /\ pgdir = [s \in Slots |-> IF s = initproc THEN 1 ELSE NoDir]
  /\ killed = [s \in Slots |-> FALSE]
  /\ chan = [s \in Slots |-> Nobody]
  /\ count_thread = [s \in Slots |-> 0]
  /\ nextpid = 2
  /\ spaces = {1}
  /\ pc = [s \in Slots |-> "user"]
  /\ np = [s \in Slots |-> Nobody]
  /\ load \in Loads

-----------------------------------------------------------------------------
(* The first slot of a scan of the table that satisfies its condition. *)
First(s, S) == s \in S /\ \A t \in S : s <= t

At(p, label) == state[p] = "RUNNING" /\ pc[p] = label
Goto(p, label) == pc' = [pc EXCEPT ![p] = label]

(* wakeup1(): the table after the sleepers on channels C were made runnable. *)
Woken(C) == [s \in Slots |->
               IF state[s] = "SLEEPING" /\ chan[s] \in C THEN "RUNNABLE" ELSE state[s]]

Children(p) == {c \in Slots : parent[c] = p}
Kids_Threads(p) == Children(p)
Kids(p) == {c \in Children(p) : pgdir[c] # pgdir[p]}     \* what wait() sees
Threads(p) == {c \in Children(p) : pgdir[c] = pgdir[p]}  \* what join() sees
Zombies(S) == {c \in S : state[c] = "ZOMBIE"}

(* Disciplined programs: a thread neither execs nor makes threads, and its *)
(* creator joins it before it execs or exits.                              *)
MayLeave(p) == load.disciplined => Threads(p) = {}
MayClone(p) == load.disciplined => \A q \in Slots : p \notin Threads(q)
MayExec(p) == MayLeave(p) /\ MayClone(p)

-----------------------------------------------------------------------------
(* scheduler(): a CPU without a process takes a runnable one. *)
Dispatch(p) ==
  /\ state[p] = "RUNNABLE"
  /\ Cardinality({s \in Slots : state[s] = "RUNNING"}) < NCPU
  /\ state' = [state EXCEPT ![p] = "RUNNING"]
  /\ UNCHANGED <<pid, parent, pgdir, killed, chan, count_thread, nextpid,
                 spaces, pc, np>>

(* yield(), from the clock interrupt, wherever the process stands. *)
Yield(p) ==
  /\ state[p] = "RUNNING"
  /\ state' = [state EXCEPT ![p] = "RUNNABLE"]
  /\ UNCHANGED <<pid, parent, pgdir, killed, chan, count_thread, nextpid,
                 spaces, pc, np>>

(* trap() for a system call: a killed process exits instead.  The pids     *)
(* still to be handed out are counted so that the bound never blocks one   *)
(* that is already in the kernel.                                          *)
Syscall(p, c) ==
  /\ At(p, "user")
  /\ ~killed[p]
  /\ c \in load.calls
  /\ c \in {"fork", "clone"} =>
       nextpid + Cardinality({s \in Slots : pc[s] \in {"fork", "clone"}}) <= load.MaxPid
  /\ c = "exit" => p # initproc /\ MayLeave(p)
  /\ c = "exec" => MayExec(p)
  /\ c = "clone" => MayClone(p)
  /\ Goto(p, c)
  /\ UNCHANGED <<state, pid, parent, pgdir, killed, chan, count_thread,
                 nextpid, spaces, np>>

FreeSlots_PastEnd == {s \in Slots : state[s] = "UNUSED"} \cup {NPROC + 1}
FreeSlots_Embryo == {s \in Slots : state[s] \in {"UNUSED", "EMBRYO"}}
FreeSlots == {s \in Slots : state[s] = "UNUSED"}

PidAfter_Stuck(n) == n
PidAfter(n) == n + 1

(* The page directories that kalloc() can return. *)
FreeDirs == PgDirs \ spaces

(* allocproc() up to the release of the lock: the first unused slot becomes *)
(* an embryo, or the call fails with -1.  Its killed flag is not reset.     *)
allocproc(p, next) ==
  \/ /\ FreeSlots = {}
     /\ Goto(p, "user")
     /\ UNCHANGED <<state, pid, count_thread, nextpid, np>>
  \/ \E s \in FreeSlots :
       /\ First(s, FreeSlots)
       /\ state' = [state EXCEPT ![s] = "EMBRYO"]
       /\ pid' = [pid EXCEPT ![s] = nextpid]
       /\ count_thread' = [count_thread EXCEPT ![s] = 0]
       /\ nextpid' = PidAfter(nextpid)
       /\ np' = [np EXCEPT ![p] = s]
       /\ Goto(p, next)

ForkAlloc(p) ==
  /\ At(p, "fork")
  /\ allocproc(p, "fork_copy")
  /\ UNCHANGED <<parent, pgdir, killed, chan, spaces>>

CloneAlloc(p) ==
  /\ At(p, "clone")
  /\ allocproc(p, "clone_set")
  /\ UNCHANGED <<parent, pgdir, killed, chan, spaces>>

(* No page for the kernel stack or the page tables: the slot is given back *)
(* without the lock, with the pid it was handed and whatever kill() wrote. *)
AllocFail(p) ==
  /\ \/ At(p, "fork_copy") /\ (load.fail \/ FreeDirs = {})
     \/ At(p, "clone_set") /\ load.fail
  /\ state' = [state EXCEPT ![np[p]] = "UNUSED"]
  /\ np' = [np EXCEPT ![p] = Nobody]
  /\ Goto(p, "user")
  /\ UNCHANGED <<pid, parent, pgdir, killed, chan, count_thread, nextpid, spaces>>

(* fork(): copyuvm() and the fields of the child. *)
ForkCopy(p) ==
  /\ At(p, "fork_copy")
  /\ \E g \in FreeDirs :
       /\ First(g, FreeDirs)
       /\ pgdir' = [pgdir EXCEPT ![np[p]] = g]
       /\ spaces' = spaces \cup {g}
  /\ parent' = [parent EXCEPT ![np[p]] = p]
  /\ Goto(p, "fork_run")
  /\ UNCHANGED <<state, pid, killed, chan, count_thread, nextpid, np>>

(* fork(): np->state = RUNNABLE, without the lock. *)
ForkRun(p) ==
  /\ At(p, "fork_run")
  /\ state' = [state EXCEPT ![np[p]] = "RUNNABLE"]
  /\ pc' = [pc EXCEPT ![p] = "fork_reset", ![np[p]] = "user"]
  /\ UNCHANGED <<pid, parent, pgdir, killed, chan, count_thread, nextpid,
                 spaces, np>>

(* fork(): np->count_thread = 0, when the child may be running already. *)
ForkReset(p) ==
  /\ At(p, "fork_reset")
  /\ count_thread' = [count_thread EXCEPT ![np[p]] = 0]
  /\ np' = [np EXCEPT ![p] = Nobody]
  /\ Goto(p, "user")
  /\ UNCHANGED <<state, pid, parent, pgdir, killed, chan, nextpid, spaces>>

(* clone(): the thread shares the creator's address space; if its stack is *)
(* not mapped, copyout() fails and the embryo stays in the table.          *)
CloneSet(p) ==
  /\ At(p, "clone_set")
  /\ pgdir' = [pgdir EXCEPT ![np[p]] = pgdir[p]]
  /\ parent' = [parent EXCEPT ![np[p]] = p]
  /\ count_thread' = [count_thread EXCEPT ![p] = @ + 1]
  /\ \/ Goto(p, "clone_run") /\ UNCHANGED np
     \/ load.fail /\ Goto(p, "user") /\ np' = [np EXCEPT ![p] = Nobody]
  /\ UNCHANGED <<state, pid, killed, chan, nextpid, spaces>>

CloneRun(p) ==
  /\ At(p, "clone_run")
  /\ state' = [state EXCEPT ![np[p]] = "RUNNABLE"]
  /\ pc' = [pc EXCEPT ![p] = "user", ![np[p]] = "user"]
  /\ np' = [np EXCEPT ![p] = Nobody]
  /\ UNCHANGED <<pid, parent, pgdir, killed, chan, count_thread, nextpid, spaces>>

(* exec(): commit to a new address space and free the old one, or fail. *)
Exec(p) ==
  /\ At(p, "exec")
  /\ Goto(p, "user")
  /\ \/ \E g \in FreeDirs :
          /\ First(g, FreeDirs)
          /\ pgdir' = [pgdir EXCEPT ![p] = g]
          /\ spaces' = (spaces \cup {g}) \ {pgdir[p]}
     \/ (load.fail \/ FreeDirs = {}) /\ UNCHANGED <<pgdir, spaces>>
  /\ UNCHANGED <<state, pid, parent, killed, chan, count_thread, nextpid, np>>

-----------------------------------------------------------------------------
(* Whom exit() wakes: the parent, and init if it inherits a zombie. *)
Awaiters_InitOnly(p) == {initproc}
Awaiters(p) ==
  IF Zombies(Children(p)) = {} THEN {parent[p]} ELSE {parent[p], initproc}

Adopted_None(p) == parent
Adopted(p) == [s \in Slots |-> IF parent[s] = p THEN initproc ELSE parent[s]]

(* exit(): wake the parent, hand the children to init (waking it if one is *)
(* a zombie already), become a zombie.  Reached by the system call, or     *)
(* from trap() because the process was killed.                             *)
Exit(p) ==
  /\ At(p, "exit") \/ (At(p, "user") /\ killed[p])
  /\ p # initproc
  /\ state' = [Woken(Awaiters(p)) EXCEPT ![p] = "ZOMBIE"]
  /\ parent' = Adopted(p)
  /\ Goto(p, "user")
  /\ UNCHANGED <<pid, pgdir, killed, chan, count_thread, nextpid, spaces, np>>

ClearKilled(c) == [killed EXCEPT ![c] = FALSE]

(* What wait() and join() do to the slot of the zombie they found. *)
Reap(c) ==
  /\ state' = [state EXCEPT ![c] = "UNUSED"]
  /\ pid' = [pid EXCEPT ![c] = 0]
  /\ parent' = [parent EXCEPT ![c] = Nobody]
  /\ killed' = ClearKilled(c)

(* sleep(proc, &ptable.lock) *)
SleepOnSelf(p) ==
  /\ state' = [state EXCEPT ![p] = "SLEEPING"]
  /\ chan' = [chan EXCEPT ![p] = p]
  /\ UNCHANGED <<pid, parent, killed, pc>>

(* The test before freevm(). *)
LastReference(c) == count_thread[c] = 0

(* wait(): one pass over the table, from the call or from a wakeup.  The   *)
(* child's address space is freed if its own count of threads is zero.     *)
Wait(p) ==
  /\ At(p, "wait")
  /\ \/ \E c \in Zombies(Kids(p)) :
          /\ First(c, Zombies(Kids(p)))
          /\ Reap(c)
          /\ spaces' = IF LastReference(c) THEN spaces \ {pgdir[c]} ELSE spaces
          /\ chan' = [chan EXCEPT ![p] = Nobody]
          /\ Goto(p, "user")
     \/ /\ Zombies(Kids(p)) = {}
        /\ Kids(p) = {} \/ killed[p]
        /\ chan' = [chan EXCEPT ![p] = Nobody]
        /\ Goto(p, "user")
        /\ UNCHANGED <<state, pid, parent, killed, spaces>>
     \/ /\ Zombies(Kids(p)) = {} /\ Kids(p) # {} /\ ~killed[p]
        /\ SleepOnSelf(p)
        /\ UNCHANGED spaces
  /\ UNCHANGED <<pgdir, count_thread, nextpid, np>>

(* join(): the same for threads; it counts down and frees no memory. *)
Join(p) ==
  /\ At(p, "join")
  /\ \/ \E c \in Zombies(Threads(p)) :
          /\ First(c, Zombies(Threads(p)))
          /\ Reap(c)
          /\ count_thread' = [count_thread EXCEPT ![p] = @ - 1]
          /\ chan' = [chan EXCEPT ![p] = Nobody]
          /\ Goto(p, "user")
     \/ /\ Zombies(Threads(p)) = {}
        /\ Threads(p) = {} \/ killed[p]
        /\ chan' = [chan EXCEPT ![p] = Nobody]
        /\ Goto(p, "user")
        /\ UNCHANGED <<state, pid, parent, killed, count_thread>>
     \/ /\ Zombies(Threads(p)) = {} /\ Threads(p) # {} /\ ~killed[p]
        /\ SleepOnSelf(p)
        /\ UNCHANGED count_thread
  /\ UNCHANGED <<pgdir, nextpid, spaces, np>>

Roused_No(s) == state
Roused(s) == [state EXCEPT ![s] = IF @ = "SLEEPING" THEN "RUNNABLE" ELSE @]

(* kill(): the first slot with that pid, whatever its state. *)
Kill(p, k) ==
  /\ At(p, "kill")
  /\ Goto(p, "user")
  /\ LET match == {s \in Slots : pid[s] = k}
     IN \/ match = {} /\ UNCHANGED <<state, killed>>
        \/ \E s \in match :
             /\ First(s, match)
             /\ killed' = [killed EXCEPT ![s] = TRUE]
             /\ state' = Roused(s)
  /\ UNCHANGED <<pid, parent, pgdir, chan, count_thread, nextpid, spaces, np>>

(* sleep() in a driver, the interrupt's wakeup(), and the return. *)
SleepIO(p) ==
  /\ At(p, "io")
  /\ state' = [state EXCEPT ![p] = "SLEEPING"]
  /\ chan' = [chan EXCEPT ![p] = IO]
  /\ Goto(p, "io_wait")
  /\ UNCHANGED <<pid, parent, pgdir, killed, count_thread, nextpid, spaces, np>>

WakeupIO ==
  /\ \E s \in Slots : state[s] = "SLEEPING" /\ chan[s] = IO
  /\ state' = Woken({IO})
  /\ UNCHANGED <<pid, parent, pgdir, killed, chan, count_thread, nextpid,
                 spaces, pc, np>>

ReturnIO(p) ==
  /\ At(p, "io_wait")
  /\ chan' = [chan EXCEPT ![p] = Nobody]
  /\ Goto(p, "user")
  /\ UNCHANGED <<state, pid, parent, pgdir, killed, count_thread, nextpid,
                 spaces, np>>

-----------------------------------------------------------------------------
(* The steps of a process that is in the kernel or must enter it to exit. *)
KernelStep(p) ==
  \/ ForkAlloc(p) \/ ForkCopy(p) \/ ForkRun(p) \/ ForkReset(p)
  \/ CloneAlloc(p) \/ CloneSet(p) \/ CloneRun(p) \/ AllocFail(p)
  \/ Exec(p) \/ Exit(p) \/ Wait(p) \/ Join(p)
  \/ \E k \in KillPids : Kill(p, k)
  \/ SleepIO(p) \/ ReturnIO(p)

Next ==
  /\ \/ WakeupIO
     \/ \E p \in Slots :
          \/ Dispatch(p) \/ Yield(p) \/ KernelStep(p)
          \/ \E c \in Calls : Syscall(p, c)
  /\ UNCHANGED load

Spec == Init /\ [][Next]_vars

(* A runnable slot stays runnable until a CPU takes it, and every CPU's    *)
(* scan of the table passes it: strong fairness of Dispatch.  A time slice *)
(* is long enough for a step of the process: strong fairness of its steps. *)
(* The clock and the devices keep interrupting.                            *)
Fairness ==
  /\ WF_table(WakeupIO)
  /\ \A p \in Slots : /\ WF_table(Yield(p))
                      /\ SF_table(Dispatch(p))
                      /\ SF_table(KernelStep(p))

FairSpec == Spec /\ Fairness

-----------------------------------------------------------------------------
(* A process asleep in wait() or join() has no zombie to collect: exit()   *)
(* wakes the right sleeper in time, also when it hands a child to init.    *)
NoLostExit ==
  \A p \in Slots :
    state[p] = "SLEEPING" /\ chan[p] = p =>
      Zombies(IF pc[p] = "wait" THEN Kids(p) ELSE Threads(p)) = {}

(* Nobody is orphaned: a process that was started, dead or alive, has a    *)
(* parent that can still call wait() or join() for it.                     *)
FamilyTree ==
  /\ state[initproc] \in Alive
  /\ \A c \in Slots \ {initproc} :
       state[c] \in Alive \cup {"ZOMBIE"} => parent[c] # Nobody
  /\ \A c \in Slots : parent[c] # Nobody => state[parent[c]] \in Alive

(* A slot being filled in belongs to one fork() or clone(), whose process  *)
(* is alive: no other CPU gives it out, starts it or takes it back.        *)
Filling == {"fork_copy", "fork_run", "clone_set", "clone_run"}
EmbryoOwned ==
  /\ \A p \in Slots : pc[p] # "user" => state[p] \in Alive
  /\ \A p \in Slots : pc[p] \in Filling => np[p] \in Slots /\ state[np[p]] = "EMBRYO"
  /\ \A p, q \in Slots :
       pc[p] \in Filling /\ pc[q] \in Filling /\ np[p] = np[q] => p = q
  /\ \A p \in Slots : pc[p] \in {"fork_run", "clone_run"} => parent[np[p]] # Nobody
  /\ parent[initproc] = Nobody
  /\ \A c \in Slots : parent[c] # c

(* No two slots carry the same pid, so kill() and the callers of fork() and *)
(* wait() name one process; a slot given back without the lock keeps its.   *)
PidUnique ==
  /\ \A s \in Slots : pid[s] < nextpid
  /\ \A s, t \in Slots : pid[s] # 0 /\ pid[s] = pid[t] => s = t

(* The README: wait() frees "the address space only when it is the last   *)
(* reference to it": no process that can still run is left in it.  The     *)
(* test is on the collected child's own count of threads, so that it takes *)
(* disciplined programs that nobody kills: two orphaned threads are enough *)
(* to break it.                                                            *)
FreedAtLastReference ==
  [][load.disciplined /\ "kill" \notin load.calls =>
       \A g \in spaces \ spaces' : \A s \in Slots :
         state'[s] \in Alive => pgdir'[s] # g]_vars

(* The machine comes to a stop, with everybody asleep in wait() or join(), *)
(* only for an embryo that a failed clone() left behind, which its creator *)
(* or init awaits for ever.                                                *)
StopsOnlyForEmbryo ==
  (\A s \in Slots : state[s] \in Alive => state[s] = "SLEEPING" /\ chan[s] # IO)
    => \E c \in Slots : state[c] = "EMBRYO" /\ parent[c] # Nobody

(* wait() and join() return once a child they can collect is a zombie. *)
WaitReturns ==
  \A p \in Slots :
    /\ pc[p] = "wait" /\ Zombies(Kids(p)) # {} ~> pc[p] # "wait"
    /\ pc[p] = "join" /\ Zombies(Threads(p)) # {} ~> pc[p] # "join"

(* A killed process leaves: it is not stuck asleep in the kernel. *)
KilledExits ==
  \A p \in Slots \ {initproc} :
    killed[p] /\ state[p] \in Alive ~> state[p] \in {"ZOMBIE", "UNUSED"}
=============================================================================
