--------------------------- MODULE ProcTableProofs ---------------------------
(***************************************************************************)
(* For every number of slots, CPUs and page directories: the type          *)
(* invariant of ProcTable, that pids name one slot, that nobody is          *)
(* orphaned, that wait() and join() never sleep through an exit, that the  *)
(* machine stops only for an embryo that a failed clone() left behind, and *)
(* that memory is freed only at its last reference.                        *)
(***************************************************************************)
EXTENDS ProcTable, FiniteSetTheorems, TLAPS

(* There is a slot and a page directory for init.                          *)
LEMMA InitSlot == 1 \in Slots /\ 1 \in PgDirs
  BY ProcTableAssumption DEF ProcTableAssumption, Slots, PgDirs

(* The variables keep their types: the kernel never follows np or parent   *)
(* outside of the table.                                                   *)
LEMMA TypeStep == TypeOK /\ [Next]_vars => TypeOK'
<1> SUFFICES ASSUME TypeOK, [Next]_vars PROVE TypeOK'
  OBVIOUS
<1>0. load' = load
  BY DEF Next, vars
<1> USE <1>0, InitSlot DEF TypeOK, Goto, initproc
<1>1. CASE WakeupIO
  BY <1>1 DEF WakeupIO, Woken, States
<1>2. ASSUME NEW p \in Slots, Dispatch(p) PROVE TypeOK'
  BY <1>2 DEF Dispatch, States
<1>3. ASSUME NEW p \in Slots, Yield(p) PROVE TypeOK'
  BY <1>3 DEF Yield, States
<1>4. ASSUME NEW p \in Slots, NEW c \in Calls, Syscall(p, c) PROVE TypeOK'
  BY <1>4 DEF Syscall, Calls, PCs
<1>5. ASSUME NEW p \in Slots, ForkAlloc(p) PROVE TypeOK'
  BY <1>5 DEF ForkAlloc, allocproc, FreeSlots, First, PidAfter, States, PCs
<1>6. ASSUME NEW p \in Slots, CloneAlloc(p) PROVE TypeOK'
  BY <1>6 DEF CloneAlloc, allocproc, FreeSlots, First, PidAfter, States, PCs
<1>7. ASSUME NEW p \in Slots, AllocFail(p) PROVE TypeOK'
  BY <1>7 DEF AllocFail, States, PCs
<1>8. ASSUME NEW p \in Slots, ForkCopy(p) PROVE TypeOK'
  BY <1>8 DEF ForkCopy, FreeDirs, PCs
<1>9. ASSUME NEW p \in Slots, ForkRun(p) PROVE TypeOK'
  BY <1>9 DEF ForkRun, States, PCs
<1>10. ASSUME NEW p \in Slots, ForkReset(p) PROVE TypeOK'
  <2>1. count_thread' \in [Slots -> Int]
    <3>1. count_thread' = [count_thread EXCEPT ![np[p]] = 0]
      BY <1>10 DEF ForkReset
    <3>2. \A s \in Slots : count_thread'[s] \in Int
      BY <3>1
    <3> QED BY <3>1, <3>2
  <2> QED BY <1>10, <2>1 DEF ForkReset, PCs
<1>11. ASSUME NEW p \in Slots, CloneSet(p) PROVE TypeOK'
  <2>1. count_thread' \in [Slots -> Int]
    BY <1>11 DEF CloneSet
  <2>2. pc' \in [Slots -> PCs] /\ np' \in [Slots -> Slots \cup {Nobody}]
    BY <1>11 DEF CloneSet, PCs
  <2>3. pgdir' \in [Slots -> PgDirs \cup {NoDir}]
    BY <1>11 DEF CloneSet
  <2>4. parent' \in [Slots -> Slots \cup {Nobody}]
    BY <1>11 DEF CloneSet
  <2> QED BY <1>11, <2>1, <2>2, <2>3, <2>4 DEF CloneSet
<1>12. ASSUME NEW p \in Slots, CloneRun(p) PROVE TypeOK'
  BY <1>12 DEF CloneRun, States, PCs
<1>13. ASSUME NEW p \in Slots, Exec(p) PROVE TypeOK'
  BY <1>13 DEF Exec, FreeDirs, PCs
<1>14. ASSUME NEW p \in Slots, Exit(p) PROVE TypeOK'
  BY <1>14 DEF Exit, Woken, Adopted, States, PCs
<1>15. ASSUME NEW p \in Slots, Wait(p) PROVE TypeOK'
  <2>1. state' \in [Slots -> States] /\ pid' \in [Slots -> Nat]
    BY <1>15 DEF Wait, Reap, SleepOnSelf, States
  <2>2. killed' \in [Slots -> BOOLEAN] /\ pc' \in [Slots -> PCs]
    BY <1>15 DEF Wait, Reap, ClearKilled, SleepOnSelf, PCs
  <2>3. /\ parent' \in [Slots -> Slots \cup {Nobody}]
        /\ chan' \in [Slots -> Slots \cup {Nobody, IO}]
    BY <1>15 DEF Wait, Reap, SleepOnSelf
  <2>4. spaces' \subseteq PgDirs
    BY <1>15 DEF Wait
  <2> QED BY <1>15, <2>1, <2>2, <2>3, <2>4 DEF Wait
<1>16. ASSUME NEW p \in Slots, Join(p) PROVE TypeOK'
  <2>1. state' \in [Slots -> States] /\ pid' \in [Slots -> Nat]
    BY <1>16 DEF Join, Reap, SleepOnSelf, States
  <2>2. killed' \in [Slots -> BOOLEAN] /\ pc' \in [Slots -> PCs]
    BY <1>16 DEF Join, Reap, ClearKilled, SleepOnSelf, PCs
  <2>3. /\ parent' \in [Slots -> Slots \cup {Nobody}]
        /\ chan' \in [Slots -> Slots \cup {Nobody, IO}]
    BY <1>16 DEF Join, Reap, SleepOnSelf
  <2>4. count_thread' \in [Slots -> Int]
    BY <1>16 DEF Join
  <2> QED BY <1>16, <2>1, <2>2, <2>3, <2>4 DEF Join
<1>17. ASSUME NEW p \in Slots, NEW k \in KillPids, Kill(p, k) PROVE TypeOK'
  BY <1>17 DEF Kill, Roused, First, States, PCs
<1>18. ASSUME NEW p \in Slots, SleepIO(p) PROVE TypeOK'
  BY <1>18 DEF SleepIO, States, PCs
<1>19. ASSUME NEW p \in Slots, ReturnIO(p) PROVE TypeOK'
  BY <1>19 DEF ReturnIO, PCs
<1>20. CASE UNCHANGED vars
  BY <1>20 DEF vars
<1> QED
  BY <1>1, <1>2, <1>3, <1>4, <1>5, <1>6, <1>7, <1>8, <1>9, <1>10, <1>11, <1>12,
     <1>13, <1>14, <1>15, <1>16, <1>17, <1>18, <1>19, <1>20 DEF Next, KernelStep

(* Every reachable state of the process table is well typed. *)
THEOREM TypeCorrect == Spec => []TypeOK
<1>1. Init => TypeOK
  BY InitSlot DEF Init, TypeOK, initproc, States, PCs
<1> QED BY <1>1, TypeStep, PTL DEF Spec

(* wait() and join() differ only in whose zombie they take and in what they *)
(* do with the address space: both reap one zombie child, return, or sleep. *)
CollectStep(p) ==
  /\ state[p] = "RUNNING" /\ pc[p] \in {"wait", "join"}
  /\ \/ \E c \in Slots : state[c] = "ZOMBIE" /\ parent[c] = p /\ Reap(c)
                         /\ chan' = [chan EXCEPT ![p] = Nobody] /\ Goto(p, "user")
     \/ /\ UNCHANGED <<state, pid, parent>>
        /\ chan' = [chan EXCEPT ![p] = Nobody]
        /\ Goto(p, "user")
     \/ /\ SleepOnSelf(p)
        /\ \E c \in Children(p) : state[c] # "ZOMBIE"
        /\ Zombies(IF pc[p] = "wait" THEN Kids(p) ELSE Threads(p)) = {}
  /\ UNCHANGED <<nextpid, np, pgdir>>

(* One pass of wait() or of join() is a CollectStep.                       *)
LEMMA Collecting ==
  \A p \in Slots : Wait(p) \/ Join(p) => CollectStep(p)
<1> SUFFICES ASSUME NEW p \in Slots, Wait(p) \/ Join(p) PROVE CollectStep(p)
  OBVIOUS
<1>1. CASE Wait(p)
  BY <1>1 DEF Wait, CollectStep, At, Zombies, Kids, Children
<1>2. CASE Join(p)
  BY <1>2 DEF Join, CollectStep, At, Zombies, Threads, Children
<1> QED BY <1>1, <1>2

(* allocproc() hands out nextpid under the lock; reaping clears the pid. *)
LEMMA PidStep == TypeOK /\ PidUnique /\ [Next]_vars => PidUnique'
<1> SUFFICES ASSUME TypeOK, PidUnique, [Next]_vars PROVE PidUnique'
  OBVIOUS
<1> USE DEF TypeOK, PidUnique
<1>1. CASE WakeupIO
  BY <1>1 DEF WakeupIO, Woken
<1>2. ASSUME NEW p \in Slots, Dispatch(p) PROVE PidUnique'
  BY <1>2 DEF Dispatch
<1>3. ASSUME NEW p \in Slots, Yield(p) PROVE PidUnique'
  BY <1>3 DEF Yield
<1>4. ASSUME NEW p \in Slots, NEW c \in Calls, Syscall(p, c) PROVE PidUnique'
  BY <1>4 DEF Syscall, Calls
<1>5. ASSUME NEW p \in Slots, ForkAlloc(p) PROVE PidUnique'
  BY <1>5 DEF ForkAlloc, allocproc, FreeSlots, First, PidAfter
<1>6. ASSUME NEW p \in Slots, CloneAlloc(p) PROVE PidUnique'
  BY <1>6 DEF CloneAlloc, allocproc, FreeSlots, First, PidAfter
<1>7. ASSUME NEW p \in Slots, AllocFail(p) PROVE PidUnique'
  BY <1>7 DEF AllocFail
<1>8. ASSUME NEW p \in Slots, ForkCopy(p) PROVE PidUnique'
  BY <1>8 DEF ForkCopy
<1>9. ASSUME NEW p \in Slots, ForkRun(p) PROVE PidUnique'
  BY <1>9 DEF ForkRun
<1>10. ASSUME NEW p \in Slots, ForkReset(p) PROVE PidUnique'
  BY <1>10 DEF ForkReset
<1>11. ASSUME NEW p \in Slots, CloneSet(p) PROVE PidUnique'
  BY <1>11 DEF CloneSet
<1>12. ASSUME NEW p \in Slots, CloneRun(p) PROVE PidUnique'
  BY <1>12 DEF CloneRun
<1>13. ASSUME NEW p \in Slots, Exec(p) PROVE PidUnique'
  BY <1>13 DEF Exec
<1>14. ASSUME NEW p \in Slots, Exit(p) PROVE PidUnique'
  BY <1>14 DEF Exit, Woken, Adopted
<1>15. ASSUME NEW p \in Slots, CollectStep(p) PROVE PidUnique'
  BY <1>15 DEF CollectStep, Reap, SleepOnSelf
<1>16. ASSUME NEW p \in Slots, NEW k \in KillPids, Kill(p, k) PROVE PidUnique'
  BY <1>16 DEF Kill, Roused, First
<1>17. ASSUME NEW p \in Slots, SleepIO(p) PROVE PidUnique'
  BY <1>17 DEF SleepIO
<1>18. ASSUME NEW p \in Slots, ReturnIO(p) PROVE PidUnique'
  BY <1>18 DEF ReturnIO
<1>19. CASE UNCHANGED vars
  BY <1>19 DEF vars
<1> QED
  BY Collecting,
     <1>1, <1>2, <1>3, <1>4, <1>5, <1>6, <1>7, <1>8, <1>9, <1>10,
     <1>11, <1>12, <1>13, <1>14, <1>15, <1>16, <1>17, <1>18, <1>19
     DEF Next, KernelStep

(* Only its owner starts or gives back the slot it is filling in. *)
LEMMA EmbryoStep == TypeOK /\ FamilyTree /\ EmbryoOwned /\ [Next]_vars => EmbryoOwned'
<1> SUFFICES ASSUME TypeOK, FamilyTree, EmbryoOwned, [Next]_vars PROVE EmbryoOwned'
  OBVIOUS
<1> USE InitSlot DEF TypeOK, FamilyTree, EmbryoOwned, Filling, Alive, States, At, Goto,
        initproc, Nobody
<1>1. CASE WakeupIO
  BY <1>1 DEF WakeupIO, Woken
<1>2. ASSUME NEW p \in Slots, Dispatch(p) PROVE EmbryoOwned'
  BY <1>2 DEF Dispatch
<1>3. ASSUME NEW p \in Slots, Yield(p) PROVE EmbryoOwned'
  BY <1>3 DEF Yield
<1>4. ASSUME NEW p \in Slots, NEW c \in Calls, Syscall(p, c) PROVE EmbryoOwned'
  BY <1>4 DEF Syscall, Calls
<1>5. ASSUME NEW p \in Slots, ForkAlloc(p) PROVE EmbryoOwned'
  BY <1>5 DEF ForkAlloc, allocproc, FreeSlots, First
<1>6. ASSUME NEW p \in Slots, CloneAlloc(p) PROVE EmbryoOwned'
  BY <1>6 DEF CloneAlloc, allocproc, FreeSlots, First
<1>7. ASSUME NEW p \in Slots, AllocFail(p) PROVE EmbryoOwned'
  BY <1>7 DEF AllocFail
<1>8. ASSUME NEW p \in Slots, ForkCopy(p) PROVE EmbryoOwned'
  <2>1. np[p] \in Slots /\ state[np[p]] = "EMBRYO" /\ np[p] # p /\ np[p] # initproc
    BY <1>8 DEF ForkCopy
  <2>2. parent' = [parent EXCEPT ![np[p]] = p] /\ pc' = [pc EXCEPT ![p] = "fork_run"]
        /\ UNCHANGED <<state, np>>
    BY <1>8 DEF ForkCopy
  <2>3. \A q \in Slots : pc'[q] \in {"fork_run", "clone_run"} => parent'[np'[q]] # Nobody
    <3> SUFFICES ASSUME NEW q \in Slots, pc'[q] \in {"fork_run", "clone_run"}
                 PROVE  parent'[np'[q]] # Nobody
      OBVIOUS
    <3>1. CASE q = p
      BY <2>1, <2>2, <3>1 DEF Slots
    <3>2. CASE q # p
      <4>1. pc[q] \in Filling /\ np'[q] \in Slots /\ parent[np[q]] # Nobody
        BY <2>2, <3>2
      <4> QED BY <2>1, <2>2, <3>2, <4>1 DEF Slots
    <3> QED BY <3>1, <3>2
  <2>4. parent'[initproc] = Nobody /\ \A c \in Slots : parent'[c] # c
    BY <2>1, <2>2
  <2>5. \A q \in Slots : pc'[q] \in Filling <=> pc[q] \in Filling
    BY <2>2, <1>8 DEF ForkCopy
  <2> QED BY <2>1, <2>2, <2>3, <2>4, <2>5, <1>8
<1>9. ASSUME NEW p \in Slots, ForkRun(p) PROVE EmbryoOwned'
  BY <1>9 DEF ForkRun
<1>10. ASSUME NEW p \in Slots, ForkReset(p) PROVE EmbryoOwned'
  BY <1>10 DEF ForkReset
<1>11. ASSUME NEW p \in Slots, CloneSet(p) PROVE EmbryoOwned'
  <2>1. np[p] \in Slots /\ state[np[p]] = "EMBRYO" /\ np[p] # p /\ np[p] # initproc
    BY <1>11 DEF CloneSet
  <2>2. parent' = [parent EXCEPT ![np[p]] = p] /\ state' = state
        /\ pc' \in {[pc EXCEPT ![p] = "clone_run"], [pc EXCEPT ![p] = "user"]}
    BY <1>11 DEF CloneSet
  <2>3. \A q \in Slots : pc'[q] \in Filling => pc[q] \in Filling /\ np'[q] = np[q]
    BY <2>2, <1>11 DEF CloneSet
  <2>4. \A q \in Slots : pc'[q] \in {"fork_run", "clone_run"} => parent'[np'[q]] # Nobody
    <3> SUFFICES ASSUME NEW q \in Slots, pc'[q] \in {"fork_run", "clone_run"}
                 PROVE  parent'[np'[q]] # Nobody
      OBVIOUS
    <3>1. CASE q = p
      BY <2>1, <2>2, <2>3, <3>1 DEF Slots
    <3>2. CASE q # p
      <4>1. pc[q] \in Filling /\ np'[q] \in Slots /\ np'[q] = np[q] /\ parent[np[q]] # Nobody
        BY <2>2, <2>3, <3>2
      <4> QED BY <2>1, <2>2, <3>2, <4>1 DEF Slots
    <3> QED BY <3>1, <3>2
  <2>5. parent'[initproc] = Nobody /\ \A c \in Slots : parent'[c] # c
    BY <2>1, <2>2
  <2> QED BY <2>1, <2>2, <2>3, <2>4, <2>5, <1>11
<1>12. ASSUME NEW p \in Slots, CloneRun(p) PROVE EmbryoOwned'
  BY <1>12 DEF CloneRun
<1>13. ASSUME NEW p \in Slots, Exec(p) PROVE EmbryoOwned'
  BY <1>13 DEF Exec
<1>14. ASSUME NEW p \in Slots, Exit(p) PROVE EmbryoOwned'
  <2>1. p # initproc /\ pc[p] \in {"exit", "user"} /\ state[p] = "RUNNING"
    BY <1>14 DEF Exit
  <2>2. /\ pc' = [pc EXCEPT ![p] = "user"] /\ np' = np
        /\ parent' = [s \in Slots |-> IF parent[s] = p THEN initproc ELSE parent[s]]
    BY <1>14 DEF Exit, Adopted
  <2>3. \A s \in Slots : /\ state[s] = "EMBRYO" => state'[s] = "EMBRYO"
                         /\ s # p /\ state[s] \in Alive => state'[s] \in Alive
    BY <2>1, <1>14 DEF Exit, Woken
  <2>4. \A q \in Slots : pc'[q] # "user" => q # p /\ pc'[q] = pc[q]
    BY <2>2
  <2>5. \A q \in Slots : pc'[q] \in {"fork_run", "clone_run"} => parent'[np'[q]] # Nobody
    BY <2>2, <2>4
  <2>6. parent'[initproc] = Nobody /\ \A c \in Slots : parent'[c] # c
    BY <2>1, <2>2 DEF Slots
  <2> QED BY <2>2, <2>3, <2>4, <2>5, <2>6
<1>15. ASSUME NEW p \in Slots, CollectStep(p) PROVE EmbryoOwned'
  <2>1. ASSUME NEW c \in Slots, state[c] = "ZOMBIE", parent[c] = p, Reap(c), Goto(p, "user")
        PROVE  EmbryoOwned'
    <3>1. /\ \A q \in Slots : pc'[q] # "user" => pc'[q] = pc[q] /\ q # c
          /\ np' = np
      BY <1>15, <2>1 DEF CollectStep
    <3>2. \A q \in Slots : q # c => state'[q] = state[q] /\ parent'[q] = parent[q]
      BY <2>1 DEF Reap
    <3>3. parent'[initproc] = Nobody /\ \A s \in Slots : parent'[s] # s
      BY <2>1 DEF Reap, Slots
    <3> QED BY <2>1, <3>1, <3>2, <3>3
  <2>2. CASE UNCHANGED <<state, parent>> /\ Goto(p, "user")
    BY <1>15, <2>2 DEF CollectStep
  <2>3. CASE SleepOnSelf(p)
    BY <1>15, <2>3 DEF CollectStep, SleepOnSelf
  <2> QED BY <1>15, <2>1, <2>2, <2>3 DEF CollectStep
<1>16. ASSUME NEW p \in Slots, NEW k \in KillPids, Kill(p, k) PROVE EmbryoOwned'
  BY <1>16 DEF Kill, Roused, First
<1>17. ASSUME NEW p \in Slots, SleepIO(p) PROVE EmbryoOwned'
  BY <1>17 DEF SleepIO
<1>18. ASSUME NEW p \in Slots, ReturnIO(p) PROVE EmbryoOwned'
  BY <1>18 DEF ReturnIO
<1>19. CASE UNCHANGED vars
  BY <1>19 DEF vars
<1> QED
  BY Collecting,
     <1>1, <1>2, <1>3, <1>4, <1>5, <1>6, <1>7, <1>8, <1>9, <1>10,
     <1>11, <1>12, <1>13, <1>14, <1>15, <1>16, <1>17, <1>18, <1>19
     DEF Next, KernelStep

(* exit() hands the children over before it becomes a zombie. *)
LEMMA FamilyStep == TypeOK /\ EmbryoOwned /\ FamilyTree /\ [Next]_vars => FamilyTree'
<1> SUFFICES ASSUME TypeOK, EmbryoOwned, FamilyTree, [Next]_vars PROVE FamilyTree'
  OBVIOUS
<1> USE InitSlot DEF TypeOK, FamilyTree, EmbryoOwned, Filling, Alive, States, At, Goto,
        initproc, Nobody
<1>1. CASE WakeupIO
  BY <1>1 DEF WakeupIO, Woken
<1>2. ASSUME NEW p \in Slots, Dispatch(p) PROVE FamilyTree'
  BY <1>2 DEF Dispatch
<1>3. ASSUME NEW p \in Slots, Yield(p) PROVE FamilyTree'
  BY <1>3 DEF Yield
<1>4. ASSUME NEW p \in Slots, NEW c \in Calls, Syscall(p, c) PROVE FamilyTree'
  BY <1>4 DEF Syscall, Calls
<1>5. ASSUME NEW p \in Slots, ForkAlloc(p) PROVE FamilyTree'
  BY <1>5 DEF ForkAlloc, allocproc, FreeSlots, First
<1>6. ASSUME NEW p \in Slots, CloneAlloc(p) PROVE FamilyTree'
  BY <1>6 DEF CloneAlloc, allocproc, FreeSlots, First
<1>7. ASSUME NEW p \in Slots, AllocFail(p) PROVE FamilyTree'
  BY <1>7 DEF AllocFail
<1>8. ASSUME NEW p \in Slots, ForkCopy(p) PROVE FamilyTree'
  BY <1>8 DEF ForkCopy
<1>9. ASSUME NEW p \in Slots, ForkRun(p) PROVE FamilyTree'
  BY <1>9 DEF ForkRun
<1>10. ASSUME NEW p \in Slots, ForkReset(p) PROVE FamilyTree'
  BY <1>10 DEF ForkReset
<1>11. ASSUME NEW p \in Slots, CloneSet(p) PROVE FamilyTree'
  BY <1>11 DEF CloneSet
<1>12. ASSUME NEW p \in Slots, CloneRun(p) PROVE FamilyTree'
  BY <1>12 DEF CloneRun
<1>13. ASSUME NEW p \in Slots, Exec(p) PROVE FamilyTree'
  BY <1>13 DEF Exec
<1>14. ASSUME NEW p \in Slots, Exit(p) PROVE FamilyTree'
  BY <1>14 DEF Exit, Woken, Adopted
<1>15. ASSUME NEW p \in Slots, CollectStep(p) PROVE FamilyTree'
  BY <1>15 DEF CollectStep, Reap, SleepOnSelf
<1>16. ASSUME NEW p \in Slots, NEW k \in KillPids, Kill(p, k) PROVE FamilyTree'
  BY <1>16 DEF Kill, Roused, First
<1>17. ASSUME NEW p \in Slots, SleepIO(p) PROVE FamilyTree'
  BY <1>17 DEF SleepIO
<1>18. ASSUME NEW p \in Slots, ReturnIO(p) PROVE FamilyTree'
  BY <1>18 DEF ReturnIO
<1>19. CASE UNCHANGED vars
  BY <1>19 DEF vars
<1> QED
  BY Collecting,
     <1>1, <1>2, <1>3, <1>4, <1>5, <1>6, <1>7, <1>8, <1>9, <1>10,
     <1>11, <1>12, <1>13, <1>14, <1>15, <1>16, <1>17, <1>18, <1>19
     DEF Next, KernelStep

(* exit() wakes whoever must collect the zombies it leaves behind. *)
LEMMA LostStep == TypeOK /\ FamilyTree /\ EmbryoOwned /\ NoLostExit /\ [Next]_vars => NoLostExit'
<1> SUFFICES ASSUME TypeOK, FamilyTree, EmbryoOwned, NoLostExit, [Next]_vars PROVE NoLostExit'
  OBVIOUS
<1> USE InitSlot DEF TypeOK, FamilyTree, EmbryoOwned, NoLostExit, Filling, Alive, States, At, Goto,
        initproc, Nobody, Zombies, Kids, Threads, Children
<1>1. CASE WakeupIO
  BY <1>1 DEF WakeupIO, Woken
<1>2. ASSUME NEW p \in Slots, Dispatch(p) PROVE NoLostExit'
  BY <1>2 DEF Dispatch
<1>3. ASSUME NEW p \in Slots, Yield(p) PROVE NoLostExit'
  BY <1>3 DEF Yield
<1>4. ASSUME NEW p \in Slots, NEW c \in Calls, Syscall(p, c) PROVE NoLostExit'
  BY <1>4 DEF Syscall, Calls
<1>5. ASSUME NEW p \in Slots, ForkAlloc(p) PROVE NoLostExit'
  BY <1>5 DEF ForkAlloc, allocproc, FreeSlots, First
<1>6. ASSUME NEW p \in Slots, CloneAlloc(p) PROVE NoLostExit'
  BY <1>6 DEF CloneAlloc, allocproc, FreeSlots, First
<1>7. ASSUME NEW p \in Slots, AllocFail(p) PROVE NoLostExit'
  BY <1>7 DEF AllocFail
<1>8. ASSUME NEW p \in Slots, ForkCopy(p) PROVE NoLostExit'
  BY <1>8 DEF ForkCopy
<1>9. ASSUME NEW p \in Slots, ForkRun(p) PROVE NoLostExit'
  BY <1>9 DEF ForkRun
<1>10. ASSUME NEW p \in Slots, ForkReset(p) PROVE NoLostExit'
  BY <1>10 DEF ForkReset
<1>11. ASSUME NEW p \in Slots, CloneSet(p) PROVE NoLostExit'
  BY <1>11 DEF CloneSet
<1>12. ASSUME NEW p \in Slots, CloneRun(p) PROVE NoLostExit'
  BY <1>12 DEF CloneRun
<1>13. ASSUME NEW p \in Slots, Exec(p) PROVE NoLostExit'
  BY <1>13 DEF Exec
<1>14. ASSUME NEW p \in Slots, Exit(p) PROVE NoLostExit'
  BY <1>14 DEF Exit, Woken, Adopted, Awaiters
<1>15. ASSUME NEW p \in Slots, CollectStep(p) PROVE NoLostExit'
  <2>1. ASSUME NEW c \in Slots, state[c] = "ZOMBIE", parent[c] = p, Reap(c), Goto(p, "user"),
               chan' = [chan EXCEPT ![p] = Nobody]
        PROVE  NoLostExit'
    <3> SUFFICES ASSUME NEW q \in Slots, state'[q] = "SLEEPING", chan'[q] = q, NEW z \in Slots,
                        state'[z] = "ZOMBIE", parent'[z] = q
                 PROVE  IF pc'[q] = "wait" THEN pgdir'[z] = pgdir'[q] ELSE pgdir'[z] # pgdir'[q]
      OBVIOUS
    <3>1. q # p /\ z # c /\ state[q] = "SLEEPING" /\ chan[q] = q
      BY <1>15, <2>1 DEF CollectStep, Reap
    <3>2. state[z] = "ZOMBIE" /\ parent[z] = q /\ pc'[q] = pc[q] /\ pgdir' = pgdir
      BY <1>15, <2>1, <3>1 DEF CollectStep, Reap
    <3> QED BY <3>1, <3>2
  <2>2. CASE UNCHANGED <<state, parent>> /\ Goto(p, "user") /\ chan' = [chan EXCEPT ![p] = Nobody]
    <3>1. pgdir' = pgdir /\ state[p] = "RUNNING"
      BY <1>15 DEF CollectStep
    <3>2. \A q \in Slots : q # p => pc'[q] = pc[q] /\ chan'[q] = chan[q]
      BY <2>2
    <3> QED BY <2>2, <3>1, <3>2
  <2>3. CASE SleepOnSelf(p) /\ Zombies(IF pc[p] = "wait" THEN Kids(p) ELSE Threads(p)) = {}
    BY <1>15, <2>3 DEF CollectStep, SleepOnSelf
  <2> QED BY <1>15, <2>1, <2>2, <2>3 DEF CollectStep
<1>16. ASSUME NEW p \in Slots, NEW k \in KillPids, Kill(p, k) PROVE NoLostExit'
  BY <1>16 DEF Kill, Roused, First
<1>17. ASSUME NEW p \in Slots, SleepIO(p) PROVE NoLostExit'
  <2>1. IO # p
    BY ProcTableAssumption DEF IO, Slots, ProcTableAssumption
  <2> QED BY <1>17, <2>1 DEF SleepIO
<1>18. ASSUME NEW p \in Slots, ReturnIO(p) PROVE NoLostExit'
  BY <1>18 DEF ReturnIO
<1>19. CASE UNCHANGED vars
  BY <1>19 DEF vars
<1> QED
  BY Collecting,
     <1>1, <1>2, <1>3, <1>4, <1>5, <1>6, <1>7, <1>8, <1>9, <1>10,
     <1>11, <1>12, <1>13, <1>14, <1>15, <1>16, <1>17, <1>18, <1>19
     DEF Next, KernelStep

(* A child is younger than its parent, and init is the oldest, so that the *)
(* parents of a process are not its descendants; a slot that is not in use *)
(* has no parent.                                                          *)
DescentInv ==
  /\ pid[initproc] = 1
  /\ \A s \in Slots : /\ state[s] # "UNUSED" => pid[s] # 0
                      /\ state[s] = "UNUSED" => parent[s] = Nobody
  /\ \A p \in Slots : pc[p] \in {"fork_copy", "clone_set"} => parent[np[p]] = Nobody
  /\ \A p \in Slots : pc[p] \in Filling => pid[p] < pid[np[p]]
  /\ \A c \in Slots : parent[c] # Nobody => pid[parent[c]] < pid[c]

(* allocproc() hands out greater and greater pids, and exit() hands        *)
(* children to the oldest process.                                         *)
LEMMA DescentStep ==
  TypeOK /\ PidUnique /\ EmbryoOwned /\ FamilyTree /\ DescentInv /\ [Next]_vars
    => DescentInv'
<1> SUFFICES ASSUME TypeOK, PidUnique, EmbryoOwned, FamilyTree, DescentInv, [Next]_vars PROVE DescentInv'
  OBVIOUS
<1> USE InitSlot DEF TypeOK, PidUnique, EmbryoOwned, FamilyTree, DescentInv, Filling, Alive,
        States, At, Goto, initproc, Nobody
<1>1. CASE WakeupIO
  BY <1>1 DEF WakeupIO, Woken
<1>2. ASSUME NEW p \in Slots, Dispatch(p) PROVE DescentInv'
  BY <1>2 DEF Dispatch
<1>3. ASSUME NEW p \in Slots, Yield(p) PROVE DescentInv'
  BY <1>3 DEF Yield
<1>4. ASSUME NEW p \in Slots, NEW c \in Calls, Syscall(p, c) PROVE DescentInv'
  BY <1>4 DEF Syscall, Calls
<1>5. ASSUME NEW p \in Slots, ForkAlloc(p) PROVE DescentInv'
  BY <1>5, SMTT(30) DEF ForkAlloc, allocproc, FreeSlots, First, PidAfter
<1>6. ASSUME NEW p \in Slots, CloneAlloc(p) PROVE DescentInv'
  BY <1>6, SMTT(30) DEF CloneAlloc, allocproc, FreeSlots, First, PidAfter
<1>7. ASSUME NEW p \in Slots, AllocFail(p) PROVE DescentInv'
  BY <1>7 DEF AllocFail
<1>8. ASSUME NEW p \in Slots, ForkCopy(p) PROVE DescentInv'
  BY <1>8 DEF ForkCopy
<1>9. ASSUME NEW p \in Slots, ForkRun(p) PROVE DescentInv'
  BY <1>9 DEF ForkRun
<1>10. ASSUME NEW p \in Slots, ForkReset(p) PROVE DescentInv'
  BY <1>10 DEF ForkReset
<1>11. ASSUME NEW p \in Slots, CloneSet(p) PROVE DescentInv'
  BY <1>11 DEF CloneSet
<1>12. ASSUME NEW p \in Slots, CloneRun(p) PROVE DescentInv'
  BY <1>12 DEF CloneRun
<1>13. ASSUME NEW p \in Slots, Exec(p) PROVE DescentInv'
  BY <1>13 DEF Exec
<1>14. ASSUME NEW p \in Slots, Exit(p) PROVE DescentInv'
  <2>1. /\ p # initproc /\ state[p] = "RUNNING" /\ pc' = [pc EXCEPT ![p] = "user"]
        /\ pid' = pid /\ np' = np
        /\ parent' = [s \in Slots |-> IF parent[s] = p THEN initproc ELSE parent[s]]
    BY <1>14 DEF Exit, Adopted
  <2>2. \A s \in Slots : state'[s] = "UNUSED" <=> state[s] = "UNUSED"
    BY <2>1, <1>14 DEF Exit, Woken
  <2>3. \A q \in Slots : pc'[q] # "user" => pc'[q] = pc[q]
    BY <2>1
  <2>4. 1 < pid[p]
    BY <2>1
  <2>5. \A c \in Slots : parent'[c] # Nobody => pid'[parent'[c]] < pid'[c]
    <3> SUFFICES ASSUME NEW c \in Slots, parent'[c] # Nobody PROVE pid[parent'[c]] < pid[c]
      BY <2>1
    <3>1. CASE parent[c] = p
      <4>1. pid[p] < pid[c] /\ parent'[c] = initproc /\ pid[c] \in Nat /\ pid[p] \in Nat
        BY <2>1, <3>1 DEF Slots
      <4> QED BY <2>4, <4>1
    <3>2. CASE parent[c] # p
      BY <2>1, <3>2
    <3> QED BY <3>1, <3>2
  <2>6. \A s \in Slots : parent[s] = Nobody => parent'[s] = Nobody
    BY <2>1 DEF Slots
  <2>7. \A q \in Slots : pc'[q] \in {"fork_copy", "clone_set"} => parent'[np'[q]] = Nobody
    BY <2>1, <2>3, <2>6
  <2>8. \A q \in Slots : pc'[q] \in Filling => pid'[q] < pid'[np'[q]]
    BY <2>1, <2>3
  <2> QED BY <2>1, <2>2, <2>5, <2>6, <2>7, <2>8
<1>15. ASSUME NEW p \in Slots, CollectStep(p) PROVE DescentInv'
  BY <1>15, SMTT(30) DEF CollectStep, Reap, SleepOnSelf
<1>16. ASSUME NEW p \in Slots, NEW k \in KillPids, Kill(p, k) PROVE DescentInv'
  BY <1>16 DEF Kill, Roused, First
<1>17. ASSUME NEW p \in Slots, SleepIO(p) PROVE DescentInv'
  BY <1>17 DEF SleepIO
<1>18. ASSUME NEW p \in Slots, ReturnIO(p) PROVE DescentInv'
  BY <1>18 DEF ReturnIO
<1>19. CASE UNCHANGED vars
  BY <1>19 DEF vars
<1> QED
  BY Collecting,
     <1>1, <1>2, <1>3, <1>4, <1>5, <1>6, <1>7, <1>8, <1>9, <1>10,
     <1>11, <1>12, <1>13, <1>14, <1>15, <1>16, <1>17, <1>18, <1>19
     DEF Next, KernelStep

(* Who sleeps in wait() or join() has a child to wait for; a device ends   *)
(* any other sleep.                                                        *)
SleepInv ==
  \A p \in Slots : state[p] = "SLEEPING" =>
    chan[p] = IO \/ (chan[p] = p /\ \E c \in Children(p) : state[c] # "ZOMBIE")

(* exit() wakes the parent of the last child that is no zombie.            *)
LEMMA SleepStep ==
  TypeOK /\ EmbryoOwned /\ FamilyTree /\ DescentInv /\ SleepInv /\ [Next]_vars
    => SleepInv'
<1> SUFFICES ASSUME TypeOK, EmbryoOwned, FamilyTree, DescentInv, SleepInv, [Next]_vars PROVE SleepInv'
  OBVIOUS
<1> USE InitSlot DEF TypeOK, EmbryoOwned, FamilyTree, DescentInv, SleepInv, Children, Filling,
        Alive, States, At, Goto, initproc, Nobody
<1>1. CASE WakeupIO
  BY <1>1 DEF WakeupIO, Woken
<1>2. ASSUME NEW p \in Slots, Dispatch(p) PROVE SleepInv'
  BY <1>2 DEF Dispatch
<1>3. ASSUME NEW p \in Slots, Yield(p) PROVE SleepInv'
  BY <1>3 DEF Yield
<1>4. ASSUME NEW p \in Slots, NEW c \in Calls, Syscall(p, c) PROVE SleepInv'
  BY <1>4 DEF Syscall, Calls
<1>5. ASSUME NEW p \in Slots, ForkAlloc(p) PROVE SleepInv'
  BY <1>5 DEF ForkAlloc, allocproc, FreeSlots, First, PidAfter
<1>6. ASSUME NEW p \in Slots, CloneAlloc(p) PROVE SleepInv'
  BY <1>6 DEF CloneAlloc, allocproc, FreeSlots, First, PidAfter
<1>7. ASSUME NEW p \in Slots, AllocFail(p) PROVE SleepInv'
  BY <1>7 DEF AllocFail
<1>8. ASSUME NEW p \in Slots, ForkCopy(p) PROVE SleepInv'
  BY <1>8 DEF ForkCopy
<1>9. ASSUME NEW p \in Slots, ForkRun(p) PROVE SleepInv'
  BY <1>9 DEF ForkRun
<1>10. ASSUME NEW p \in Slots, ForkReset(p) PROVE SleepInv'
  BY <1>10 DEF ForkReset
<1>11. ASSUME NEW p \in Slots, CloneSet(p) PROVE SleepInv'
  BY <1>11 DEF CloneSet
<1>12. ASSUME NEW p \in Slots, CloneRun(p) PROVE SleepInv'
  BY <1>12 DEF CloneRun
<1>13. ASSUME NEW p \in Slots, Exec(p) PROVE SleepInv'
  BY <1>13 DEF Exec
<1>14. ASSUME NEW p \in Slots, Exit(p) PROVE SleepInv'
  <2> SUFFICES ASSUME NEW q \in Slots, state'[q] = "SLEEPING", chan[q] # IO
               PROVE  chan[q] = q /\ \E c \in Slots : parent'[c] = q /\ state'[c] # "ZOMBIE"
    BY <1>14 DEF Exit
  <2>1. state[q] = "SLEEPING" /\ q # p /\ chan[q] \notin Awaiters(p)
    BY <1>14 DEF Exit, Woken
  <2>2. PICK z \in Slots : chan[q] = q /\ parent[z] = q /\ state[z] # "ZOMBIE"
    BY <2>1
  <2>3. z # p
    BY <2>1, <2>2 DEF Awaiters
  <2>4. parent'[z] = q
    BY <1>14, <2>1, <2>2 DEF Exit, Adopted
  <2>5. state'[z] # "ZOMBIE"
    BY <1>14, <2>2, <2>3 DEF Exit, Woken
  <2> QED BY <2>2, <2>4, <2>5
<1>15. ASSUME NEW p \in Slots, CollectStep(p) PROVE SleepInv'
  BY <1>15 DEF CollectStep, Reap, SleepOnSelf
<1>16. ASSUME NEW p \in Slots, NEW k \in KillPids, Kill(p, k) PROVE SleepInv'
  BY <1>16 DEF Kill, Roused, First
<1>17. ASSUME NEW p \in Slots, SleepIO(p) PROVE SleepInv'
  BY <1>17 DEF SleepIO
<1>18. ASSUME NEW p \in Slots, ReturnIO(p) PROVE SleepInv'
  BY <1>18 DEF ReturnIO
<1>19. CASE UNCHANGED vars
  BY <1>19 DEF vars
<1> QED
  BY Collecting,
     <1>1, <1>2, <1>3, <1>4, <1>5, <1>6, <1>7, <1>8, <1>9, <1>10,
     <1>11, <1>12, <1>13, <1>14, <1>15, <1>16, <1>17, <1>18, <1>19
     DEF Next, KernelStep

(* Who shares an address space, as long as the programs are disciplined and *)
(* nobody is killed: a thread has its creator's, and nobody else does; a   *)
(* thread has no threads, and a process that execs or is gone has none.    *)
Quiet == load.disciplined /\ "kill" \notin load.calls
Placed == {s \in Slots : s = initproc \/ parent[s] # Nobody}
Threaded(s) == parent[s] # Nobody /\ pgdir[s] = pgdir[parent[s]]
Childless(s) == Threaded(s) \/ state[s] = "ZOMBIE" \/ pc[s] \in {"exec", "exit"}
SharingInv ==
  /\ \A s \in Slots : ~killed[s] /\ pc[s] # "kill"
  /\ \A s \in Placed : pgdir[s] \in spaces
  /\ \A s, t \in Placed : s # t /\ pgdir[s] = pgdir[t] =>
       parent[s] = t \/ parent[t] = s \/ (parent[s] = parent[t] /\ Threaded(s))
  /\ \A s \in Slots : Childless(s) => Threads(s) = {}
  /\ \A s \in Slots : pc[s] \in {"exec", "clone", "clone_set"} => ~Threaded(s)

(* Whoever is alive is init or has a parent. *)
LEMMA AlivePlaced ==
  FamilyTree => \A s \in Slots : state[s] \in Alive \cup {"ZOMBIE"} => s \in Placed
BY DEF FamilyTree, Placed

(* A step that leaves the families and their address spaces alone. *)
LEMMA SharingFrame ==
  ASSUME SharingInv, UNCHANGED <<parent, pgdir, spaces, killed>>,
         \A s \in Slots : state'[s] = "ZOMBIE" => state[s] = "ZOMBIE",
         \A s \in Slots : pc'[s] \in {"exec", "exit", "clone", "clone_set", "kill"} => pc'[s] = pc[s]
                             \/ (pc[s] = "clone" /\ pc'[s] = "clone_set")
  PROVE  SharingInv'
<1> USE DEF SharingInv
<1>1. Placed' = Placed /\ \A s \in Slots : Threads(s)' = Threads(s) /\ Threaded(s)' = Threaded(s)
  BY DEF Placed, Threads, Children, Threaded
<1>2. \A s \in Slots : Childless(s)' => Childless(s)
  BY <1>1 DEF Childless
<1>3. \A s \in Slots : pc'[s] \in {"exec", "clone", "clone_set"} => ~Threaded(s)'
  BY <1>1
<1>4. \A s \in Slots : Childless(s)' => Threads(s)' = {}
  BY <1>1, <1>2
<1>5. \A s \in Slots : ~killed'[s] /\ pc'[s] # "kill"
  OBVIOUS
<1>6. \A s, t \in Placed' : s # t /\ pgdir'[s] = pgdir'[t] =>
        parent'[s] = t \/ parent'[t] = s \/ (parent'[s] = parent'[t] /\ Threaded(s)')
  BY <1>1 DEF Placed
<1> QED BY <1>1, <1>3, <1>4, <1>5, <1>6

(* Nobody is in the address space of a process without threads that is not *)
(* a thread itself.                                                        *)
LEMMA Alone ==
  ASSUME SharingInv, NEW p \in Placed, Threads(p) = {}, ~Threaded(p)
  PROVE  \A s \in Placed : s # p => pgdir[s] # pgdir[p]
<1> SUFFICES ASSUME NEW s \in Placed, s # p, pgdir[s] = pgdir[p] PROVE FALSE
  OBVIOUS
<1>1. s \in Slots /\ p \in Slots /\ s # Nobody
  BY DEF Placed, Slots, Nobody
<1>2. parent[s] = p \/ parent[p] = s \/ (parent[s] = parent[p] /\ Threaded(s))
  BY DEF SharingInv
<1>3. parent[s] # p
  BY <1>1 DEF Threads, Children
<1>4. parent[p] # s
  BY <1>1 DEF Threaded
<1>5. ~(parent[s] = parent[p] /\ Threaded(s))
  BY DEF Threaded
<1> QED BY <1>2, <1>3, <1>4, <1>5

(* Collecting a zombie takes it out of the family. *)
LEMMA Reaped ==
  ASSUME TypeOK, EmbryoOwned, FamilyTree, SharingInv, NEW p \in Slots, NEW c \in Slots,
         state[c] = "ZOMBIE", parent[c] = p, Reap(c), Goto(p, "user"), pgdir' = pgdir,
         \A s \in Placed : s # c => pgdir[s] \in spaces'
  PROVE  SharingInv'
<1>1. /\ parent' = [parent EXCEPT ![c] = Nobody] /\ state' = [state EXCEPT ![c] = "UNUSED"]
      /\ killed' = [killed EXCEPT ![c] = FALSE] /\ pc' = [pc EXCEPT ![p] = "user"]
  BY DEF Reap, ClearKilled, Goto
<1>2. c # initproc /\ \A s \in Slots : parent[s] # c
  BY InitSlot DEF FamilyTree, Alive, initproc, Slots, Nobody
<1>3. Placed' = Placed \ {c} /\ \A s \in Placed' : parent'[s] = parent[s] /\ s \in Slots
  BY <1>1, <1>2 DEF TypeOK, Placed
<1>4. \A s \in Slots : (Threaded(s)' => Threaded(s)) /\ (s # c => (Threaded(s)' <=> Threaded(s)))
  BY <1>1 DEF TypeOK, Threaded
<1>5. \A s \in Slots : Threads(s)' \subseteq Threads(s)
  BY <1>1 DEF TypeOK, Threads, Children, Slots, Nobody
<1>6. \A s \in Slots : Childless(s)' => Childless(s)
  BY <1>1, <1>4 DEF TypeOK, Childless
<1>7. \A s \in Slots : Childless(s)' => Threads(s)' = {}
  BY <1>5, <1>6 DEF SharingInv
<1>8. \A s \in Placed' : pgdir'[s] \in spaces'
  BY <1>3
<1>9. \A s, t \in Placed' : s # t /\ pgdir'[s] = pgdir'[t] =>
        parent'[s] = t \/ parent'[t] = s \/ (parent'[s] = parent'[t] /\ Threaded(s)')
  BY <1>3, <1>4 DEF SharingInv
<1>10. \A s \in Slots : pc'[s] \in {"exec", "clone", "clone_set"} => ~Threaded(s)'
  BY <1>1, <1>4 DEF TypeOK, SharingInv
<1>11. \A s \in Slots : ~killed'[s] /\ pc'[s] # "kill"
  BY <1>1 DEF TypeOK, SharingInv
<1> QED BY <1>7, <1>8, <1>9, <1>10, <1>11 DEF SharingInv

(* clone() adds the creator's thread to an address space, fork() and       *)
(* exec() take a fresh one, and exit() hands over no threads.              *)
LEMMA SharingStep ==
  TypeOK /\ EmbryoOwned /\ FamilyTree /\ DescentInv /\ (Quiet => SharingInv) /\ [Next]_vars
    => (Quiet => SharingInv)'
<1> SUFFICES ASSUME TypeOK, EmbryoOwned, FamilyTree, DescentInv, SharingInv, [Next]_vars, Quiet
             PROVE  SharingInv'
  BY DEF Next, vars, Quiet
<1>0. /\ TypeOK /\ EmbryoOwned /\ FamilyTree /\ DescentInv /\ SharingInv /\ Quiet
  OBVIOUS
<1> USE DEF TypeOK, At, Goto, initproc, Nobody
<1>1. CASE WakeupIO
  BY <1>1, SharingFrame DEF WakeupIO, Woken
<1>2. ASSUME NEW p \in Slots, Dispatch(p) PROVE SharingInv'
  BY <1>2, SharingFrame DEF Dispatch
<1>3. ASSUME NEW p \in Slots, Yield(p) PROVE SharingInv'
  BY <1>3, SharingFrame DEF Yield
<1>4. ASSUME NEW p \in Slots, NEW c \in Calls, Syscall(p, c) PROVE SharingInv'
  <2> USE DEF SharingInv
  <2>1. /\ pc' = [pc EXCEPT ![p] = c] /\ c # "kill" /\ c # "clone_set"
        /\ UNCHANGED <<state, parent, pgdir, spaces, killed>>
    BY <1>0, <1>4 DEF Syscall, Quiet, Calls
  <2>2. Placed' = Placed /\ \A s \in Slots : Threads(s)' = Threads(s) /\ Threaded(s)' = Threaded(s)
    BY <2>1 DEF Placed, Threads, Children, Threaded
  <2>3. c \in {"exec", "exit"} => Threads(p) = {}
    BY <1>0, <1>4 DEF Syscall, Quiet, MayExec, MayLeave
  <2>4. c \in {"exec", "clone"} => ~Threaded(p)
    BY <1>0, <1>4 DEF Syscall, Quiet, MayExec, MayClone, Threads, Children, Threaded
  <2>5. \A s \in Slots : Childless(s)' => Threads(s)' = {}
    BY <1>0, <2>1, <2>2, <2>3 DEF Childless
  <2>6. \A s \in Slots : pc'[s] \in {"exec", "clone", "clone_set"} => ~Threaded(s)'
    BY <1>0, <2>1, <2>2, <2>4
  <2>7. \A s \in Slots : ~killed'[s] /\ pc'[s] # "kill"
    BY <1>0, <2>1
  <2>8. \A s, t \in Placed' : s # t /\ pgdir'[s] = pgdir'[t] =>
          parent'[s] = t \/ parent'[t] = s \/ (parent'[s] = parent'[t] /\ Threaded(s)')
    BY <1>0, <2>1, <2>2 DEF Placed
  <2> QED BY <1>0, <2>1, <2>2, <2>5, <2>6, <2>7, <2>8
<1>5. ASSUME NEW p \in Slots, ForkAlloc(p) PROVE SharingInv'
  BY <1>5, SharingFrame DEF ForkAlloc, allocproc, FreeSlots
<1>6. ASSUME NEW p \in Slots, CloneAlloc(p) PROVE SharingInv'
  BY <1>6, SharingFrame DEF CloneAlloc, allocproc, FreeSlots
<1>7. ASSUME NEW p \in Slots, AllocFail(p) PROVE SharingInv'
  BY <1>7, SharingFrame DEF AllocFail
<1>8. ASSUME NEW p \in Slots, ForkCopy(p) PROVE SharingInv'
  <2>1. PICK n \in Slots :
          /\ n = np[p] /\ state[n] = "EMBRYO" /\ n # p /\ n # initproc /\ parent[n] = Nobody
          /\ pc[n] = "user" /\ state[p] = "RUNNING" /\ \A c \in Slots : parent[c] # n
    BY <1>0, <1>8 DEF ForkCopy, EmbryoOwned, Filling, FamilyTree, DescentInv, Alive
  <2>2. PICK g \in PgDirs : /\ g \notin spaces /\ spaces' = spaces \cup {g}
                            /\ pgdir' = [pgdir EXCEPT ![n] = g]
    BY <1>8, <2>1 DEF ForkCopy, FreeDirs
  <2>3. /\ parent' = [parent EXCEPT ![n] = p] /\ pc' = [pc EXCEPT ![p] = "fork_run"]
        /\ UNCHANGED <<state, killed>>
    BY <1>8, <2>1 DEF ForkCopy
  <2>4. p \in Placed /\ n \notin Placed /\ Placed' = Placed \cup {n}
    BY <1>0, <2>1, <2>3, AlivePlaced, InitSlot DEF Placed, Alive, Slots
  <2>5. \A s \in Placed : pgdir'[s] = pgdir[s] /\ parent'[s] = parent[s] /\ pgdir[s] # g /\ s \in Slots
    BY <1>0, <2>1, <2>2, <2>3, <2>4 DEF SharingInv, Placed
  <2>6. \A s \in Slots : parent[s] # Nobody => s \in Placed /\ parent[s] \in Placed
    BY <1>0, AlivePlaced DEF FamilyTree, Placed
  <2>7. \A s \in Placed : s \in Slots /\ s # n
    BY <2>4 DEF Placed
  <2>8. \A s \in Slots : Threaded(s)' <=> Threaded(s)
    <3> SUFFICES ASSUME NEW s \in Slots PROVE Threaded(s)' <=> Threaded(s)
      OBVIOUS
    <3>1. CASE s = n
      BY <2>1, <2>2, <2>3, <2>4, <2>5, <3>1 DEF Threaded
    <3>2. CASE s # n
      BY <2>1, <2>2, <2>3, <2>5, <2>6, <3>2 DEF Threaded
    <3> QED BY <3>1, <3>2
  <2>9. \A s \in Slots : Threads(s)' \subseteq Threads(s)
    <3> SUFFICES ASSUME NEW s \in Slots, NEW c \in Slots, parent'[c] = s, pgdir'[c] = pgdir'[s]
                 PROVE  parent[c] = s /\ pgdir[c] = pgdir[s]
      BY DEF Threads, Children
    <3>1. c # n
      BY <2>1, <2>2, <2>3, <2>4, <2>5
    <3>2. parent[c] = s /\ s # Nobody
      BY <2>3, <3>1 DEF Slots
    <3> QED BY <2>5, <2>6, <3>2
  <2>10. \A s \in Slots : Childless(s)' => Childless(s)
    BY <2>3, <2>8 DEF Childless
  <2>11. \A s \in Slots : Childless(s)' => Threads(s)' = {}
    BY <1>0, <2>9, <2>10 DEF SharingInv
  <2>12. \A s \in Placed' : pgdir'[s] \in spaces'
    BY <1>0, <2>1, <2>2, <2>4, <2>5 DEF SharingInv
  <2>13. \A s, t \in Placed' : s # t /\ pgdir'[s] = pgdir'[t] =>
           parent'[s] = t \/ parent'[t] = s \/ (parent'[s] = parent'[t] /\ Threaded(s)')
    <3> SUFFICES ASSUME NEW s \in Placed', NEW t \in Placed', s # t, pgdir'[s] = pgdir'[t]
                 PROVE  parent'[s] = t \/ parent'[t] = s \/ (parent'[s] = parent'[t] /\ Threaded(s)')
      OBVIOUS
    <3>1. s \in Placed /\ t \in Placed
      BY <2>1, <2>2, <2>4, <2>5
    <3> QED BY <1>0, <2>5, <2>8, <3>1 DEF SharingInv
  <2>14. \A s \in Slots : pc'[s] \in {"exec", "clone", "clone_set"} => ~Threaded(s)'
    BY <1>0, <2>3, <2>8 DEF SharingInv
  <2>15. \A s \in Slots : ~killed'[s] /\ pc'[s] # "kill"
    BY <1>0, <2>3 DEF SharingInv
  <2> QED BY <2>11, <2>12, <2>13, <2>14, <2>15 DEF SharingInv
<1>9. ASSUME NEW p \in Slots, ForkRun(p) PROVE SharingInv'
  BY <1>9, SharingFrame DEF ForkRun
<1>10. ASSUME NEW p \in Slots, ForkReset(p) PROVE SharingInv'
  BY <1>10, SharingFrame DEF ForkReset
<1>11. ASSUME NEW p \in Slots, CloneSet(p) PROVE SharingInv'
  <2>1. PICK n \in Slots :
          /\ n = np[p] /\ state[n] = "EMBRYO" /\ n # p /\ n # initproc /\ parent[n] = Nobody
          /\ pc[n] = "user" /\ state[p] = "RUNNING" /\ \A c \in Slots : parent[c] # n
    BY <1>0, <1>11 DEF CloneSet, EmbryoOwned, Filling, FamilyTree, DescentInv, Alive
  <2>2. /\ pgdir' = [pgdir EXCEPT ![n] = pgdir[p]]
        /\ parent' = [parent EXCEPT ![n] = p]
        /\ pc' = [pc EXCEPT ![p] = "clone_run"] \/ pc' = [pc EXCEPT ![p] = "user"]
        /\ UNCHANGED <<state, killed, spaces>>
    BY <1>11, <2>1 DEF CloneSet
  <2>3. ~Threaded(p)
    BY <1>0, <1>11 DEF SharingInv, CloneSet
  <2>4. p \in Placed /\ n \notin Placed /\ Placed' = Placed \cup {n}
    BY <1>0, <2>1, <2>2, AlivePlaced, InitSlot DEF Placed, Alive, Slots
  <2>5. \A s \in Placed : pgdir'[s] = pgdir[s] /\ parent'[s] = parent[s] /\ s \in Slots
    BY <2>1, <2>2, <2>4 DEF Placed
  <2>6. \A s \in Slots : parent[s] # Nobody => s \in Placed /\ parent[s] \in Placed
    BY <1>0, AlivePlaced DEF FamilyTree, Placed
  <2>7. \A s \in Slots : s # n => (Threaded(s)' <=> Threaded(s))
    BY <2>1, <2>2, <2>5, <2>6 DEF Threaded
  <2>8. parent'[n] = p /\ pgdir'[n] = pgdir[p] /\ pgdir'[p] = pgdir[p] /\ Threaded(n)'
    <3>1. parent'[n] = p /\ pgdir'[n] = pgdir[p] /\ pgdir'[p] = pgdir[p] /\ p # Nobody
      BY <2>1, <2>2 DEF Slots
    <3> QED BY <3>1 DEF Threaded
  <2>9. \A s \in Slots : s # p => Threads(s)' \subseteq Threads(s)
    <3> SUFFICES ASSUME NEW s \in Slots, s # p, NEW c \in Slots, parent'[c] = s, pgdir'[c] = pgdir'[s]
                 PROVE  parent[c] = s /\ pgdir[c] = pgdir[s]
      BY DEF Threads, Children
    <3>1. c # n /\ parent[c] = s /\ s # Nobody
      BY <2>2, <2>8 DEF Slots
    <3> QED BY <2>5, <2>6, <3>1
  <2>10. Threads(n) = {}
    BY <2>1 DEF Threads, Children
  <2>11. ~Childless(p)'
    BY <2>1, <2>2, <2>3, <2>7 DEF Childless
  <2>12. \A s \in Slots : s # p /\ s # n /\ Childless(s)' => Childless(s)
    BY <2>2, <2>7 DEF Childless
  <2>13. \A s \in Slots : Childless(s)' => Threads(s)' = {}
    BY <1>0, <2>1, <2>9, <2>10, <2>11, <2>12 DEF SharingInv
  <2>14. \A s \in Placed' : pgdir'[s] \in spaces'
    BY <1>0, <2>2, <2>4, <2>5, <2>8 DEF SharingInv
  <2>15. \A s \in Placed : s # p /\ pgdir[s] = pgdir[p] => parent[s] = p
    BY <1>0, <2>3, <2>4 DEF SharingInv, Threaded, Placed, Slots
  <2>16. \A s, t \in Placed' : s # t /\ pgdir'[s] = pgdir'[t] =>
           parent'[s] = t \/ parent'[t] = s \/ (parent'[s] = parent'[t] /\ Threaded(s)')
    <3> SUFFICES ASSUME NEW s \in Placed', NEW t \in Placed', s # t, pgdir'[s] = pgdir'[t]
                 PROVE  parent'[s] = t \/ parent'[t] = s \/ (parent'[s] = parent'[t] /\ Threaded(s)')
      OBVIOUS
    <3>1. CASE s = n
      <4>1. t \in Placed /\ pgdir[t] = pgdir[p] /\ (t = p \/ parent[t] = p)
        BY <2>4, <2>5, <2>8, <2>15, <3>1
      <4>2. CASE t = p
        BY <2>8, <3>1, <4>2
      <4>3. CASE parent[t] = p
        BY <2>5, <2>8, <3>1, <4>1, <4>3 DEF Threaded
      <4> QED BY <4>1, <4>2, <4>3
    <3>2. CASE t = n /\ s # n
      <4>1. s \in Placed /\ pgdir[s] = pgdir[p]
        BY <2>4, <2>5, <2>8, <3>2
      <4>2. s = p \/ parent[s] = p
        BY <2>15, <4>1
      <4>3. CASE s = p
        BY <2>8, <3>2, <4>3
      <4>4. CASE s # p /\ parent[s] = p
        BY <2>5, <2>8, <3>2, <4>1, <4>4 DEF Threaded, Slots
      <4> QED BY <4>2, <4>3, <4>4
    <3>3. CASE s # n /\ t # n
      BY <1>0, <2>4, <2>5, <2>7, <3>3 DEF SharingInv
    <3> QED BY <3>1, <3>2, <3>3
  <2>17. \A s \in Slots : pc'[s] \in {"exec", "clone", "clone_set"} => ~Threaded(s)'
    BY <1>0, <2>1, <2>2, <2>7 DEF SharingInv
  <2>18. \A s \in Slots : ~killed'[s] /\ pc'[s] # "kill"
    BY <1>0, <2>2 DEF SharingInv
  <2> QED BY <2>13, <2>14, <2>16, <2>17, <2>18 DEF SharingInv
<1>12. ASSUME NEW p \in Slots, CloneRun(p) PROVE SharingInv'
  BY <1>12, SharingFrame DEF CloneRun
<1>13. ASSUME NEW p \in Slots, Exec(p) PROVE SharingInv'
  <2>1. /\ state[p] = "RUNNING" /\ pc[p] = "exec" /\ pc' = [pc EXCEPT ![p] = "user"]
        /\ UNCHANGED <<state, parent, killed>>
    BY <1>13 DEF Exec
  <2>2. CASE UNCHANGED <<pgdir, spaces>>
    BY <1>0, <2>1, <2>2, SharingFrame
  <2>3. ASSUME NEW g \in PgDirs, g \notin spaces, pgdir' = [pgdir EXCEPT ![p] = g],
               spaces' = (spaces \cup {g}) \ {pgdir[p]}
        PROVE  SharingInv'
    <3>1. p \in Placed /\ Threads(p) = {} /\ ~Threaded(p) /\ Placed' = Placed
      BY <1>0, <2>1, AlivePlaced DEF SharingInv, Childless, Placed, Alive
    <3>2. \A s \in Placed : s # p => pgdir[s] # pgdir[p]
      BY <1>0, <3>1, Alone
    <3>3. \A s \in Placed : pgdir[s] # g /\ pgdir[s] \in spaces /\ s \in Slots
      BY <1>0, <2>3 DEF SharingInv, Placed
    <3>4. \A s \in Slots : parent[s] # Nobody => s \in Placed /\ parent[s] \in Placed /\ parent[s] # s
      BY <1>0, AlivePlaced DEF FamilyTree, EmbryoOwned, Placed
    <3>5. \A s \in Slots : Threaded(s)' => Threaded(s)
      BY <2>1, <2>3, <3>3, <3>4 DEF Threaded
    <3>6. \A s \in Slots : Threaded(s) => Threaded(s)'
      <4> SUFFICES ASSUME NEW s \in Slots, Threaded(s) PROVE Threaded(s)'
        OBVIOUS
      <4>1. s # p /\ parent[s] # p
        BY <3>1, <3>2, <3>4 DEF Threaded
      <4> QED BY <2>1, <2>3, <3>4, <4>1 DEF Threaded
    <3>7. \A s \in Slots : Threads(s)' \subseteq Threads(s)
      BY <2>1, <3>5 DEF Threads, Children, Threaded, Slots
    <3>8. \A s \in Slots : Childless(s)' => Childless(s)
      BY <2>1, <3>5 DEF Childless
    <3>9. \A s \in Slots : Childless(s)' => Threads(s)' = {}
      BY <1>0, <3>7, <3>8 DEF SharingInv
    <3>10. \A s \in Placed' : pgdir'[s] \in spaces'
      BY <2>3, <3>1, <3>2, <3>3
    <3>11. \A s, t \in Placed' : s # t /\ pgdir'[s] = pgdir'[t] =>
             parent'[s] = t \/ parent'[t] = s \/ (parent'[s] = parent'[t] /\ Threaded(s)')
      <4> SUFFICES ASSUME NEW s \in Placed, NEW t \in Placed, s # t, pgdir'[s] = pgdir'[t]
                   PROVE  parent[s] = t \/ parent[t] = s \/ (parent[s] = parent[t] /\ Threaded(s))
        BY <2>1, <3>1, <3>3, <3>6
      <4>1. s # p /\ t # p
        BY <2>3, <3>3
      <4> QED BY <1>0, <2>3, <3>3, <4>1 DEF SharingInv
    <3>12. \A s \in Slots : pc'[s] \in {"exec", "clone", "clone_set"} => ~Threaded(s)'
      BY <1>0, <2>1, <3>5 DEF SharingInv
    <3>13. \A s \in Slots : ~killed'[s] /\ pc'[s] # "kill"
      BY <1>0, <2>1 DEF SharingInv
    <3> QED BY <3>9, <3>10, <3>11, <3>12, <3>13 DEF SharingInv
  <2> QED BY <1>13, <2>2, <2>3 DEF Exec, FreeDirs
<1>14. ASSUME NEW p \in Slots, Exit(p) PROVE SharingInv'
  <2>1. /\ p # initproc /\ state[p] = "RUNNING" /\ pc[p] = "exit"
        /\ pc' = [pc EXCEPT ![p] = "user"]
        /\ parent' = [s \in Slots |-> IF parent[s] = p THEN initproc ELSE parent[s]]
        /\ UNCHANGED <<pgdir, killed, spaces>>
    BY <1>0, <1>14 DEF Exit, Adopted, SharingInv
  <2>2. \A s \in Slots : state'[s] = "ZOMBIE" => s = p \/ state[s] = "ZOMBIE"
    BY <1>14 DEF Exit, Woken
  <2>3. Threads(p) = {}
    BY <1>0, <2>1 DEF SharingInv, Childless
  <2>4. \A s \in Slots : parent'[s] # Nobody <=> parent[s] # Nobody
    BY <2>1 DEF Slots
  <2>5. Placed' = Placed
    BY <2>4 DEF Placed
  <2>6. \A c \in Slots : parent[c] = p => pgdir[c] # pgdir[initproc]
    BY <1>0, <2>1, InitSlot DEF SharingInv, EmbryoOwned, Placed, Slots
  <2>7. \A s \in Slots : Threaded(s)' => Threaded(s)
    BY <2>1, <2>4, <2>6 DEF Threaded
  <2>8. \A s \in Slots : Threaded(s) => Threaded(s)' /\ parent[s] # p
    BY <2>1, <2>3 DEF Threaded, Threads, Children
  <2>9. \A s \in Slots : Threads(s)' \subseteq Threads(s)
    BY <2>1, <2>6 DEF Threads, Children
  <2>10. \A s \in Slots : Childless(s)' => s = p \/ Childless(s)
    BY <2>1, <2>2, <2>7 DEF Childless
  <2>11. \A s \in Slots : Childless(s)' => Threads(s)' = {}
    BY <1>0, <2>3, <2>9, <2>10 DEF SharingInv
  <2>12. \A s \in Placed' : pgdir'[s] \in spaces'
    BY <1>0, <2>1, <2>5 DEF SharingInv
  <2>13. \A s, t \in Placed' : s # t /\ pgdir'[s] = pgdir'[t] =>
           parent'[s] = t \/ parent'[t] = s \/ (parent'[s] = parent'[t] /\ Threaded(s)')
    <3> SUFFICES ASSUME NEW s \in Placed, NEW t \in Placed, s # t, pgdir[s] = pgdir[t]
                 PROVE  parent'[s] = t \/ parent'[t] = s \/ (parent'[s] = parent'[t] /\ Threaded(s)')
      BY <2>1, <2>5
    <3>1. s \in Slots /\ t \in Slots
      BY DEF Placed
    <3>2. parent[s] = t \/ parent[t] = s \/ (parent[s] = parent[t] /\ Threaded(s))
      BY <1>0 DEF SharingInv
    <3>3. CASE parent[s] = t
      BY <2>1, <2>3, <3>1, <3>3 DEF Threads, Children
    <3>4. CASE parent[t] = s
      BY <2>1, <2>3, <3>1, <3>4 DEF Threads, Children
    <3>5. CASE parent[s] = parent[t] /\ Threaded(s)
      BY <2>1, <2>8, <3>1, <3>5
    <3> QED BY <3>2, <3>3, <3>4, <3>5
  <2>14. \A s \in Slots : pc'[s] \in {"exec", "clone", "clone_set"} => ~Threaded(s)'
    BY <1>0, <2>1, <2>7 DEF SharingInv
  <2>15. \A s \in Slots : ~killed'[s] /\ pc'[s] # "kill"
    BY <1>0, <2>1 DEF SharingInv
  <2> QED BY <2>11, <2>12, <2>13, <2>14, <2>15 DEF SharingInv
<1>15. ASSUME NEW p \in Slots, Wait(p) PROVE SharingInv'
  <2>1. ASSUME NEW c \in Slots, state[c] = "ZOMBIE", parent[c] = p, pgdir[c] # pgdir[p], Reap(c),
               Goto(p, "user"), spaces' = IF LastReference(c) THEN spaces \ {pgdir[c]} ELSE spaces,
               pgdir' = pgdir
        PROVE  SharingInv'
    <3>1. c \in Placed /\ Threads(c) = {} /\ ~Threaded(c)
      BY <1>0, <2>1, AlivePlaced DEF SharingInv, Childless, Threaded
    <3>2. \A s \in Placed : s # c => pgdir[s] # pgdir[c]
      BY <1>0, <3>1, Alone
    <3>3. \A s \in Placed : s # c => pgdir[s] \in spaces'
      BY <1>0, <2>1, <3>2 DEF SharingInv
    <3> QED BY <1>0, <2>1, <3>3, Reaped
  <2>2. CASE pc' = [pc EXCEPT ![p] = "user"] /\ UNCHANGED <<state, parent, pgdir, killed, spaces>>
    BY <1>0, <2>2, SharingFrame
  <2>3. CASE state' = [state EXCEPT ![p] = "SLEEPING"] /\ UNCHANGED <<parent, pgdir, killed, spaces, pc>>
    BY <1>0, <2>3, SharingFrame
  <2> QED BY <1>15, <2>1, <2>2, <2>3 DEF Wait, Zombies, Kids, Children, SleepOnSelf
<1>16. ASSUME NEW p \in Slots, Join(p) PROVE SharingInv'
  <2>1. ASSUME NEW c \in Slots, state[c] = "ZOMBIE", parent[c] = p, Reap(c), Goto(p, "user"),
               UNCHANGED <<spaces, pgdir>>
        PROVE  SharingInv'
    <3>1. \A s \in Placed : s # c => pgdir[s] \in spaces'
      BY <1>0, <2>1 DEF SharingInv
    <3> QED BY <1>0, <2>1, <3>1, Reaped
  <2>2. CASE pc' = [pc EXCEPT ![p] = "user"] /\ UNCHANGED <<state, parent, pgdir, killed, spaces>>
    BY <1>0, <2>2, SharingFrame
  <2>3. CASE state' = [state EXCEPT ![p] = "SLEEPING"] /\ UNCHANGED <<parent, pgdir, killed, spaces, pc>>
    BY <1>0, <2>3, SharingFrame
  <2> QED BY <1>16, <2>1, <2>2, <2>3 DEF Join, Zombies, Threads, Children, SleepOnSelf
<1>17. ASSUME NEW p \in Slots, NEW k \in KillPids, Kill(p, k) PROVE SharingInv'
  BY <1>0, <1>17 DEF Kill, SharingInv
<1>18. ASSUME NEW p \in Slots, SleepIO(p) PROVE SharingInv'
  BY <1>18, SharingFrame DEF SleepIO
<1>19. ASSUME NEW p \in Slots, ReturnIO(p) PROVE SharingInv'
  BY <1>19, SharingFrame DEF ReturnIO
<1>20. CASE UNCHANGED vars
  BY <1>20, SharingFrame DEF vars
<1> QED
  BY <1>1, <1>2, <1>3, <1>4, <1>5, <1>6, <1>7, <1>8, <1>9, <1>10,
     <1>11, <1>12, <1>13, <1>14, <1>15, <1>16, <1>17, <1>18, <1>19, <1>20
     DEF Next, KernelStep

(* Of the sleepers of a set, one has the greatest pid. *)
LEMMA Youngest ==
  ASSUME TypeOK, PidUnique, NEW S \in SUBSET Slots, S # {}
  PROVE  \E s \in S : \A t \in S : pid[t] <= pid[s]
<1> DEFINE R == {ss \in Nat \X Nat : ss[1] < ss[2]}
           T == {nextpid - pid[s] : s \in S}
<1>1. \A s \in S : pid[s] \in Nat /\ nextpid \in Nat /\ pid[s] < nextpid
  BY DEF TypeOK, PidUnique
<1>2. T \subseteq Nat /\ T # {}
  BY <1>1
<1>3. IsWellFoundedOn(R, Nat)
  BY NatLessThanWellFounded DEF OpToRel
<1>4. PICK x \in T : \A y \in T : ~ (<<y, x>> \in R)
  <2> HIDE DEF R, T
  <2> QED BY <1>2, <1>3, WFMin
<1>5. PICK s \in S : x = nextpid - pid[s]
  OBVIOUS
<1>6. ASSUME NEW t \in S PROVE pid[t] <= pid[s]
  <2>1. nextpid - pid[t] \in T /\ nextpid - pid[t] \in Nat /\ x \in Nat
    BY <1>1, <1>5
  <2>2. ~ (nextpid - pid[t] < x)
    BY <1>4, <2>1
  <2> HIDE DEF R, T
  <2> QED BY <1>1, <1>5, <2>2
<1> QED BY <1>6

-----------------------------------------------------------------------------
(* The invariant behind the theorems: EmbryoOwned says which slot a fork() *)
(* or clone() may start, FamilyTree needs it for the children it adds, and *)
(* NoLostExit needs both to know whom an exit leaves its zombies to;       *)
(* DescentInv and SleepInv say for whom a sleeper waits, SharingInv who    *)
(* else is in an address space that wait() or exec() frees.                *)
ProcInv ==
  /\ TypeOK /\ PidUnique /\ EmbryoOwned /\ FamilyTree /\ NoLostExit
  /\ DescentInv /\ SleepInv /\ (Quiet => SharingInv)

(* Every reachable state of the process table satisfies ProcInv. *)
THEOREM Invariance == Spec => []ProcInv
<1>1. Init => ProcInv
  BY InitSlot DEF Init, ProcInv, TypeOK, PidUnique, EmbryoOwned, FamilyTree, NoLostExit,
     DescentInv, SleepInv, Quiet, SharingInv, Placed, Threaded, Childless, Threads, Children,
     Filling, Alive, States, PCs, initproc, Nobody, Slots
<1>2. ProcInv /\ [Next]_vars => ProcInv'
  BY TypeStep, PidStep, EmbryoStep, FamilyStep, LostStep, DescentStep, SleepStep, SharingStep
     DEF ProcInv
<1> QED BY <1>1, <1>2, PTL DEF Spec

(* exit() against wait(), join() and the adoption by init: nobody sleeps   *)
(* while there is a zombie for them to collect.                            *)
THEOREM NoLostExitCorrect == Spec => []NoLostExit
<1>1. ProcInv => NoLostExit
  BY DEF ProcInv
<1> QED BY <1>1, Invariance, PTL

(* wait(), join(), exit() and the failed clone(): when everybody sleeps,   *)
(* the youngest sleeper waits for a child that was never started.          *)
THEOREM StopsOnlyForEmbryoCorrect == Spec => []StopsOnlyForEmbryo
<1>1. ASSUME ProcInv, \A s \in Slots : state[s] \in Alive => state[s] = "SLEEPING" /\ chan[s] # IO
      PROVE  \E c \in Slots : state[c] = "EMBRYO" /\ parent[c] # Nobody
  <2> DEFINE S == {s \in Slots : state[s] \in Alive}
  <2>1. S # {} /\ S \in SUBSET Slots
    BY <1>1, InitSlot DEF ProcInv, FamilyTree, initproc
  <2>2. PICK p \in S : \A t \in S : pid[t] <= pid[p]
    <3> HIDE DEF S
    <3> QED BY <1>1, <2>1, Youngest DEF ProcInv
  <2>3. PICK c \in Slots : parent[c] = p /\ state[c] # "ZOMBIE"
    BY <1>1, <2>2 DEF ProcInv, SleepInv, Children
  <2>4. parent[c] # Nobody /\ p \in Slots
    BY <2>3 DEF Slots, Nobody
  <2>5. pid[p] < pid[c] /\ pid[p] \in Nat /\ pid[c] \in Nat /\ state[c] # "UNUSED"
    BY <1>1, <2>3, <2>4 DEF ProcInv, DescentInv, TypeOK
  <2>6. state[c] \notin Alive
    BY <2>2, <2>5
  <2> QED BY <1>1, <2>3, <2>4, <2>5, <2>6 DEF ProcInv, TypeOK, States, Alive
<1>2. ProcInv => StopsOnlyForEmbryo
  BY <1>1 DEF StopsOnlyForEmbryo
<1> QED BY <1>2, Invariance, PTL

(* Memory goes only in exec() and in wait(). *)
LEMMA Freeing ==
  ASSUME [Next]_vars, NEW g \in spaces \ spaces'
  PROVE  \E p \in Slots : Exec(p) \/ Wait(p)
<1>1. CASE UNCHANGED vars
  BY <1>1 DEF vars
<1>2. ASSUME NEW p \in Slots, ForkCopy(p) PROVE FALSE
  BY <1>2 DEF ForkCopy
<1>3. ASSUME NEW p \in Slots, ForkAlloc(p) \/ CloneAlloc(p) \/ CloneSet(p) \/ CloneRun(p) \/ ForkRun(p)
                              \/ ForkReset(p) \/ AllocFail(p) \/ Exit(p) \/ Join(p) PROVE FALSE
  BY <1>3 DEF ForkAlloc, CloneAlloc, CloneSet, CloneRun, ForkRun, ForkReset, AllocFail, Exit, Join
<1>4. ASSUME NEW p \in Slots, \/ Dispatch(p) \/ Yield(p) \/ SleepIO(p) \/ ReturnIO(p)
                              \/ \E c \in Calls : Syscall(p, c)
                              \/ \E k \in KillPids : Kill(p, k)
      PROVE FALSE
  BY <1>4 DEF Dispatch, Yield, SleepIO, ReturnIO, Syscall, Kill
<1>5. CASE WakeupIO
  BY <1>5 DEF WakeupIO
<1> QED BY <1>1, <1>2, <1>3, <1>4, <1>5 DEF Next, KernelStep

(* wait() frees an address space only when nobody is left in it, if the    *)
(* programs are disciplined and nobody is killed; so does exec().          *)
THEOREM FreedAtLastReferenceCorrect == Spec => FreedAtLastReference
<1>1. ASSUME ProcInv, [Next]_vars, Quiet, NEW g \in spaces \ spaces', NEW s \in Slots, state'[s] \in Alive
      PROVE  pgdir'[s] # g
  <2>0. TypeOK /\ FamilyTree /\ SharingInv
    BY <1>1 DEF ProcInv
  <2>1. PICK p \in Slots : Exec(p) \/ Wait(p)
    BY <1>1, Freeing
  <2>2. CASE Exec(p)
    <3>1. /\ state[p] = "RUNNING" /\ pc[p] = "exec" /\ UNCHANGED state
          /\ g = pgdir[p]
      BY <2>2 DEF Exec, At
    <3>2. PICK h \in PgDirs : h \notin spaces /\ pgdir' = [pgdir EXCEPT ![p] = h]
      BY <2>2 DEF Exec, FreeDirs
    <3>3. p \in Placed /\ s \in Placed /\ Threads(p) = {} /\ ~Threaded(p)
      BY <1>1, <2>0, <3>1, AlivePlaced DEF SharingInv, Childless, Alive
    <3> QED BY <2>0, <3>1, <3>2, <3>3, Alone DEF TypeOK
  <2>3. CASE Wait(p)
    <3>1. PICK c \in Slots : /\ state[c] = "ZOMBIE" /\ parent[c] = p /\ pgdir[c] # pgdir[p]
                             /\ Reap(c) /\ g = pgdir[c] /\ pgdir' = pgdir
      BY <2>3 DEF Wait, Zombies, Kids, Children
    <3>2. s # c /\ state'[s] = state[s]
      BY <1>1, <2>0, <3>1 DEF Reap, TypeOK, Alive
    <3>3. c \in Placed /\ s \in Placed /\ Threads(c) = {} /\ ~Threaded(c)
      BY <1>1, <2>0, <3>1, <3>2, AlivePlaced DEF SharingInv, Childless, Threaded
    <3> QED BY <2>0, <3>1, <3>2, <3>3, Alone
  <2> QED BY <2>1, <2>2, <2>3
<1>2. ProcInv /\ [Next]_vars =>
        [load.disciplined /\ "kill" \notin load.calls =>
           \A g \in spaces \ spaces' : \A s \in Slots : state'[s] \in Alive => pgdir'[s] # g]_vars
  BY <1>1 DEF Quiet
<1> QED BY <1>2, Invariance, PTL DEF Spec, FreedAtLastReference

(* exit() hands its children to init: nobody is orphaned. *)
THEOREM FamilyTreeCorrect == Spec => []FamilyTree
<1>1. ProcInv => FamilyTree
  BY DEF ProcInv
<1> QED BY <1>1, Invariance, PTL

(* allocproc() against wait(), join() and failed calls: pids name one slot. *)
THEOREM PidUniqueCorrect == Spec => []PidUnique
<1>1. ProcInv => PidUnique
  BY DEF ProcInv
<1> QED BY <1>1, Invariance, PTL

(* fork() and clone() on several CPUs never fill in the same slot. *)
THEOREM EmbryoOwnedCorrect == Spec => []EmbryoOwned
<1>1. ProcInv => EmbryoOwned
  BY DEF ProcInv
<1> QED BY <1>1, Invariance, PTL
=============================================================================
