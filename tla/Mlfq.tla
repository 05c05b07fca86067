--------------------------------- MODULE Mlfq ---------------------------------
(***************************************************************************)
(* The multi-level feedback queue of Project2-2/xv6/kernel/proc.c on the   *)
(* one CPU its Makefile configures.  scheduler() holds ptable.lock, and so *)
(* masks interrupts, from the end of one process's click to the start of   *)
(* the next; its local variables p, max_pri and cou outlive the click.     *)
(*                                                                         *)
(* Left out: ticks[0] and wait_ticks[Top], which nothing but getpinfo()      *)
(* reads; who is whose parent (any running process collects a zombie); the *)
(* allocproc() of a full table, which writes behind the table's end.       *)
(***************************************************************************)
EXTENDS Integers, FiniteSets, FiniteSetsExt

CONSTANTS NPROC,       \* number of slots
          Top,         \* the highest priority; 3 in the code
          clkPerPrio,  \* clicks per level; 1000, 32, 16, 8 in the code
          clkWait      \* clicks waited before a boost; 500, 320, 160, 0

Levels == 0..Top

MlfqAssumption ==
  /\ NPROC \in Nat \ {0}
  /\ Top \in Nat \ {0}
  /\ clkPerPrio \in [Levels -> Nat \ {0}]
  /\ clkWait \in [Levels -> Nat]
  /\ \A q \in 0..Top-1 : clkWait[q] > 0

ASSUME MlfqAssumption

Slots == 1..NPROC
initproc == 1

VARIABLES state, priority, ticks, wait_ticks,  \* struct proc
          at,                                  \* where scheduler() is
          p, max_pri, cou                      \* its local variables

table == <<state, priority, ticks, wait_ticks>>
locals == <<p, max_pri, cou>>
vars == <<table, at, locals>>

TypeOK ==
  /\ state \in [Slots -> {"UNUSED", "SLEEPING", "RUNNABLE", "RUNNING", "ZOMBIE"}]
  /\ priority \in [Slots -> Levels]
  /\ ticks \in [Slots -> [1..Top -> Nat]]
  /\ wait_ticks \in [Slots -> [0..Top-1 -> Nat]]
  /\ at \in {"select", "scan", "slice", "run", "back"}
  /\ p \in 1..NPROC+1 /\ max_pri \in Levels /\ cou \in Nat

NoTicks == [q \in 1..Top |-> 0]
NoWait == [q \in 0..Top-1 |-> 0]

(* userinit(); the slots that were never used have priority 0. *)
Init ==
  /\ state = [s \in Slots |-> IF s = initproc THEN "RUNNABLE" ELSE "UNUSED"]
  /\ priority = [s \in Slots |-> IF s = initproc THEN Top ELSE 0]
  /\ ticks = [s \in Slots |-> NoTicks]
  /\ wait_ticks = [s \in Slots |-> NoWait]
  /\ at = "select"
  /\ p = 1 /\ max_pri = 0 /\ cou = 0

Runnable == {s \in Slots : state[s] = "RUNNABLE"}

-----------------------------------------------------------------------------
(* The first loop: the highest priority of a runnable process, or 0. *)
Select ==
  /\ at = "select"
  /\ max_pri' = Max({0} \cup {priority[s] : s \in Runnable})
  /\ at' = "scan"
  /\ UNCHANGED <<table, p, cou>>

Chosen == p \in Runnable /\ priority[p] = max_pri

(* The second loop passes over a slot, or ends and releases ptable.lock. *)
Skip ==
  /\ at = "scan"
  /\ \/ p > NPROC /\ at' = "select" /\ p' = 1 /\ max_pri' = 0
     \/ p <= NPROC /\ ~Chosen /\ p' = p + 1 /\ UNCHANGED <<at, max_pri>>
  /\ UNCHANGED <<table, cou>>

Restart_Never(t, q) == t
Restart(t, q) == IF t[q] = clkPerPrio[q] THEN [t EXCEPT ![q] = 0] ELSE t

(* A chosen slot above level 0 goes on with the slice it has used in part. *)
BeginSlice ==
  /\ at = "scan" /\ p <= NPROC /\ Chosen
  /\ at' = "slice"
  /\ IF max_pri = 0 THEN UNCHANGED <<ticks, cou>>
     ELSE /\ ticks' = [ticks EXCEPT ![p] = Restart(@, max_pri)]
          /\ cou' = ticks'[p][max_pri]
  /\ UNCHANGED <<state, priority, wait_ticks, p, max_pri>>

(* What one click of slot p does to the others, and to p itself: whoever   *)
(* has waited long enough at its level, asleep or not, moves up.  (The     *)
(* code ages free slots and zombies, too; allocproc() resets them.)  A     *)
(* count is only compared with the limit: what is above it is not told     *)
(* apart.  The count of a level is reset when a process is boosted into it *)
(* and when it runs there, not when it moves down to it: a process boosted *)
(* once and moved down again is boosted by the next click.                 *)
WaitedFrom(s) == IF s = p THEN -1 ELSE wait_ticks[s][priority[s]]
Waited(s) == Min({WaitedFrom(s) + 1, clkWait[priority[s]]})
InUse == {s \in Slots : state[s] \notin {"UNUSED", "ZOMBIE"}}
Boosted == {s \in InUse : priority[s] < Top /\ Waited(s) >= clkWait[priority[s]]}

AgedPriority == [s \in Slots |-> IF s \in Boosted THEN priority[s] + 1 ELSE priority[s]]
AgedWait == [s \in Slots |-> [q \in 0..Top-1 |->
              IF s \in Boosted /\ q = priority[s] + 1 THEN 0
              ELSE IF s \in InUse /\ q = priority[s] THEN Waited(s)
              ELSE wait_ticks[s][q]]]

(* Above level 0 the clicks are counted in cou up to the limit of the      *)
(* level that p is on now; on level 0 a slot gets one click per scan.      *)
InSlice == p \in Runnable /\ (max_pri > 0 => cou < clkPerPrio[priority[p]])

Dispatch ==
  /\ at = "slice" /\ InSlice
  /\ priority' = AgedPriority
  /\ wait_ticks' = AgedWait
  /\ ticks' = IF priority'[p] = 0 THEN ticks
              ELSE [ticks EXCEPT ![p][priority'[p]] = @ + 1]
  /\ state' = [state EXCEPT ![p] = "RUNNING"]
  /\ at' = "run"
  /\ UNCHANGED locals

EndSlice ==
  /\ at = "slice" /\ ~InSlice
  /\ p' = p + 1 /\ cou' = 0
  /\ at' = "scan"
  /\ UNCHANGED <<table, max_pri>>

Spent(t, q) == q > 0 /\ t[q] >= clkPerPrio[q]

LowerTicks_Kept(t, q) == t
LowerTicks(t, q) == IF q = 1 THEN t ELSE [t EXCEPT ![q - 1] = 0]

(* After swtch() came back: a spent process moves down, in the same loop. *)
Back ==
  /\ at = "back"
  /\ LET q == priority[p]
     IN IF max_pri > 0 /\ Spent(ticks[p], q)
          THEN /\ priority' = [priority EXCEPT ![p] = q - 1]
               /\ ticks' = [ticks EXCEPT ![p] = LowerTicks(@, q)]
          ELSE UNCHANGED <<priority, ticks>>
  /\ IF max_pri > 0 THEN at' = "slice" /\ cou' = cou + 1 /\ UNCHANGED p
                    ELSE at' = "scan" /\ p' = p + 1 /\ UNCHANGED cou
  /\ UNCHANGED <<state, wait_ticks, max_pri>>

-----------------------------------------------------------------------------
(* The running process gives up the CPU with ptable.lock held. *)
Leave(s) ==
  /\ at = "run"
  /\ state' = [state EXCEPT ![p] = s]
  /\ at' = "back"
  /\ UNCHANGED <<priority, ticks, wait_ticks, locals>>

Yield == Leave("RUNNABLE")      \* the clock interrupt
Sleep == Leave("SLEEPING")
Exit == p # initproc /\ Leave("ZOMBIE")

(* fork(): the first unused slot, with the highest priority.  On one CPU   *)
(* nothing tells the embryo from the runnable child.                       *)
Fork(s) ==
  /\ at = "run"
  /\ state[s] = "UNUSED" /\ \A r \in Slots : state[r] = "UNUSED" => s <= r
  /\ state' = [state EXCEPT ![s] = "RUNNABLE"]
  /\ priority' = [priority EXCEPT ![s] = Top]
  /\ ticks' = [ticks EXCEPT ![s] = NoTicks]
  /\ wait_ticks' = [wait_ticks EXCEPT ![s] = NoWait]
  /\ UNCHANGED <<at, locals>>

Wait(s) ==
  /\ at = "run"
  /\ state[s] = "ZOMBIE"
  /\ state' = [state EXCEPT ![s] = "UNUSED"]
  /\ UNCHANGED <<priority, ticks, wait_ticks, at, locals>>

(* An interrupt or the running process wakes a sleeper; between two scans  *)
(* interrupts are enabled, too.                                            *)
Wakeup(s) ==
  /\ at \in {"select", "run"}
  /\ state[s] = "SLEEPING"
  /\ state' = [state EXCEPT ![s] = "RUNNABLE"]
  /\ UNCHANGED <<priority, ticks, wait_ticks, at, locals>>

SchedulerStep == Select \/ Skip \/ BeginSlice \/ Dispatch \/ EndSlice \/ Back

Next ==
  \/ SchedulerStep \/ Yield \/ Sleep \/ Exit
  \/ \E s \in Slots : Fork(s) \/ Wait(s) \/ Wakeup(s)

Spec == Init /\ [][Next]_vars

(* The CPU runs scheduler(), and the clock ends every click. *)
Fairness == WF_vars(SchedulerStep) /\ WF_vars(Yield)

FairSpec == Spec /\ Fairness

-----------------------------------------------------------------------------
(* The clicks used on a level never pass its limit: BeginSlice only starts *)
(* a slice over when they are equal to it, so that a process beyond the    *)
(* limit would be passed over from then on.                                *)
SliceBounded ==
  /\ TypeOK
  /\ \A s \in Slots : \A q \in 1..Top : ticks[s][q] <= clkPerPrio[q]

(* Nobody starves: a runnable process gets the CPU. *)
EventuallyRuns == \A s \in Slots : s \in Runnable ~> state[s] = "RUNNING"
=============================================================================
