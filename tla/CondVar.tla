------------------------------- MODULE CondVar -------------------------------
(***************************************************************************)
(* The condition variables of the thread library: cond_wait() and          *)
(* cond_signal() in Project4-2/kernel/proc.c, used with the spin lock of   *)
(* user/threadlib.c.  Every access to shared memory is a step, except that *)
(* what a CPU does between acquire(&ptable.lock) and the switch to its     *)
(* scheduler is cut only at the writes that cond_signal() can see, because *)
(* cond_signal() writes a thread's state without ptable.lock.              *)
(* Left out: kill() of a waiting thread, which makes it exit with the lock *)
(* once it has been taken.                                                 *)
(***************************************************************************)
EXTENDS Integers, FiniteSets

CONSTANTS Threads,   \* the threads that share the lock and the condition
          NCPU,      \* most CPUs that mp.c may find
          QSIZE,     \* length of thqueue; 8 in the code
          NoThread   \* the initial content of thqueue

CondVarAssumption ==
  /\ IsFiniteSet(Threads)
  /\ NCPU \in Nat \ {0}
  /\ QSIZE \in Nat \ {0}
  /\ Cardinality(Threads) <= QSIZE  \* bound: eight threads fill the ring
  /\ NoThread \notin Threads

ASSUME CondVarAssumption

Free == 0
Taken == 1

(* Where a thread is: outside and inside of the critical section, then the *)
(* points of cond_wait() and cond_signal() it is about to pass.            *)
WaitPCs == {"w_flag", "w_enqueue", "w_ptable", "w_unflag", "w_unlock",
            "w_sleep", "w_resume", "w_relock"}
PCs == WaitPCs \cup {"user", "critical", "s_flag", "s_wake", "s_dequeue"}

VARIABLES lock, flag,                   \* lock->flag and condvar->flag
          thqueue, head, tail, count,   \* the ring of waiting threads
          state,                        \* p->state of each thread
          oncpu,                        \* the threads a CPU is executing
          ptable,                       \* who holds ptable.lock
          ncpu,                         \* the CPUs of this machine
          pc

ring == <<thqueue, head, tail, count>>
vars == <<lock, flag, thqueue, head, tail, count, state, oncpu, ptable,
          ncpu, pc>>

TypeOK ==
  /\ lock \in {Free, Taken} /\ flag \in {Free, Taken}
  /\ thqueue \in [0..QSIZE-1 -> Threads \cup {NoThread}]
  /\ head \in 0..QSIZE-1 /\ tail \in 0..QSIZE-1 /\ count \in 0..QSIZE
  /\ state \in [Threads -> {"RUNNABLE", "RUNNING", "SLEEPING"}]
  /\ oncpu \subseteq Threads
  /\ ptable \in Threads \cup {NoThread}
  /\ ncpu \in 1..NCPU
  /\ pc \in [Threads -> PCs]

(* cond_init() and lock_init(). *)
Init ==
  /\ lock = Free /\ flag = Free
  /\ thqueue = [i \in 0..QSIZE-1 |-> NoThread]
  /\ head = 0 /\ tail = 0 /\ count = 0
  /\ state = [t \in Threads |-> "RUNNABLE"]
  /\ oncpu = {}
  /\ ptable = NoThread
  /\ ncpu \in 1..NCPU
  /\ pc = [t \in Threads |-> "user"]

At(t, label) == t \in oncpu /\ pc[t] = label
Goto(t, label) == pc' = [pc EXCEPT ![t] = label]

(* The positions of the ring that hold a waiting thread. *)
Waiting == {(head + i) % QSIZE : i \in 0..count-1}

-----------------------------------------------------------------------------
(* The program: take the lock, wait or signal while holding it, release.   *)
(* xchg() makes an acquisition one step; a thread that fails spins.        *)
LockAcquire(t) ==
  /\ At(t, "user") /\ lock = Free
  /\ lock' = Taken
  /\ Goto(t, "critical")
  /\ UNCHANGED <<flag, ring, state, oncpu, ptable, ncpu>>

LockRelease(t) ==
  /\ At(t, "critical")
  /\ lock' = Free
  /\ Goto(t, "user")
  /\ UNCHANGED <<flag, ring, state, oncpu, ptable, ncpu>>

(* A full ring panics the kernel, which then takes no step at all. *)
CallWait(t) ==
  /\ At(t, "critical") /\ count # QSIZE
  /\ Goto(t, "w_flag")
  /\ UNCHANGED <<lock, flag, ring, state, oncpu, ptable, ncpu>>

CallSignal(t) ==
  /\ At(t, "critical")
  /\ Goto(t, "s_flag")
  /\ UNCHANGED <<lock, flag, ring, state, oncpu, ptable, ncpu>>

-----------------------------------------------------------------------------
(* cond_wait() *)
WaitFlag(t) ==
  /\ At(t, "w_flag") /\ flag = Free
  /\ flag' = Taken
  /\ Goto(t, "w_enqueue")
  /\ UNCHANGED <<lock, ring, state, oncpu, ptable, ncpu>>

WaitEnqueue(t) ==
  /\ At(t, "w_enqueue")
  /\ thqueue' = [thqueue EXCEPT ![tail] = t]
  /\ tail' = (tail + 1) % QSIZE
  /\ count' = count + 1
  /\ Goto(t, "w_ptable")
  /\ UNCHANGED <<lock, flag, head, state, oncpu, ptable, ncpu>>

WaitPtable(t) ==
  /\ At(t, "w_ptable") /\ ptable = NoThread
  /\ ptable' = t
  /\ Goto(t, "w_unflag")
  /\ UNCHANGED <<lock, flag, ring, state, oncpu, ncpu>>

WaitUnflag(t) ==
  /\ At(t, "w_unflag")
  /\ flag' = Free
  /\ Goto(t, "w_unlock")
  /\ UNCHANGED <<lock, ring, state, oncpu, ptable, ncpu>>

WaitUnlock(t) ==
  /\ At(t, "w_unlock")
  /\ lock' = Free
  /\ Goto(t, "w_sleep")
  /\ UNCHANGED <<flag, ring, state, oncpu, ptable, ncpu>>

(* proc->state = SLEEPING and sched(); the CPU's scheduler() releases      *)
(* ptable.lock once it has switched away from the thread.                  *)
WaitSleep(t) ==
  /\ At(t, "w_sleep")
  /\ state' = [state EXCEPT ![t] = "SLEEPING"]
  /\ oncpu' = oncpu \ {t}
  /\ ptable' = NoThread
  /\ Goto(t, "w_resume")
  /\ UNCHANGED <<lock, flag, ring, ncpu>>

(* The release of ptable.lock after sched() is part of Dispatch. *)
WaitResume(t) ==
  /\ At(t, "w_resume")
  /\ Goto(t, "w_relock")
  /\ UNCHANGED <<lock, flag, ring, state, oncpu, ptable, ncpu>>

Relock_Never == TRUE
Relock == lock = Free

WaitRelock(t) ==
  /\ At(t, "w_relock") /\ Relock
  /\ lock' = Taken
  /\ Goto(t, "critical")
  /\ UNCHANGED <<flag, ring, state, oncpu, ptable, ncpu>>

-----------------------------------------------------------------------------
(* cond_signal() *)
SignalFlag(t) ==
  /\ At(t, "s_flag") /\ flag = Free
  /\ \/ count = 0 /\ UNCHANGED flag /\ Goto(t, "critical")
     \/ count # 0 /\ flag' = Taken /\ Goto(t, "s_wake")
  /\ UNCHANGED <<lock, ring, state, oncpu, ptable, ncpu>>

Awakened == thqueue[head]

(* Without ptable.lock, and whatever the thread's state is. *)
SignalWake(t) ==
  /\ At(t, "s_wake")
  /\ state' = [state EXCEPT ![Awakened] = "RUNNABLE"]
  /\ Goto(t, "s_dequeue")
  /\ UNCHANGED <<lock, flag, ring, oncpu, ptable, ncpu>>

NextHead_Stay(h) == h
NextHead_Two(h) == (h + 2) % QSIZE
NextHead(h) == (h + 1) % QSIZE

SignalDequeue(t) ==
  /\ At(t, "s_dequeue")
  /\ head' = NextHead(head)
  /\ count' = count - 1
  /\ flag' = Free
  /\ Goto(t, "critical")
  /\ UNCHANGED <<lock, thqueue, tail, state, oncpu, ptable, ncpu>>

-----------------------------------------------------------------------------
(* scheduler() takes a runnable thread, also one that is still on a CPU. *)
Dispatch(t) ==
  /\ state[t] = "RUNNABLE"
  /\ ptable = NoThread
  /\ Cardinality(oncpu) < ncpu
  /\ state' = [state EXCEPT ![t] = "RUNNING"]
  /\ oncpu' = oncpu \cup {t}
  /\ UNCHANGED <<lock, flag, ring, ptable, pc, ncpu>>

(* The clock interrupt, which acquire() masks on the CPU of the holder. *)
InterruptsOn_Always(t) == TRUE
InterruptsOn(t) == ptable # t

Yield(t) ==
  /\ t \in oncpu /\ state[t] = "RUNNING"
  /\ InterruptsOn(t) /\ ptable \in {NoThread, t}
  /\ state' = [state EXCEPT ![t] = "RUNNABLE"]
  /\ oncpu' = oncpu \ {t}
  /\ ptable' = NoThread
  /\ UNCHANGED <<lock, flag, ring, pc, ncpu>>

Step(t) ==
  \/ WaitFlag(t) \/ WaitEnqueue(t) \/ WaitPtable(t) \/ WaitUnflag(t)
  \/ WaitUnlock(t) \/ WaitSleep(t) \/ WaitResume(t) \/ WaitRelock(t)
  \/ SignalFlag(t) \/ SignalWake(t) \/ SignalDequeue(t)

Next == \E t \in Threads :
  \/ LockAcquire(t) \/ LockRelease(t) \/ CallWait(t) \/ CallSignal(t)
  \/ Step(t) \/ Dispatch(t) \/ Yield(t)

Spec == Init /\ [][Next]_vars

-----------------------------------------------------------------------------
(* cond.c: a thread "cannot leave cond_wait without lock": whoever is past *)
(* the acquisition or the return of cond_wait() is alone there.            *)
Owners == {t \in Threads : pc[t] \notin {"user", "w_sleep", "w_resume", "w_relock"}}
LeavesWithLock ==
  /\ \A t, u \in Owners : t = u
  /\ Owners # {} => lock = Taken

(* sleep() promises that holding ptable.lock "we won't miss any wakeup":   *)
(* a thread asleep in cond_wait() is in the queue, where a signal finds it. *)
NoLostSignal ==
  \A t \in Threads :
    state[t] = "SLEEPING" => \E i \in Waiting : thqueue[i] = t

(* On one CPU the promise is kept: acquire(&ptable.lock) masks the clock,  *)
(* so that no signal comes between the release of the lock and SLEEPING.   *)
NoLostSignalOneCpu == ncpu = 1 => NoLostSignal

(* One signal wakes one waiter: the ring holds each waiting thread once,   *)
(* and nobody else except the thread that is being woken.                  *)
RingExact ==
  /\ TypeOK
  /\ (head + count) % QSIZE = tail
  /\ \A i, j \in Waiting : thqueue[i] = thqueue[j] => i = j
  /\ \A i \in Waiting : \/ pc[thqueue[i]] \in WaitPCs \ {"w_flag", "w_enqueue"}
                        \/ i = head /\ \E t \in Threads : pc[t] = "s_dequeue"

(* No thread runs on two CPUs: one that a CPU is executing is not on offer *)
(* to another, unless ptable.lock keeps that one's scheduler out.          *)
NoDoubleRun == \A t \in oncpu : state[t] = "RUNNING" \/ ptable = t
=============================================================================
