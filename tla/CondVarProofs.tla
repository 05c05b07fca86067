---------------------------- MODULE CondVarProofs ----------------------------
(***************************************************************************)
(* For any number of threads and CPUs and any length of the ring: nobody   *)
(* is in the critical section, or back from cond_wait(), without the lock; *)
(* the ring holds the waiting threads, each once; no thread runs on two    *)
(* CPUs; and a machine with one CPU loses no signal.                       *)
(***************************************************************************)
EXTENDS CondVar, FiniteSetTheorems, TLAPS

(* LeavesWithLock is inductive once pc is known to be a function: at most  *)
(* one thread is past an acquisition, and the lock is taken while one is.  *)
LockInv ==
  /\ lock \in {Free, Taken}
  /\ pc \in [Threads -> PCs]
  /\ LeavesWithLock

(* The lock word excludes: whoever takes it finds it free.                 *)
LEMMA LockStep == LockInv /\ [Next]_vars => LockInv'
<1> SUFFICES ASSUME LockInv, [Next]_vars PROVE LockInv'
  OBVIOUS
<1> USE DEF LockInv, LeavesWithLock, Owners, PCs, WaitPCs, At, Goto, Free, Taken
<1>1. ASSUME NEW t \in Threads, LockAcquire(t) PROVE LockInv'
  BY <1>1 DEF LockAcquire
<1>2. ASSUME NEW t \in Threads, LockRelease(t) PROVE LockInv'
  BY <1>2 DEF LockRelease
<1>3. ASSUME NEW t \in Threads, CallWait(t) PROVE LockInv'
  BY <1>3 DEF CallWait
<1>4. ASSUME NEW t \in Threads, CallSignal(t) PROVE LockInv'
  BY <1>4 DEF CallSignal
<1>5. ASSUME NEW t \in Threads, WaitFlag(t) PROVE LockInv'
  BY <1>5 DEF WaitFlag
<1>6. ASSUME NEW t \in Threads, WaitEnqueue(t) PROVE LockInv'
  BY <1>6 DEF WaitEnqueue
<1>7. ASSUME NEW t \in Threads, WaitPtable(t) PROVE LockInv'
  BY <1>7 DEF WaitPtable
<1>8. ASSUME NEW t \in Threads, WaitUnflag(t) PROVE LockInv'
  BY <1>8 DEF WaitUnflag
<1>9. ASSUME NEW t \in Threads, WaitUnlock(t) PROVE LockInv'
  BY <1>9 DEF WaitUnlock
<1>10. ASSUME NEW t \in Threads, WaitSleep(t) PROVE LockInv'
  BY <1>10 DEF WaitSleep
<1>11. ASSUME NEW t \in Threads, WaitResume(t) PROVE LockInv'
  BY <1>11 DEF WaitResume
<1>12. ASSUME NEW t \in Threads, WaitRelock(t) PROVE LockInv'
  BY <1>12 DEF WaitRelock, Relock
<1>13. ASSUME NEW t \in Threads, SignalFlag(t) PROVE LockInv'
  BY <1>13 DEF SignalFlag
<1>14. ASSUME NEW t \in Threads, SignalWake(t) PROVE LockInv'
  BY <1>14 DEF SignalWake
<1>15. ASSUME NEW t \in Threads, SignalDequeue(t) PROVE LockInv'
  BY <1>15 DEF SignalDequeue
<1>16. ASSUME NEW t \in Threads, Dispatch(t) PROVE LockInv'
  BY <1>16 DEF Dispatch
<1>17. ASSUME NEW t \in Threads, Yield(t) PROVE LockInv'
  BY <1>17 DEF Yield
<1>18. CASE UNCHANGED vars
  BY <1>18 DEF vars
<1> QED
  BY <1>1, <1>2, <1>3, <1>4, <1>5, <1>6, <1>7, <1>8, <1>9, <1>10,
     <1>11, <1>12, <1>13, <1>14, <1>15, <1>16, <1>17, <1>18
     DEF Next, Step

(* The promise of cond.c: a thread cannot leave cond_wait() without the    *)
(* lock, and has it alone.                                                 *)
THEOREM LeavesWithLockCorrect == Spec => []LeavesWithLock
<1>1. Init => LockInv
  BY DEF Init, LockInv, LeavesWithLock, Owners, PCs, Free, Taken
<1>2. LockInv => LeavesWithLock
  BY DEF LockInv
<1> QED BY <1>1, <1>2, LockStep, PTL DEF Spec

-----------------------------------------------------------------------------
(* A position of the ring is at most one turn ahead. *)
LEMMA Wrapped ==
  ASSUME NEW x \in 0..QSIZE-1, NEW i \in 0..QSIZE
  PROVE  /\ (x + i) % QSIZE \in 0..QSIZE-1
         /\ (x + i) % QSIZE = IF x + i < QSIZE THEN x + i ELSE x + i - QSIZE
<1> USE CondVarAssumption DEF CondVarAssumption
<1>1. CASE x + i < QSIZE
  BY <1>1
<1>2. CASE x + i >= QSIZE
  BY <1>2
<1> QED BY <1>1, <1>2

Cell(i) == thqueue[(head + i) % QSIZE]      \* counted from head
Queued(t) == \E i \in 0..count-1 : Cell(i) = t

(* A thread in the ring is on its way to sleep, or asleep and on no CPU,   *)
(* or it is the first and somebody who has woken it will take it out.      *)
Leaving == {"w_ptable", "w_unflag", "w_unlock", "w_sleep"}
Place(i, t) ==
  \/ pc[t] \in Leaving
  \/ pc[t] = "w_resume" /\ state[t] = "SLEEPING" /\ t \notin oncpu
  \/ pc[t] \in {"w_resume", "w_relock"} /\ i = 0 /\ \E u \in Threads : pc[u] = "s_dequeue"

RingInv ==
  /\ tail = (head + count) % QSIZE
  /\ \A i, j \in 0..count-1 : Cell(i) = Cell(j) => i = j
  /\ \A i \in 0..count-1 : Cell(i) \in Threads /\ Place(i, Cell(i))

(* Whoever is between the test of count and its change finds it as it was; *)
(* from the acquisition of ptable.lock to the sleep no clock interferes.   *)
PlaceInv ==
  \A t \in Threads :
    /\ pc[t] \in {"s_wake", "s_dequeue"} => count # 0
    /\ pc[t] \in {"w_flag", "w_enqueue"} => count # QSIZE
    /\ pc[t] \in {"w_unflag", "w_unlock", "w_sleep"} => ptable = t /\ t \in oncpu

CondInv == TypeOK /\ LeavesWithLock /\ RingInv /\ PlaceInv /\ NoDoubleRun

(* The ring, the queue's indices and the thread states keep their types.   *)
LEMMA TypeStep == CondInv /\ [Next]_vars => TypeOK'
<1> SUFFICES ASSUME CondInv, [Next]_vars PROVE TypeOK'
  OBVIOUS
<1> USE CondVarAssumption DEF CondVarAssumption, TypeOK, At, Goto, ring, PCs, WaitPCs, Free, Taken
<1>0. TypeOK /\ PlaceInv
  BY DEF CondInv
<1>1. ASSUME NEW t \in Threads, LockAcquire(t) PROVE TypeOK'
  BY <1>0, <1>1 DEF LockAcquire
<1>2. ASSUME NEW t \in Threads, LockRelease(t) PROVE TypeOK'
  BY <1>0, <1>2 DEF LockRelease
<1>3. ASSUME NEW t \in Threads, CallWait(t) PROVE TypeOK'
  BY <1>0, <1>3 DEF CallWait
<1>4. ASSUME NEW t \in Threads, CallSignal(t) PROVE TypeOK'
  BY <1>0, <1>4 DEF CallSignal
<1>5. ASSUME NEW t \in Threads, WaitFlag(t) PROVE TypeOK'
  BY <1>0, <1>5 DEF WaitFlag
<1>6. ASSUME NEW t \in Threads, WaitEnqueue(t) PROVE TypeOK'
  <2>1. tail' \in 0..QSIZE-1
    BY <1>0, <1>6, Wrapped DEF WaitEnqueue
  <2>2. count' \in 0..QSIZE
    BY <1>0, <1>6 DEF WaitEnqueue, PlaceInv
  <2> QED BY <1>0, <1>6, <2>1, <2>2 DEF WaitEnqueue
<1>7. ASSUME NEW t \in Threads, WaitPtable(t) PROVE TypeOK'
  BY <1>0, <1>7 DEF WaitPtable
<1>8. ASSUME NEW t \in Threads, WaitUnflag(t) PROVE TypeOK'
  BY <1>0, <1>8 DEF WaitUnflag
<1>9. ASSUME NEW t \in Threads, WaitUnlock(t) PROVE TypeOK'
  BY <1>0, <1>9 DEF WaitUnlock
<1>10. ASSUME NEW t \in Threads, WaitSleep(t) PROVE TypeOK'
  BY <1>0, <1>10 DEF WaitSleep
<1>11. ASSUME NEW t \in Threads, WaitResume(t) PROVE TypeOK'
  BY <1>0, <1>11 DEF WaitResume
<1>12. ASSUME NEW t \in Threads, WaitRelock(t) PROVE TypeOK'
  BY <1>0, <1>12 DEF WaitRelock
<1>13. ASSUME NEW t \in Threads, SignalFlag(t) PROVE TypeOK'
  BY <1>0, <1>13 DEF SignalFlag
<1>14. ASSUME NEW t \in Threads, SignalWake(t) PROVE TypeOK'
  BY <1>0, <1>14 DEF SignalWake
<1>15. ASSUME NEW t \in Threads, SignalDequeue(t) PROVE TypeOK'
  <2>1. head' \in 0..QSIZE-1
    BY <1>0, <1>15, Wrapped DEF SignalDequeue, NextHead
  <2>2. count' \in 0..QSIZE
    BY <1>0, <1>15 DEF SignalDequeue, PlaceInv
  <2> QED BY <1>0, <1>15, <2>1, <2>2 DEF SignalDequeue
<1>16. ASSUME NEW t \in Threads, Dispatch(t) PROVE TypeOK'
  BY <1>0, <1>16 DEF Dispatch
<1>17. ASSUME NEW t \in Threads, Yield(t) PROVE TypeOK'
  BY <1>0, <1>17 DEF Yield
<1>18. CASE UNCHANGED vars
  BY <1>0, <1>18 DEF vars
<1> QED
  BY <1>1, <1>2, <1>3, <1>4, <1>5, <1>6, <1>7, <1>8, <1>9, <1>10,
     <1>11, <1>12, <1>13, <1>14, <1>15, <1>16, <1>17, <1>18
     DEF Next, Step

(* What cond_wait() and cond_signal() do to the cells, counted from head. *)
LEMMA Enqueued ==
  ASSUME CondInv, NEW t \in Threads, WaitEnqueue(t)
  PROVE  /\ count' = count + 1 /\ tail' = (head' + count') % QSIZE
         /\ \A i \in 0..count : Cell(i)' = IF i = count THEN t ELSE Cell(i)
<1> USE CondVarAssumption DEF CondVarAssumption
<1>0. /\ head \in 0..QSIZE-1 /\ tail \in 0..QSIZE-1 /\ count \in 0..QSIZE
      /\ tail = (head + count) % QSIZE
      /\ thqueue \in [0..QSIZE-1 -> Threads \cup {NoThread}]
  BY DEF CondInv, TypeOK, RingInv
<1>1. /\ count \in 0..QSIZE-1 /\ count' = count + 1 /\ head' = head
      /\ tail' = (tail + 1) % QSIZE /\ thqueue' = [thqueue EXCEPT ![tail] = t]
  BY <1>0 DEF WaitEnqueue, CondInv, PlaceInv, At
<1>2. \A i \in 0..QSIZE : (head + i) % QSIZE \in 0..QSIZE-1
                        /\ (head + i) % QSIZE = IF head + i < QSIZE
                             THEN head + i ELSE head + i - QSIZE
  BY <1>0, Wrapped
<1>3. \A i \in 0..count-1 : (head + i) % QSIZE # tail
  BY <1>0, <1>1, <1>2
<1>4. tail' = (head' + count') % QSIZE
  <2>1. tail' = IF tail + 1 < QSIZE THEN tail + 1 ELSE tail + 1 - QSIZE
    <3>1. 1 \in 0..QSIZE
      OBVIOUS
    <3>2. (tail + 1) % QSIZE = IF tail + 1 < QSIZE THEN tail + 1 ELSE tail + 1 - QSIZE
      BY <1>0, <3>1, Wrapped
    <3> QED BY <1>1, <3>2
  <2>2. tail = IF head + count < QSIZE THEN head + count ELSE head + count - QSIZE
    BY <1>0, <1>2
  <2>3. (head' + count') % QSIZE
          = IF head + (count + 1) < QSIZE THEN head + (count + 1)
            ELSE head + (count + 1) - QSIZE
    <3>1. head' + count' = head + (count + 1) /\ count + 1 \in 0..QSIZE
      BY <1>0, <1>1
    <3> QED BY <1>2, <3>1
  <2>4. count + 1 <= QSIZE
    BY <1>1
  <2> QED BY <1>0, <2>1, <2>2, <2>3, <2>4
<1>5. \A i \in 0..count : Cell(i)' = thqueue'[(head + i) % QSIZE]
  BY <1>1 DEF Cell
<1>6. \A i \in 0..count-1 : Cell(i)' = Cell(i)
  BY <1>0, <1>1, <1>2, <1>3, <1>5 DEF Cell
<1>7. \A i \in 0..count : i = count => Cell(i)' = t
  BY <1>0, <1>1, <1>5
<1>8. \A i \in 0..count : i = count \/ i \in 0..count-1
  BY <1>0
<1> QED BY <1>1, <1>4, <1>6, <1>7, <1>8

(* cond_signal() takes the oldest waiter: the others move one place up.    *)
LEMMA Dequeued ==
  ASSUME CondInv, NEW t \in Threads, SignalDequeue(t)
  PROVE  /\ count' = count - 1 /\ count \in 1..QSIZE
         /\ tail' = (head' + count') % QSIZE
         /\ \A i \in 0..count-2 : Cell(i)' = Cell(i + 1)
<1> USE CondVarAssumption DEF CondVarAssumption, CondInv, TypeOK, RingInv, Cell
<1>1. count' = count - 1 /\ count \in 1..QSIZE /\ tail' = tail /\ thqueue' = thqueue
      /\ head \in 0..QSIZE-1
  BY DEF SignalDequeue, PlaceInv, At
<1>2. \A i \in 0..QSIZE : (head + i) % QSIZE = IF head + i < QSIZE
                             THEN head + i ELSE head + i - QSIZE
  BY Wrapped
<1>3. head' \in 0..QSIZE-1 /\ head' = IF head + 1 < QSIZE THEN head + 1 ELSE head + 1 - QSIZE
  BY Wrapped DEF SignalDequeue, NextHead
<1>4. \A i \in 0..QSIZE : (head' + i) % QSIZE = IF head' + i < QSIZE
                             THEN head' + i ELSE head' + i - QSIZE
  BY <1>3, Wrapped
<1>5. \A i \in 0..count-1 : (head' + i) % QSIZE = (head + (i + 1)) % QSIZE
  <2>1. ASSUME NEW i \in 0..count-1
        PROVE  (head' + i) % QSIZE = (head + (i + 1)) % QSIZE
    <3>1. i \in 0..QSIZE /\ i + 1 \in 0..QSIZE
      BY <1>1
    <3>2. (head' + i) % QSIZE = IF head' + i < QSIZE THEN head' + i ELSE head' + i - QSIZE
      BY <1>4, <3>1
    <3>3. (head + (i + 1)) % QSIZE = IF head + (i + 1) < QSIZE
                            THEN head + (i + 1) ELSE head + (i + 1) - QSIZE
      BY <1>2, <3>1
    <3> HIDE DEF RingInv
    <3> QED BY <1>1, <1>3, <3>1, <3>2, <3>3
  <2> QED BY <2>1
<1>6. tail' = (head' + count') % QSIZE
  BY <1>1, <1>5
<1>7. \A i \in 0..count-2 : Cell(i)' = Cell(i + 1)
  BY <1>1, <1>5
<1> QED BY <1>1, <1>6, <1>7

(* In a step that leaves the ring alone, who is in it may only move on.    *)
LEMMA RingKept ==
  ASSUME CondInv, UNCHANGED ring,
         \A t \in Threads, i \in 0..count-1 : Place(i, t) /\ t = Cell(i) => Place(i, t)'
  PROVE  RingInv'
<1>1. count' = count /\ head' = head /\ tail' = tail /\ \A i : Cell(i)' = Cell(i)
  BY DEF ring, Cell
<1> QED BY <1>1 DEF RingInv, CondInv

(* Only a waiter enters the ring, once, and only the signaller that woke a *)
(* thread takes it out.                                                    *)
LEMMA RingStep == CondInv /\ [Next]_vars => RingInv'
<1> SUFFICES ASSUME CondInv, [Next]_vars PROVE RingInv'
  OBVIOUS
<1> USE DEF At, Goto
<1>0. TypeOK /\ LeavesWithLock /\ PlaceInv /\ RingInv
  BY DEF CondInv
<1>1. ASSUME NEW t \in Threads,
             \/ LockAcquire(t) \/ LockRelease(t) \/ CallWait(t) \/ CallSignal(t)
             \/ WaitFlag(t) \/ SignalFlag(t)
      PROVE  RingInv'
  <2>1. UNCHANGED <<ring, state, oncpu>> /\ pc' = [pc EXCEPT ![t] = pc'[t]]
    BY <1>0, <1>1 DEF LockAcquire, LockRelease, CallWait, CallSignal, WaitFlag, SignalFlag, TypeOK
  <2>2. pc[t] \in {"user", "critical", "w_flag", "s_flag"}
    BY <1>1 DEF LockAcquire, LockRelease, CallWait, CallSignal, WaitFlag, SignalFlag
  <2>3. \A s \in Threads, i \in 0..count-1 : Place(i, s) => Place(i, s)'
    BY <1>0, <2>1, <2>2 DEF Place, Leaving, TypeOK
  <2> QED BY <2>1, <2>3, RingKept
<1>2. ASSUME NEW t \in Threads,
             WaitPtable(t) \/ WaitUnflag(t) \/ WaitUnlock(t) \/ WaitSleep(t)
      PROVE  RingInv'
  <2>1. UNCHANGED ring /\ pc' = [pc EXCEPT ![t] = pc'[t]]
    BY <1>0, <1>2 DEF WaitPtable, WaitUnflag, WaitUnlock, WaitSleep, TypeOK
  <2>2. \A s \in Threads, i \in 0..count-1 : Place(i, s) => Place(i, s)'
    BY <1>0, <1>2, <2>1 DEF WaitPtable, WaitUnflag, WaitUnlock, WaitSleep, Place, Leaving, TypeOK
  <2> QED BY <2>1, <2>2, RingKept
<1>3. ASSUME NEW t \in Threads, WaitEnqueue(t) PROVE RingInv'
  <2>1. \A i \in 0..count-1 : Cell(i) # t
    BY <1>0, <1>3 DEF WaitEnqueue, RingInv, Place, Leaving
  <2>2. \A i \in 0..count'-1 : Cell(i)' = IF i = count THEN t ELSE Cell(i)
    BY <1>0, <1>3, Enqueued DEF TypeOK
  <2>3. Place(count, t)'
    BY <1>0, <1>3 DEF Place, Leaving, WaitEnqueue, TypeOK
  <2>4. \A i \in 0..count-1 : Cell(i) \in Threads /\ Place(i, Cell(i))
    BY <1>0 DEF RingInv
  <2>5. \A s \in Threads, i \in 0..count-1 : Place(i, s) => Place(i, s)'
    BY <1>0, <1>3 DEF WaitEnqueue, Place, Leaving, TypeOK
  <2>6. ASSUME NEW i \in 0..count'-1 PROVE Cell(i)' \in Threads /\ Place(i, Cell(i))'
    <3>1. CASE i = count
      BY <1>3, <2>2, <2>3, <3>1 DEF Place
    <3>2. CASE i # count
      <4>1. i \in 0..count-1 /\ Cell(i)' = Cell(i)
        BY <1>0, <1>3, <2>2, <3>2, Enqueued DEF TypeOK
      <4> QED BY <2>4, <2>5, <4>1 DEF Place
    <3> QED BY <3>1, <3>2
  <2>7. \A i, j \in 0..count'-1 : Cell(i)' = Cell(j)' => i = j
    BY <1>0, <1>3, <2>1, <2>2, Enqueued DEF RingInv, TypeOK
  <2> QED BY <1>3, <2>6, <2>7, Enqueued DEF RingInv
<1>4. ASSUME NEW t \in Threads, WaitResume(t) \/ WaitRelock(t) PROVE RingInv'
  <2>1. UNCHANGED <<ring, state, oncpu>> /\ pc' = [pc EXCEPT ![t] = pc'[t]]
    BY <1>0, <1>4 DEF WaitResume, WaitRelock, TypeOK
  <2>2. WaitRelock(t) => \A u \in Threads : pc[u] # "s_dequeue"
    BY <1>0 DEF WaitRelock, Relock, LeavesWithLock, Owners, Free, Taken
  <2>3. WaitResume(t) => pc[t] = "w_resume" /\ pc'[t] = "w_relock" /\ t \in oncpu
    BY <1>0 DEF WaitResume, TypeOK
  <2>4. WaitRelock(t) => pc[t] = "w_relock" /\ pc'[t] = "critical"
    BY <1>0 DEF WaitRelock, TypeOK
  <2>5. \A s \in Threads, i \in 0..count-1 : Place(i, s) => Place(i, s)'
    BY <1>0, <1>4, <2>1, <2>2, <2>3, <2>4 DEF Place, Leaving, TypeOK
  <2> QED BY <2>1, <2>5, RingKept
<1>5. ASSUME NEW t \in Threads, SignalWake(t) PROVE RingInv'
  <2>1. UNCHANGED <<ring, oncpu>> /\ pc' = [pc EXCEPT ![t] = "s_dequeue"]
        /\ pc[t] = "s_wake" /\ state' = [state EXCEPT ![Cell(0)] = "RUNNABLE"]
    <3>1. (head + 0) % QSIZE = head
      <4>1. head \in 0..QSIZE-1 /\ QSIZE \in Nat \ {0}
        BY <1>0, CondVarAssumption DEF TypeOK, CondVarAssumption
      <4>2. head + 0 = head /\ head % QSIZE = head
        BY <4>1
      <4> QED BY <4>2
    <3> QED BY <1>5, <3>1 DEF SignalWake, Awakened, Cell
  <2>2. pc'[t] = "s_dequeue"
    BY <1>0, <2>1 DEF TypeOK
  <2>3. \A u \in Threads : pc[u] # "s_dequeue"
    BY <1>0, <2>1 DEF LeavesWithLock, Owners
  <2>4. 0 \in 0..count-1
    BY <1>0, <2>1 DEF PlaceInv, TypeOK
  <2>5. ASSUME NEW s \in Threads, NEW i \in 0..count-1, Place(i, s), s = Cell(i)
        PROVE  Place(i, s)'
    <3>1. s # t
      BY <2>1, <2>5 DEF Place, Leaving
    <3>2. CASE i = 0
      BY <1>0, <2>1, <2>2, <2>5, <3>1, <3>2 DEF Place, Leaving, TypeOK
    <3>3. CASE i # 0
      <4>1. s # Cell(0)
        BY <1>0, <2>4, <2>5, <3>3 DEF RingInv
      <4> QED BY <1>0, <2>1, <2>3, <2>5, <3>1, <4>1 DEF Place, Leaving, TypeOK
    <3> QED BY <3>2, <3>3
  <2> QED BY <2>1, <2>5, RingKept
<1>6. ASSUME NEW t \in Threads, SignalDequeue(t) PROVE RingInv'
  <2>1. UNCHANGED <<state, oncpu>> /\ pc' = [pc EXCEPT ![t] = "critical"] /\ pc[t] = "s_dequeue"
    BY <1>6 DEF SignalDequeue
  <2>2. ASSUME NEW i \in 0..count'-1
        PROVE  /\ i + 1 \in 0..count-1 /\ Cell(i)' = Cell(i + 1)
    BY <1>6, Dequeued
  <2>3. ASSUME NEW i \in 0..count'-1
        PROVE  Cell(i)' \in Threads /\ Place(i, Cell(i))'
    <3>1. Cell(i + 1) \in Threads /\ Place(i + 1, Cell(i + 1))
      BY <1>0, <2>2 DEF RingInv
    <3> DEFINE s == Cell(i + 1)
    <3>2. \/ pc[s] \in Leaving
          \/ pc[s] = "w_resume" /\ state[s] = "SLEEPING" /\ s \notin oncpu
      <4>1. i \in Nat /\ i + 1 # 0
        BY <1>0, <1>6, Dequeued DEF TypeOK
      <4> QED BY <3>1, <4>1 DEF Place
    <3> QED BY <1>0, <2>1, <2>2, <3>1, <3>2 DEF Place, Leaving, TypeOK
  <2>4. \A i, j \in 0..count'-1 : Cell(i)' = Cell(j)' => i = j
    BY <1>0, <2>2 DEF RingInv
  <2> QED BY <1>6, <2>3, <2>4, Dequeued DEF RingInv
<1>7. ASSUME NEW t \in Threads, Dispatch(t) \/ Yield(t) PROVE RingInv'
  <2>1. UNCHANGED <<ring, pc>>
    BY <1>7 DEF Dispatch, Yield
  <2>2. state[t] # "SLEEPING" /\ state' = [state EXCEPT ![t] = state'[t]]
        /\ \A s \in Threads : s \in oncpu' => s \in oncpu \/ s = t
    BY <1>0, <1>7 DEF Dispatch, Yield, TypeOK
  <2>3. \A s \in Threads, i \in 0..count-1 : Place(i, s) => Place(i, s)'
    BY <1>0, <2>1, <2>2 DEF Place, TypeOK
  <2> QED BY <2>1, <2>3, RingKept
<1>8. CASE UNCHANGED vars
  <2>1. \A s, i : Place(i, s) => Place(i, s)'
    BY <1>8 DEF vars, Place
  <2> QED BY <1>8, <2>1, RingKept DEF vars, ring
<1> QED
  BY <1>1, <1>2, <1>3, <1>4, <1>5, <1>6, <1>7, <1>8 DEF Next, Step

(* The caller's lock keeps count as it was found, and acquire() keeps the  *)
(* clock out until the thread sleeps.                                      *)
LEMMA PlaceStep == CondInv /\ [Next]_vars => PlaceInv'
<1> SUFFICES ASSUME CondInv, [Next]_vars PROVE PlaceInv'
  OBVIOUS
<1> USE DEF PlaceInv, LeavesWithLock, Owners, At, Goto, ring
<1>0. TypeOK /\ LeavesWithLock /\ PlaceInv
  BY DEF CondInv
<1>1. ASSUME NEW t \in Threads,
             LockAcquire(t) \/ LockRelease(t) \/ CallWait(t) \/ CallSignal(t)
      PROVE  PlaceInv'
  BY <1>0, <1>1 DEF LockAcquire, LockRelease, CallWait, CallSignal, TypeOK
<1>2. ASSUME NEW t \in Threads, WaitFlag(t) \/ WaitPtable(t) \/ WaitUnflag(t) PROVE PlaceInv'
  BY <1>0, <1>2, CondVarAssumption DEF WaitFlag, WaitPtable, WaitUnflag, TypeOK, CondVarAssumption
<1>3. ASSUME NEW t \in Threads, WaitEnqueue(t) PROVE PlaceInv'
  BY <1>0, <1>3 DEF WaitEnqueue, TypeOK
<1>4. ASSUME NEW t \in Threads, WaitUnlock(t) \/ WaitResume(t) \/ WaitRelock(t) PROVE PlaceInv'
  BY <1>0, <1>4 DEF WaitUnlock, WaitResume, WaitRelock, TypeOK
<1>5. ASSUME NEW t \in Threads, WaitSleep(t) PROVE PlaceInv'
  BY <1>0, <1>5 DEF WaitSleep, TypeOK
<1>6. ASSUME NEW t \in Threads, SignalFlag(t) \/ SignalWake(t) PROVE PlaceInv'
  BY <1>0, <1>6 DEF SignalFlag, SignalWake, TypeOK
<1>7. ASSUME NEW t \in Threads, SignalDequeue(t) PROVE PlaceInv'
  BY <1>0, <1>7 DEF SignalDequeue, TypeOK
<1>8. ASSUME NEW t \in Threads, Dispatch(t) \/ Yield(t) PROVE PlaceInv'
  BY <1>0, <1>8 DEF Dispatch, Yield, InterruptsOn, TypeOK
<1>9. CASE UNCHANGED vars
  BY <1>0, <1>9 DEF vars
<1> QED
  BY <1>1, <1>2, <1>3, <1>4, <1>5, <1>6, <1>7, <1>8, <1>9 DEF Next, Step

(* The signaller takes a thread's state away only when that thread is off  *)
(* the CPU, or on it with ptable.lock, which keeps the schedulers out.     *)
LEMMA DoubleStep == CondInv /\ [Next]_vars => NoDoubleRun'
<1> SUFFICES ASSUME CondInv, [Next]_vars PROVE NoDoubleRun'
  OBVIOUS
<1> USE DEF NoDoubleRun, At
<1>0. TypeOK /\ LeavesWithLock /\ PlaceInv /\ RingInv /\ NoDoubleRun
  BY DEF CondInv
<1>1. ASSUME NEW t \in Threads, SignalWake(t) PROVE NoDoubleRun'
  <2>1. pc[t] = "s_wake" /\ 0 \in 0..count-1 /\ Awakened = Cell(0)
    <3>1. head + 0 = head /\ head % QSIZE = head
      BY <1>0, CondVarAssumption DEF TypeOK, CondVarAssumption
    <3>2. pc[t] = "s_wake"
      BY <1>1 DEF SignalWake
    <3> QED BY <1>0, <3>1, <3>2 DEF PlaceInv, TypeOK, Cell, Awakened
  <2>2. Awakened \in Threads /\ Place(0, Awakened)
    BY <1>0, <2>1 DEF RingInv
  <2>3. \A u \in Threads : u # t => pc[u] \notin {"s_dequeue", "w_ptable", "w_unflag", "w_unlock"}
    BY <1>0, <2>1 DEF LeavesWithLock, Owners
  <2>4. Awakened \notin oncpu \/ ptable = Awakened
    BY <1>0, <2>1, <2>2, <2>3 DEF Place, Leaving, PlaceInv
  <2> QED BY <1>0, <1>1, <2>4 DEF SignalWake, TypeOK
<1>2. ASSUME NEW t \in Threads, WaitPtable(t) \/ WaitSleep(t) PROVE NoDoubleRun'
  BY <1>0, <1>2, CondVarAssumption
     DEF WaitPtable, WaitSleep, PlaceInv, TypeOK, CondVarAssumption
<1>3. ASSUME NEW t \in Threads, Dispatch(t) \/ Yield(t) PROVE NoDoubleRun'
  BY <1>0, <1>3, CondVarAssumption DEF Dispatch, Yield, InterruptsOn, TypeOK, CondVarAssumption
<1>4. CASE UNCHANGED <<state, oncpu, ptable>>
  BY <1>0, <1>4
<1> QED
  BY <1>1, <1>2, <1>3, <1>4
     DEF Next, Step, LockAcquire, LockRelease, CallWait, CallSignal, WaitFlag, WaitEnqueue,
         WaitUnflag, WaitUnlock, WaitResume, WaitRelock, SignalFlag, SignalDequeue, vars

(* Every thread starts outside, with an empty ring.                        *)
LEMMA CondInit == Init => CondInv
<1> USE CondVarAssumption DEF CondVarAssumption, Init
<1>1. Init => TypeOK
  BY DEF TypeOK, PCs, Free, Taken
<1>2. Init => LeavesWithLock /\ PlaceInv /\ NoDoubleRun
  BY DEF LeavesWithLock, Owners, PlaceInv, NoDoubleRun
<1>3. Init => RingInv
  BY DEF RingInv
<1> QED BY <1>1, <1>2, <1>3 DEF CondInv

(* Every step keeps all the parts of the invariant.                        *)
LEMMA CondStep == CondInv /\ [Next]_vars => CondInv'
<1>1. CondInv => LockInv
  BY DEF CondInv, TypeOK, LockInv
<1> QED BY <1>1, TypeStep, LockStep, RingStep, PlaceStep, DoubleStep DEF CondInv, LockInv

(* Every reachable state of the condition variable satisfies CondInv.      *)
LEMMA Invariance == Spec => []CondInv
  BY CondInit, CondStep, PTL DEF Spec

(* cond_wait() and cond_signal() share the ring under the condition's flag *)
(* and the caller's lock: who waits is in it once, and nobody else is.     *)
THEOREM RingExactCorrect == Spec => []RingExact
<1>1. CondInv => RingExact
  <2> SUFFICES ASSUME CondInv PROVE RingExact
    OBVIOUS
  <2>1. TypeOK /\ RingInv
    BY DEF CondInv
  <2>2. \A p \in Waiting : \E i \in 0..count-1 : p = (head + i) % QSIZE /\ thqueue[p] = Cell(i)
    BY DEF Waiting, Cell
  <2>3. \A p, q \in Waiting : thqueue[p] = thqueue[q] => p = q
    BY <2>1, <2>2 DEF RingInv
  <2>4. ASSUME NEW p \in Waiting
        PROVE  \/ pc[thqueue[p]] \in WaitPCs \ {"w_flag", "w_enqueue"}
               \/ p = head /\ \E t \in Threads : pc[t] = "s_dequeue"
    <3>1. PICK i \in 0..count-1 : p = (head + i) % QSIZE /\ thqueue[p] = Cell(i)
      BY <2>2
    <3> QED BY <2>1, <3>1 DEF RingInv, Place, Leaving, WaitPCs
  <2> QED BY <2>1, <2>3, <2>4 DEF RingExact, RingInv
<1> QED BY <1>1, Invariance, PTL

(* cond_signal() writes a thread's state without ptable.lock, but never so *)
(* that two CPUs run that thread.                                          *)
THEOREM NoDoubleRunCorrect == Spec => []NoDoubleRun
<1>1. CondInv => NoDoubleRun
  BY DEF CondInv
<1> QED BY <1>1, Invariance, PTL

-----------------------------------------------------------------------------
(* With one CPU the thread between the release of the lock and its sleep   *)
(* is the one that runs: it still is in the ring, nobody is taking it out, *)
(* and who is being taken out has been woken.                              *)
OneCpuInv ==
  ncpu = 1 =>
    /\ \A t, u \in oncpu : t = u
    /\ \A t \in Threads :
         /\ pc[t] \in Leaving => Queued(t)
         /\ pc[t] = "w_sleep" => \A u \in Threads : pc[u] # "s_dequeue"
         /\ pc[t] = "s_dequeue" => state[Cell(0)] # "SLEEPING"
         /\ state[t] = "SLEEPING" => Queued(t)

(* With one CPU nobody signals between the release of the lock and         *)
(* SLEEPING.                                                               *)
LEMMA OneCpuStep ==
  CondInv /\ CondInv' /\ OneCpuInv /\ [Next]_vars => OneCpuInv'
<1> SUFFICES ASSUME CondInv, CondInv', OneCpuInv, [Next]_vars, ncpu' = 1 PROVE OneCpuInv'
  BY DEF OneCpuInv
<1> USE DEF At, Goto
<1>0. TypeOK /\ LeavesWithLock /\ PlaceInv /\ RingInv
  BY DEF CondInv
<1>a. ncpu = 1
  BY DEF Next, Step, LockAcquire, LockRelease, CallWait, CallSignal, WaitFlag, WaitEnqueue,
         WaitPtable, WaitUnflag, WaitUnlock, WaitSleep, WaitResume, WaitRelock, SignalFlag,
         SignalWake, SignalDequeue, Dispatch, Yield, vars
<1>b. ASSUME UNCHANGED ring
      PROVE  count' = count /\ (\A i : Cell(i)' = Cell(i)) /\ \A t : Queued(t)' = Queued(t)
  BY <1>b DEF ring, Cell, Queued
<1>c. head + 0 = head /\ head % QSIZE = head
  BY <1>0, CondVarAssumption DEF TypeOK, CondVarAssumption
<1> USE DEF OneCpuInv
<1>1. ASSUME NEW t \in Threads,
             \/ LockAcquire(t) \/ LockRelease(t) \/ CallWait(t) \/ CallSignal(t)
             \/ WaitFlag(t) \/ SignalFlag(t) \/ WaitResume(t) \/ WaitRelock(t)
      PROVE  OneCpuInv'
  <2>1. UNCHANGED <<ring, state, oncpu>> /\ pc' = [pc EXCEPT ![t] = pc'[t]]
        /\ pc'[t] \notin Leaving \cup {"s_dequeue"}
    BY <1>0, <1>1 DEF LockAcquire, LockRelease, CallWait, CallSignal, WaitFlag, SignalFlag,
                      WaitResume, WaitRelock, TypeOK, Leaving
  <2> QED BY <1>0, <1>a, <1>b, <2>1 DEF TypeOK, Leaving
<1>2. ASSUME NEW t \in Threads, WaitPtable(t) \/ WaitUnflag(t) \/ WaitUnlock(t) PROVE OneCpuInv'
  <2>1. UNCHANGED <<ring, state, oncpu>> /\ pc' = [pc EXCEPT ![t] = pc'[t]]
        /\ pc[t] \in Leaving /\ pc'[t] \in Leaving /\ pc[t] \in {"w_ptable", "w_unflag", "w_unlock"}
    BY <1>0, <1>2 DEF WaitPtable, WaitUnflag, WaitUnlock, TypeOK, Leaving
  <2>2. \A u \in Threads : pc[u] # "s_dequeue"
    BY <1>0, <2>1 DEF LeavesWithLock, Owners
  <2> QED BY <1>0, <1>a, <1>b, <2>1, <2>2 DEF TypeOK, Leaving
<1>3. ASSUME NEW t \in Threads, WaitEnqueue(t) PROVE OneCpuInv'
  <2>1. UNCHANGED <<state, oncpu>> /\ pc' = [pc EXCEPT ![t] = "w_ptable"] /\ pc[t] = "w_enqueue"
    BY <1>3 DEF WaitEnqueue
  <2>2. \A s \in Threads : Queued(s) \/ s = t => Queued(s)'
    BY <1>0, <1>3, Enqueued DEF Queued, TypeOK
  <2>3. \A u \in Threads : pc[u] # "s_dequeue"
    BY <1>0, <2>1 DEF LeavesWithLock, Owners
  <2> QED BY <1>0, <1>a, <2>1, <2>2, <2>3 DEF TypeOK, Leaving
<1>4. ASSUME NEW t \in Threads, WaitSleep(t) PROVE OneCpuInv'
  <2>1. /\ pc[t] = "w_sleep" /\ pc' = [pc EXCEPT ![t] = "w_resume"]
        /\ state' = [state EXCEPT ![t] = "SLEEPING"] /\ oncpu' = oncpu \ {t} /\ UNCHANGED ring
    BY <1>4 DEF WaitSleep, ring
  <2>2. Queued(t) /\ \A u \in Threads : pc[u] # "s_dequeue"
    BY <1>a, <2>1 DEF Leaving
  <2> QED BY <1>0, <1>a, <1>b, <2>1, <2>2 DEF TypeOK, Leaving
<1>5. ASSUME NEW t \in Threads, SignalWake(t) PROVE OneCpuInv'
  <2>1. /\ t \in oncpu /\ pc[t] = "s_wake" /\ pc' = [pc EXCEPT ![t] = "s_dequeue"]
        /\ state' = [state EXCEPT ![Cell(0)] = "RUNNABLE"] /\ UNCHANGED <<ring, oncpu>>
    BY <1>5, <1>c DEF SignalWake, ring, Cell, Awakened
  <2>2. Cell(0) \in Threads
    <3>1. 0 \in 0..count-1
      BY <1>0, <2>1 DEF PlaceInv, TypeOK
    <3> QED BY <1>0, <3>1 DEF RingInv
  <2>3. \A s \in Threads : pc[s] # "w_sleep"
    BY <1>0, <1>a, <2>1 DEF PlaceInv
  <2>4. state'[Cell(0)] = "RUNNABLE" /\ \A s \in Threads : state'[s] = "SLEEPING" => state[s] = "SLEEPING"
    BY <1>0, <2>1, <2>2 DEF TypeOK
  <2> QED BY <1>0, <1>a, <1>b, <2>1, <2>3, <2>4 DEF TypeOK, Leaving
<1>6. ASSUME NEW t \in Threads, SignalDequeue(t) PROVE OneCpuInv'
  <2>1. /\ t \in oncpu /\ pc[t] = "s_dequeue" /\ pc' = [pc EXCEPT ![t] = "critical"]
        /\ UNCHANGED <<state, oncpu>>
    BY <1>6 DEF SignalDequeue
  <2>2. ASSUME NEW s \in Threads, Queued(s), s # Cell(0) PROVE Queued(s)'
    <3>1. PICK i \in 0..count-1 : Cell(i) = s
      BY <2>2 DEF Queued
    <3>2. i # 0 /\ i - 1 \in 0..count-2
      BY <1>0, <2>2, <3>1 DEF TypeOK
    <3>3. Cell(i - 1)' = Cell(i) /\ i - 1 \in 0..count'-1
      <4>1. i - 1 + 1 = i
        BY <1>0 DEF TypeOK
      <4> QED BY <1>0, <1>6, <3>2, <4>1, Dequeued DEF TypeOK
    <3> QED BY <3>1, <3>3 DEF Queued
  <2>3. Cell(0) \in Threads /\ Place(0, Cell(0))
    <3>1. 0 \in 0..count-1
      BY <1>0, <2>1 DEF PlaceInv, TypeOK
    <3> QED BY <1>0, <3>1 DEF RingInv
  <2>4. pc[Cell(0)] \notin Leaving
    BY <1>0, <1>a, <2>1, <2>3 DEF Leaving, LeavesWithLock, Owners
  <2>5. state[Cell(0)] # "SLEEPING"
    BY <1>a, <2>1
  <2>6. \A u \in Threads : u # t => pc[u] # "s_dequeue"
    BY <1>0, <2>1 DEF LeavesWithLock, Owners
  <2> QED BY <1>0, <1>a, <2>1, <2>2, <2>4, <2>5, <2>6 DEF TypeOK, Leaving
<1>7. ASSUME NEW t \in Threads, Dispatch(t) PROVE OneCpuInv'
  <2>1. UNCHANGED <<ring, pc>> /\ state' = [state EXCEPT ![t] = "RUNNING"] /\ oncpu' = oncpu \cup {t}
    BY <1>7 DEF Dispatch, ring
  <2>2. oncpu = {}
    <3>1. IsFiniteSet(oncpu)
      BY <1>0, CondVarAssumption, FS_Subset DEF TypeOK, CondVarAssumption
    <3>2. Cardinality(oncpu) = 0
      BY <1>7, <1>a, <3>1, FS_CardinalityType DEF Dispatch
    <3> QED BY <3>1, <3>2, FS_EmptySet
  <2>3. \A s \in Threads : state'[s] = "SLEEPING" => state[s] = "SLEEPING" /\ s # t
    BY <1>0, <2>1 DEF TypeOK
  <2>4. \A s \in Threads : pc[s] = "s_dequeue" => state'[Cell(0)] # "SLEEPING"
    BY <1>0, <1>a, <2>1 DEF TypeOK
  <2> QED BY <1>a, <1>b, <2>1, <2>2, <2>3, <2>4
<1>8. ASSUME NEW t \in Threads, Yield(t) PROVE OneCpuInv'
  <2>1. UNCHANGED <<ring, pc>> /\ state' = [state EXCEPT ![t] = "RUNNABLE"] /\ oncpu' = oncpu \ {t}
    BY <1>8 DEF Yield, ring
  <2>2. \A s \in Threads : state'[s] = "SLEEPING" => state[s] = "SLEEPING" /\ s # t
    BY <1>0, <2>1 DEF TypeOK
  <2>3. \A s \in Threads : pc[s] = "s_dequeue" => state'[Cell(0)] # "SLEEPING"
    BY <1>0, <1>a, <2>1 DEF TypeOK
  <2> QED BY <1>a, <1>b, <2>1, <2>2, <2>3
<1>9. CASE UNCHANGED vars
  <2>1. UNCHANGED <<ring, pc, state, oncpu>>
    BY <1>9 DEF vars, ring
  <2> QED BY <1>a, <1>b, <2>1
<1> QED
  BY <1>1, <1>2, <1>3, <1>4, <1>5, <1>6, <1>7, <1>8, <1>9 DEF Next, Step

(* acquire() masks the clock: on one CPU no signal comes between the       *)
(* release of the lock and the sleep, and who sleeps is in the ring.       *)
THEOREM NoLostSignalOneCpuCorrect == Spec => []NoLostSignalOneCpu
<1>1. Init => OneCpuInv
  BY DEF Init, OneCpuInv, Leaving
<1>2. CondInv /\ OneCpuInv => NoLostSignalOneCpu
  BY DEF OneCpuInv, NoLostSignalOneCpu, NoLostSignal, Queued, Cell, Waiting
<1> QED BY <1>1, <1>2, OneCpuStep, Invariance, PTL DEF Spec
=============================================================================
