--------------------------- MODULE ThreadPoolProofs ---------------------------
(***************************************************************************)
(* For any number of workers, any length of the ring and any number of     *)
(* descriptors: a connection is in one place, Wait(NULL) has a child to    *)
(* wait for, and the server implements RequestQueue.                       *)
(***************************************************************************)
EXTENDS ThreadPool, Sequences, FiniteSetTheorems, TLAPS

USE ThreadPoolAssumption DEF ThreadPoolAssumption

(* A position of the ring is at most one turn ahead. *)
LEMMA Wrapped ==
  ASSUME NEW x \in Index, NEW i \in 0..bufferlen
  PROVE  /\ (x + i) % bufferlen \in Index
         /\ (x + i) % bufferlen = IF x + i < bufferlen THEN x + i ELSE x + i - bufferlen
<1>1. CASE x + i < bufferlen
  BY <1>1 DEF Index
<1>2. CASE x + i >= bufferlen
  BY <1>2 DEF Index
<1> QED BY <1>1, <1>2 DEF Index

-----------------------------------------------------------------------------
(* The cells between front and rear hold descriptors, none of them twice   *)
(* and none of them in a thread's hands; a thread has a descriptor between *)
(* taking it over and giving it away.                                      *)
RingInv ==
  /\ rear = (front + count) % bufferlen
  /\ \A i \in 0..count-1 : Cell(i) \in Fds
  /\ \A i, j \in 0..count-1 : Cell(i) = Cell(j) => i = j

HandInv ==
  /\ \A t, u \in Threads : connfd[t] # NoFd /\ connfd[t] = connfd[u] => t = u
  /\ \A t \in Threads, i \in 0..count-1 : connfd[t] # Cell(i)
  /\ pc[main] = IF connfd[main] = NoFd THEN "accept" ELSE "insert"
  /\ \A w \in Workers :
       pc[w] \in IF connfd[w] = NoFd THEN {"take"} ELSE {"handle", "wait", "close"}

PoolInv == TypeOK /\ RingInv /\ HandInv

(* The indices stay in the ring, and the counts of children in Nat.        *)
LEMMA TypeStep == PoolInv /\ [Next]_vars => TypeOK'
<1> SUFFICES ASSUME PoolInv, [Next]_vars PROVE TypeOK'
  OBVIOUS
<1> USE DEF PoolInv, TypeOK, Goto, ring, Threads, NoFd
<1>1. CASE Accept
  BY <1>1 DEF Accept
<1>2. CASE AwaitEmpty
  BY <1>2 DEF AwaitEmpty
<1>3. CASE Insert
  <2>1. rear' \in Index
    BY <1>3, Wrapped DEF Insert, Advance, Index
  <2>2. count' \in 0..bufferlen
    BY <1>3 DEF Insert, Full
  <2>3. fill' \subseteq Workers \cup {main}
    BY <1>3 DEF Insert, InsertSignal, Signal
  <2> QED BY <1>3, <2>1, <2>2, <2>3 DEF Insert
<1>4. CASE Spurious
  BY <1>4 DEF Spurious
<1>5. CASE CgiExit
  BY <1>5 DEF CgiExit
<1>6. ASSUME NEW w \in Workers, AwaitFill(w) PROVE TypeOK'
  BY <1>6 DEF AwaitFill
<1>7. ASSUME NEW w \in Workers, Take(w) PROVE TypeOK'
  <2>1. front' \in Index
    BY <1>7, Wrapped DEF Take, Advance, Index
  <2>2. count' \in 0..bufferlen
    BY <1>7 DEF Take, NothingToTake
  <2>3. empty' \subseteq Workers \cup {main}
    BY <1>7 DEF Take, TakeSignal, Signal
  <2> QED BY <1>7, <2>1, <2>2, <2>3 DEF Take
<1>8. ASSUME NEW w \in Workers, ServeStatic(w) PROVE TypeOK'
  BY <1>8 DEF ServeStatic
<1>9. ASSUME NEW w \in Workers, ServeDynamic(w) PROVE TypeOK'
  BY <1>9 DEF ServeDynamic
<1>10. ASSUME NEW w \in Workers, WaitAny(w) PROVE TypeOK'
  BY <1>10 DEF WaitAny, Reaped
<1>11. ASSUME NEW w \in Workers, CloseFd(w) PROVE TypeOK'
  BY <1>11 DEF CloseFd
<1>12. CASE UNCHANGED vars
  BY <1>12 DEF vars
<1> QED
  BY <1>1, <1>2, <1>3, <1>4, <1>5, <1>6, <1>7, <1>8, <1>9, <1>10, <1>11, <1>12
     DEF Next, MainStep, WorkerStep

(* What insert and take do to the cells, counted from front. *)
LEMMA Inserted ==
  ASSUME PoolInv, Insert
  PROVE  /\ count' = count + 1 /\ front' = front
         /\ rear' = (front' + count') % bufferlen
         /\ \A i \in 0..count : Cell(i)' = IF i = count THEN connfd[main] ELSE Cell(i)
<1> USE DEF PoolInv, TypeOK, RingInv, Insert, Full, Cell
<1>1. count \in 0..bufferlen-1 /\ count' = count + 1 /\ front' = front
  OBVIOUS
<1>2. \A i \in 0..bufferlen : (front + i) % bufferlen \in Index
                            /\ (front + i) % bufferlen = IF front + i < bufferlen
                                 THEN front + i ELSE front + i - bufferlen
  BY Wrapped
<1>3. \A i \in 0..count-1 : (front + i) % bufferlen # rear
  BY <1>1, <1>2 DEF Index
<1>4. rear' = (front' + count') % bufferlen
  <2>1. rear \in Index /\ rear' = (rear + 1) % bufferlen
    BY DEF Advance
  <2>2. rear' = IF rear + 1 < bufferlen THEN rear + 1 ELSE rear + 1 - bufferlen
    BY <2>1, Wrapped
  <2>3. rear = IF front + count < bufferlen THEN front + count ELSE front + count - bufferlen
    BY <1>1, <1>2
  <2>4. (front' + count') % bufferlen
          = IF front + (count + 1) < bufferlen THEN front + (count + 1)
            ELSE front + (count + 1) - bufferlen
    <3>1. front' + count' = front + (count + 1) /\ count + 1 \in 0..bufferlen
      BY <1>1
    <3> QED BY <1>2, <3>1
  <2>5. front \in 0..bufferlen-1
    BY DEF Index
  <2> HIDE DEF Insert, RingInv
  <2> QED BY <1>1, <2>2, <2>3, <2>4, <2>5
<1>5. \A i \in 0..count-1 : Cell(i)' = Cell(i)
  BY <1>1, <1>2, <1>3
<1>6. \A i \in 0..count : i = count => Cell(i)' = connfd[main]
  <2>1. (front' + count) % bufferlen = rear
    BY <1>1
  <2> QED BY <1>1, <2>1
<1> QED BY <1>1, <1>4, <1>5, <1>6

(* A worker takes the oldest connection: the others move one place up.     *)
LEMMA Taken ==
  ASSUME PoolInv, NEW w \in Workers, Take(w)
  PROVE  /\ count' = count - 1 /\ count \in 1..bufferlen /\ rear' = rear
         /\ rear' = (front' + count') % bufferlen
         /\ \A i \in 0..count-2 : Cell(i)' = Cell(i + 1)
         /\ connfd'[w] = Cell(0)
<1> USE DEF PoolInv, TypeOK, RingInv, Take, NothingToTake, Cell
<1>1. count' = count - 1 /\ count \in 1..bufferlen /\ rear' = rear
  OBVIOUS
<1>2. \A i \in 0..bufferlen : (front + i) % bufferlen = IF front + i < bufferlen
                                 THEN front + i ELSE front + i - bufferlen
  BY Wrapped
<1>3. front' \in Index /\ front' = IF front + 1 < bufferlen THEN front + 1 ELSE front + 1 - bufferlen
  BY Wrapped DEF Advance, Index
<1>4. \A i \in 0..bufferlen : (front' + i) % bufferlen = IF front' + i < bufferlen
                                 THEN front' + i ELSE front' + i - bufferlen
  BY <1>3, Wrapped
<1>5. \A i \in 0..count-1 : (front' + i) % bufferlen = (front + (i + 1)) % bufferlen
  <2>1. ASSUME NEW i \in 0..count-1
        PROVE  (front' + i) % bufferlen = (front + (i + 1)) % bufferlen
    <3>1. i \in 0..bufferlen /\ i + 1 \in 0..bufferlen /\ front \in 0..bufferlen-1
      BY <1>1 DEF Index
    <3>2. (front' + i) % bufferlen = IF front' + i < bufferlen
                                     THEN front' + i ELSE front' + i - bufferlen
      BY <1>4, <3>1
    <3>3. (front + (i + 1)) % bufferlen = IF front + (i + 1) < bufferlen
                            THEN front + (i + 1) ELSE front + (i + 1) - bufferlen
      BY <1>2, <3>1
    <3> HIDE DEF Take, RingInv
    <3> QED BY <1>3, <3>1, <3>2, <3>3
  <2> QED BY <2>1
<1>6. rear' = (front' + count') % bufferlen
  BY <1>1, <1>5
<1>7. \A i \in 0..count-2 : Cell(i)' = Cell(i + 1)
  BY <1>1, <1>5
<1>8. connfd'[w] = Cell(0)
  <2>1. (front + 0) % bufferlen = front
    BY <1>2 DEF Index
  <2> QED BY <2>1 DEF Threads
<1> QED BY <1>1, <1>6, <1>7, <1>8

(* main() hands over a descriptor that nobody has, and a worker takes it   *)
(* out of the ring before it uses it.                                      *)
LEMMA PoolStep == PoolInv /\ [Next]_vars => PoolInv'
<1> SUFFICES ASSUME PoolInv, [Next]_vars PROVE RingInv' /\ HandInv'
  BY TypeStep DEF PoolInv
<1> USE DEF PoolInv, TypeOK, Goto, Threads, NoFd
<1>a. ASSUME UNCHANGED ring PROVE RingInv' /\ count' = count /\ \A i : Cell(i)' = Cell(i)
  BY <1>a DEF ring, RingInv, Cell
<1>1. CASE Accept
  <2>1. connfd'[main] \in Fds /\ connfd'[main] \notin OpenFds
    BY <1>1 DEF Accept
  <2>2. \A t \in Threads : connfd[t] # connfd'[main]
    BY <2>1 DEF OpenFds, Fds
  <2>3. \A i \in 0..count-1 : Cell(i) # connfd'[main]
    BY <2>1 DEF OpenFds, Queued, Fds
  <2> QED BY <1>1, <1>a, <2>1, <2>2, <2>3 DEF Accept, HandInv, Fds
<1>2. CASE AwaitEmpty
  BY <1>2, <1>a DEF AwaitEmpty, HandInv
<1>3. CASE Insert
  <2>1. RingInv'
    <3>1. connfd[main] \in Fds /\ \A i \in 0..count-1 : connfd[main] # Cell(i)
      BY <1>3 DEF HandInv, Insert
    <3>2. \A i \in 0..count'-1 : Cell(i)' = IF i < count THEN Cell(i) ELSE connfd[main]
      BY <1>3, Inserted
    <3> QED BY <1>3, <3>1, <3>2, Inserted DEF RingInv
  <2>2. /\ connfd' = [connfd EXCEPT ![main] = NoFd]
        /\ pc' = [pc EXCEPT ![main] = "accept"]
    BY <1>3 DEF Insert
  <2>3. ASSUME NEW t \in Threads, NEW i \in 0..count'-1 PROVE connfd'[t] # Cell(i)'
    <3>1. CASE t = main
      <4>1. connfd'[t] = NoFd
        BY <2>2, <3>1
      <4>2. Cell(i)' \in Fds
        BY <2>1 DEF RingInv
      <4> QED BY <4>1, <4>2 DEF Fds
    <3>2. CASE t # main /\ i = count
      <4>1. Cell(i)' = connfd[main] /\ connfd[main] # NoFd
        <5>1. i \in 0..count
          BY <3>2
        <5> QED BY <1>3, <3>2, <5>1, Inserted DEF HandInv, Insert
      <4> QED BY <2>2, <3>2, <4>1 DEF HandInv
    <3>3. CASE t # main /\ i # count
      <4>1. i \in 0..count-1 /\ Cell(i)' = Cell(i)
        BY <1>3, <3>3, Inserted
      <4> QED BY <2>2, <3>3, <4>1 DEF HandInv
    <3> QED BY <3>1, <3>2, <3>3
  <2> QED BY <2>1, <2>2, <2>3 DEF HandInv
<1>4. CASE Spurious
  BY <1>4, <1>a DEF Spurious, HandInv
<1>5. CASE CgiExit
  BY <1>5, <1>a DEF CgiExit, HandInv
<1>6. ASSUME NEW w \in Workers, AwaitFill(w) PROVE RingInv' /\ HandInv'
  BY <1>6, <1>a DEF AwaitFill, HandInv
<1>7. ASSUME NEW w \in Workers, Take(w) PROVE RingInv' /\ HandInv'
  <2>1. RingInv'
    BY <1>7, Taken DEF RingInv
  <2>2. HandInv'
    <3>1. /\ connfd' = [connfd EXCEPT ![w] = Cell(0)]
          /\ pc' = [pc EXCEPT ![w] = "handle"]
          /\ Cell(0) \in Fds
      <4>1. connfd' = [connfd EXCEPT ![w] = connfd'[w]] /\ pc' = [pc EXCEPT ![w] = "handle"]
        BY <1>7 DEF Take
      <4> QED BY <1>7, <4>1, Taken DEF RingInv
    <3>2. ASSUME NEW t \in Threads, NEW i \in 0..count'-1 PROVE connfd'[t] # Cell(i)'
      <4>1. i + 1 \in 0..count-1 /\ 0 \in 0..count-1 /\ Cell(i)' = Cell(i + 1)
        BY <1>7, Taken
      <4>2. Cell(0) # Cell(i + 1)
        BY <4>1 DEF RingInv
      <4> QED BY <3>1, <4>1, <4>2 DEF HandInv
    <3>3. \A t \in Threads : connfd[t] # Cell(0)
      BY <1>7, Taken DEF HandInv
    <3> QED BY <3>1, <3>2, <3>3 DEF HandInv, Fds
  <2> QED BY <2>1, <2>2
<1>8. ASSUME NEW w \in Workers, ServeStatic(w) PROVE RingInv' /\ HandInv'
  BY <1>8, <1>a DEF ServeStatic, HandInv
<1>9. ASSUME NEW w \in Workers, ServeDynamic(w) PROVE RingInv' /\ HandInv'
  BY <1>9, <1>a DEF ServeDynamic, HandInv
<1>10. ASSUME NEW w \in Workers, WaitAny(w) PROVE RingInv' /\ HandInv'
  BY <1>10, <1>a DEF WaitAny, HandInv
<1>11. ASSUME NEW w \in Workers, CloseFd(w) PROVE RingInv' /\ HandInv'
  BY <1>11, <1>a DEF CloseFd, HandInv, RingInv, Fds
<1>12. CASE UNCHANGED vars
  BY <1>12, <1>a DEF vars, ring, HandInv
<1> QED
  BY <1>1, <1>2, <1>3, <1>4, <1>5, <1>6, <1>7, <1>8, <1>9, <1>10, <1>11, <1>12
     DEF Next, MainStep, WorkerStep

(* An empty ring, and nobody has a connection.                             *)
LEMMA PoolInit == Init => PoolInv
  BY Wrapped DEF Init, PoolInv, TypeOK, RingInv, HandInv, Index, Threads, Fds, NoFd

(* Every reachable state of the server satisfies PoolInv.                  *)
LEMMA Invariance == Spec => []PoolInv
  BY PoolInit, PoolStep, PTL DEF Spec

-----------------------------------------------------------------------------
(* As many connections wait as count says: front, rear and count never     *)
(* disagree, and no cell is handed out twice.                              *)
LEMMA QueuedCount == PoolInv => Cardinality(Queued) = count
<1> SUFFICES ASSUME PoolInv PROVE Cardinality(Queued) = count
  OBVIOUS
<1> DEFINE f == [i \in 0..count-1 |-> Cell(i)]
<1>1. f \in Bijection(0..count-1, Queued)
  <2>1. f \in [0..count-1 -> Queued] /\ \A q \in Queued : \E i \in 0..count-1 : f[i] = q
    BY DEF Queued
  <2>2. \A i, j \in 0..count-1 : f[i] = f[j] => i = j
    BY DEF PoolInv, RingInv
  <2> QED BY <2>1, <2>2 DEF Bijection, Injection, Surjection, IsInjective
<1>2. IsFiniteSet(0..count-1) /\ Cardinality(0..count-1) = count
  BY FS_Interval DEF PoolInv, TypeOK
<1> QED BY <1>1, <1>2, FS_Bijection DEF ExistsBijection

(* main() and the workers never hold the same descriptor, and none that is *)
(* still in the ring.                                                      *)
THEOREM OneOwnerCorrect == Spec => []OneOwner
<1>1. PoolInv => OneOwner
  BY QueuedCount DEF PoolInv, HandInv, OneOwner, Queued
<1> QED BY <1>1, Invariance, PTL

(* fork() and Wait(NULL) of several workers: there is always a child left  *)
(* for a worker that waits, although a worker reaps whichever ends first.  *)
THEOREM EnoughChildrenCorrect == Spec => []EnoughChildren
<1> DEFINE Waiting(f) == {w \in Workers : f[w] = "wait"}
<1>a. \A f : IsFiniteSet(Waiting(f)) /\ Cardinality(Waiting(f)) \in Nat
  BY FS_Subset, FS_CardinalityType
<1>1. Init => EnoughChildren
  <2>1. Init => Waiting(pc) = {}
    BY DEF Init, Threads
  <2> QED BY <2>1, FS_EmptySet DEF Init, EnoughChildren
<1>2. PoolInv /\ EnoughChildren /\ [Next]_vars => EnoughChildren'
  <2> SUFFICES ASSUME PoolInv, EnoughChildren, [Next]_vars PROVE EnoughChildren'
    OBVIOUS
  <2> USE DEF EnoughChildren, Goto
  <2>0. pc \in [Threads -> {"accept", "insert", "take", "handle", "wait", "close"}]
        /\ running \in Nat /\ zombies \in Nat
    BY DEF PoolInv, TypeOK
  <2>1. ASSUME Accept \/ MainStep \/ Spurious \/ CgiExit \/ UNCHANGED vars
        PROVE  EnoughChildren'
    <3>1. Waiting(pc') = Waiting(pc)
      BY <2>0, <2>1 DEF Accept, MainStep, AwaitEmpty, Insert, Spurious, CgiExit, vars, Threads
    <3>2. zombies' + running' = zombies + running
      BY <2>0, <2>1 DEF Accept, MainStep, AwaitEmpty, Insert, Spurious, CgiExit, vars
    <3> QED BY <3>1, <3>2
  <2>2. ASSUME NEW w \in Workers, ServeDynamic(w) PROVE EnoughChildren'
    <3>1. Waiting(pc') = Waiting(pc) \cup {w} /\ w \notin Waiting(pc)
      BY <2>0, <2>2 DEF ServeDynamic, Threads
    <3>2. Cardinality(Waiting(pc')) = Cardinality(Waiting(pc)) + 1
      <4>1. IsFiniteSet(Waiting(pc))
        BY <1>a
      <4> HIDE DEF Waiting
      <4> QED BY <3>1, <4>1, FS_AddElement
    <3> QED BY <2>0, <2>2, <3>2 DEF ServeDynamic
  <2>3. ASSUME NEW w \in Workers, WaitAny(w) PROVE EnoughChildren'
    <3>1. Waiting(pc') = Waiting(pc) \ {w} /\ w \in Waiting(pc)
      BY <2>0, <2>3 DEF WaitAny, Threads
    <3>2. Cardinality(Waiting(pc')) = Cardinality(Waiting(pc)) - 1
      <4>1. IsFiniteSet(Waiting(pc))
        BY <1>a
      <4> HIDE DEF Waiting
      <4> QED BY <3>1, <4>1, FS_RemoveElement
    <3> QED BY <2>0, <2>3, <3>2 DEF WaitAny, Reaped
  <2>4. ASSUME NEW w \in Workers, AwaitFill(w) \/ Take(w) \/ ServeStatic(w) \/ CloseFd(w)
        PROVE  EnoughChildren'
    <3>1. Waiting(pc') = Waiting(pc)
      BY <2>0, <2>4 DEF AwaitFill, Take, ServeStatic, CloseFd, Threads
    <3>2. zombies' + running' = zombies + running
      BY <2>4 DEF AwaitFill, Take, ServeStatic, CloseFd
    <3> QED BY <3>1, <3>2
  <2> QED BY <2>1, <2>2, <2>3, <2>4 DEF Next, WorkerStep
<1> QED BY <1>1, <1>2, Invariance, PTL DEF Spec

-----------------------------------------------------------------------------
(* The refinement: each critical section is one step of the queue, and     *)
(* what happens outside of the lock is none.                               *)
Held == {connfd[main]} \ {NoFd}
InRing == [i \in 1..count |-> Cell(i - 1)]
Serving == {connfd[w] : w \in Workers} \ {NoFd}

(* Each step of the server is a step of the queue or leaves it alone.      *)
LEMMA QueueStep ==
  ASSUME PoolInv, PoolInv', [Next]_vars
  PROVE  [Queue!QNext]_(Queue!qvars)
<1> USE DEF PoolInv, TypeOK, Threads, Goto
<1>0. InRing \in Seq(Fds) /\ Len(InRing) = count
  BY DEF InRing, RingInv
<1>a. ASSUME UNCHANGED ring PROVE InRing' = InRing
  BY <1>a DEF InRing, Cell, ring
<1>b. ASSUME UNCHANGED <<ring, connfd>> PROVE UNCHANGED (Queue!qvars)
  BY <1>a, <1>b DEF Queue!qvars, InRing, Cell, ring
<1>1. CASE Accept
  <2> DEFINE f == connfd'[main]
  <2>1. f \in Fds \ OpenFds /\ connfd' = [connfd EXCEPT ![main] = f] /\ connfd[main] = NoFd
    BY <1>1 DEF Accept, HandInv
  <2>2. f \notin Held /\ f \notin Serving /\ \A i \in 1..count : InRing[i] # f
    BY <2>1 DEF OpenFds, Queued, Held, Serving, InRing, Fds, NoFd
  <2>3. InRing' = InRing /\ Serving' = Serving /\ Held' = Held \cup {f}
    BY <1>1, <1>a, <2>1 DEF Accept, Serving, Held, Fds, NoFd
  <2>4. Queue!QAccept(f)
    BY <1>0, <2>2, <2>3 DEF Queue!QAccept, Queue!Open, Queue!Waiting, Held, InRing, Serving
  <2> QED BY <2>1, <2>4 DEF Queue!QNext
<1>3. CASE Insert
  <2> DEFINE f == connfd[main]
  <2>1. f \in Fds /\ count < bufferlen /\ connfd' = [connfd EXCEPT ![main] = NoFd]
    BY <1>3 DEF Insert, Full, HandInv
  <2>2. InRing' = Append(InRing, f)
    <3>1. InRing' = [i \in 1..count+1 |-> IF i = count + 1 THEN f ELSE Cell(i - 1)]
      BY <1>3, Inserted DEF InRing
    <3> QED BY <1>0, <3>1 DEF InRing
  <2>3. Held' = Held \ {f} /\ f \in Held /\ Serving' = Serving
    BY <2>1 DEF Held, Serving, Fds, NoFd
  <2>4. Queue!QEnqueue(f)
    BY <1>0, <2>1, <2>2, <2>3 DEF Queue!QEnqueue, Held, InRing, Serving
  <2> QED BY <2>1, <2>4 DEF Queue!QNext
<1>7. ASSUME NEW w \in Workers, Take(w) PROVE Queue!QNext
  <2>1. /\ count' = count - 1 /\ count > 0
        /\ connfd' = [connfd EXCEPT ![w] = Cell(0)] /\ Cell(0) \in Fds
        /\ connfd[w] = NoFd
    <3>1. connfd' = [connfd EXCEPT ![w] = connfd'[w]] /\ pc[w] = "take"
      BY <1>7 DEF Take
    <3>2. connfd[w] = NoFd
      BY <3>1 DEF HandInv
    <3> QED BY <1>7, <3>1, <3>2, Taken DEF RingInv
  <2>2. InRing # <<>> /\ InRing' = Tail(InRing) /\ Head(InRing) = Cell(0)
    <3>1. InRing' = [i \in 1..count-1 |-> Cell(i)]
      BY <1>7, Taken DEF InRing
    <3> QED BY <1>0, <2>1, <3>1 DEF InRing
  <2>3. Held' = Held /\ Serving' = Serving \cup {Cell(0)}
    BY <2>1 DEF Held, Serving, Fds, NoFd
  <2>4. Queue!QTake
    BY <2>2, <2>3 DEF Queue!QTake, Held, InRing, Serving
  <2> QED BY <2>4 DEF Queue!QNext
<1>11. ASSUME NEW w \in Workers, CloseFd(w) PROVE Queue!QNext
  <2>0. PICK f \in Fds : f = connfd[w]
    BY <1>11 DEF CloseFd, HandInv
  <2>1. connfd' = [connfd EXCEPT ![w] = NoFd]
    BY <1>11 DEF CloseFd
  <2>2. InRing' = InRing /\ Held' = Held /\ f \in Serving /\ Serving' = Serving \ {f}
    BY <1>11, <1>a, <2>0, <2>1 DEF CloseFd, Held, Serving, HandInv, Fds, NoFd
  <2>3. Queue!QClose(f)
    BY <1>11, <2>2 DEF Queue!QClose, Held, InRing, Serving
  <2> QED BY <2>3 DEF Queue!QNext
<1>12. ASSUME NEW w \in Workers, AwaitFill(w) \/ ServeStatic(w) \/ ServeDynamic(w) \/ WaitAny(w)
       PROVE UNCHANGED (Queue!qvars)
  BY <1>b, <1>12 DEF AwaitFill, ServeStatic, ServeDynamic, WaitAny
<1>13. CASE AwaitEmpty \/ Spurious \/ CgiExit \/ UNCHANGED vars
  BY <1>b, <1>13 DEF AwaitEmpty, Spurious, CgiExit, vars, ring
<1> QED
  BY <1>1, <1>3, <1>7, <1>11, <1>12, <1>13 DEF Next, MainStep, WorkerStep

(* What the workers take is what main() accepted, first in first out, each *)
(* connection once, and never more than bufferlen wait.                    *)
THEOREM ServerIsQueue == Spec => ImplementsQueue
<1>1. Init => Queue!QInit
  BY DEF Init, Queue!QInit, Threads, NoFd
<1>2. PoolInv /\ PoolInv' /\ [Next]_vars => [Queue!QNext]_(Queue!qvars)
  BY QueueStep
<1> QED BY <1>1, <1>2, Invariance, PTL DEF Spec, ImplementsQueue, Queue!QSpec
=============================================================================
