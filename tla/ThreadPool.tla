------------------------------ MODULE ThreadPool ------------------------------
(***************************************************************************)
(* The thread-pool web server of Project4-1: main() accepts connections    *)
(* into a ring of bufferlen descriptors, the workers of processRequest()   *)
(* take them out, serve them outside of the lock and close them.  A        *)
(* critical section under the mutex is one step; a thread in a condition   *)
(* variable's wait set is woken by a signal or spuriously and then tests   *)
(* its condition again.  Serving a dynamic page forks a CGI process and    *)
(* waits with Wait(NULL), that is for any child of the server.             *)
(*                                                                         *)
(* Left out: the bytes of a request and of its response, and the server's  *)
(* exit when a system call fails.                                          *)
(***************************************************************************)
EXTENDS Integers, FiniteSets

CONSTANTS Workers,     \* the threads of the pool; threadnum of them
          bufferlen,   \* length of the ring
          MaxFd        \* bound: descriptors 1..MaxFd are given to connections

main == "main"

ThreadPoolAssumption ==
  /\ IsFiniteSet(Workers) /\ Workers # {} /\ main \notin Workers
  /\ bufferlen \in Nat \ {0}
  /\ MaxFd \in Nat \ {0}

ASSUME ThreadPoolAssumption

Fds == 1..MaxFd
NoFd == 0
Threads == Workers \cup {main}

VARIABLES workBuffer, front, rear, count,
          pc, connfd,     \* of main and of each worker
          fill, empty,    \* the threads waiting on each condition
          running,        \* number of CGI processes that have not exited
          zombies         \* CGI processes that exited and were not waited for

ring == <<workBuffer, front, rear, count>>
vars == <<workBuffer, front, rear, count, pc, connfd, fill, empty, running, zombies>>

Index == 0..bufferlen-1

TypeOK ==
  /\ workBuffer \in [Index -> Fds \cup {NoFd}]
  /\ front \in Index /\ rear \in Index /\ count \in 0..bufferlen
  /\ pc \in [Threads -> {"accept", "insert", "take", "handle", "wait", "close"}]
  /\ connfd \in [Threads -> Fds \cup {NoFd}]
  /\ fill \subseteq Threads /\ empty \subseteq Threads
  /\ running \in Nat /\ zombies \in Nat

(* main() up to its loop; malloc() leaves the ring's content open, and     *)
(* nothing reads a cell before it was written.                             *)
Init ==
  /\ workBuffer = [i \in Index |-> NoFd]
  /\ front = 0 /\ rear = 0 /\ count = 0
  /\ pc = [t \in Threads |-> IF t = main THEN "accept" ELSE "take"]
  /\ connfd = [t \in Threads |-> NoFd]
  /\ fill = {} /\ empty = {}
  /\ running = 0
  /\ zombies = 0

Goto(t, label) == pc' = [pc EXCEPT ![t] = label]

Cell(i) == workBuffer[(front + i) % bufferlen]    \* counted from front
Queued == {Cell(i) : i \in 0..count-1}
OpenFds == (Queued \cup {connfd[t] : t \in Threads}) \ {NoFd}

(* Cond_signal(): one thread of the wait set, if there is one, leaves it.  *)
(* Cond_wait() puts t into the set instead.                                *)
Signal(set) == IF set = {} THEN {set} ELSE {set \ {t} : t \in set}

(* Accept(): the kernel gives the lowest descriptor that is free. *)
Accept ==
  /\ pc[main] = "accept"
  /\ \E f \in Fds \ OpenFds :
       /\ \A g \in Fds \ OpenFds : f <= g
       /\ connfd' = [connfd EXCEPT ![main] = f]
  /\ Goto(main, "insert")
  /\ UNCHANGED <<ring, fill, empty, running, zombies>>

Full == count = bufferlen

AwaitEmpty ==
  /\ pc[main] = "insert" /\ main \notin empty
  /\ Full
  /\ empty' = empty \cup {main}
  /\ UNCHANGED <<ring, pc, connfd, fill, running, zombies>>

Advance_NoWrap(i) == IF i = bufferlen - 1 THEN i ELSE i + 1
Advance(i) == (i + 1) % bufferlen

InsertSignal_None == {fill}
InsertSignal == Signal(fill)

Insert ==
  /\ pc[main] = "insert" /\ main \notin empty
  /\ ~Full
  /\ workBuffer' = [workBuffer EXCEPT ![rear] = connfd[main]]
  /\ rear' = Advance(rear)
  /\ count' = count + 1
  /\ fill' \in InsertSignal
  /\ connfd' = [connfd EXCEPT ![main] = NoFd]
  /\ Goto(main, "accept")
  /\ UNCHANGED <<front, empty, running, zombies>>

NothingToTake_Never == FALSE
NothingToTake == count = 0

AwaitFill(w) ==
  /\ pc[w] = "take" /\ w \notin fill
  /\ NothingToTake
  /\ fill' = fill \cup {w}
  /\ UNCHANGED <<ring, pc, connfd, empty, running, zombies>>

TakeSignal == Signal(empty)

Take(w) ==
  /\ pc[w] = "take" /\ w \notin fill
  /\ ~NothingToTake
  /\ connfd' = [connfd EXCEPT ![w] = workBuffer[front]]
  /\ front' = Advance(front)
  /\ count' = count - 1
  /\ empty' \in TakeSignal
  /\ Goto(w, "handle")
  /\ UNCHANGED <<workBuffer, rear, fill, running, zombies>>

(* pthread_cond_wait() may return without a signal. *)
Spurious ==
  /\ \/ \E t \in fill : fill' = fill \ {t} /\ UNCHANGED empty
     \/ \E t \in empty : empty' = empty \ {t} /\ UNCHANGED fill
  /\ UNCHANGED <<ring, pc, connfd, running, zombies>>

(* requestHandle(): an error or a static page needs nothing further; a     *)
(* dynamic page is requestServeDynamic().                                  *)
ServeStatic(w) ==
  /\ pc[w] = "handle"
  /\ Goto(w, "close")
  /\ UNCHANGED <<ring, connfd, fill, empty, running, zombies>>

ServeDynamic(w) ==
  /\ pc[w] = "handle"
  /\ running' = running + 1
  /\ Goto(w, "wait")
  /\ UNCHANGED <<ring, connfd, fill, empty, zombies>>

CgiExit ==
  /\ running > 0
  /\ running' = running - 1
  /\ zombies' = zombies + 1
  /\ UNCHANGED <<ring, pc, connfd, fill, empty>>

Reaped_All(n) == 0
Reaped(n) == n - 1

(* Wait(NULL): any child will do, also another worker's. *)
WaitAny(w) ==
  /\ pc[w] = "wait" /\ zombies > 0
  /\ zombies' = Reaped(zombies)
  /\ Goto(w, "close")
  /\ UNCHANGED <<ring, connfd, fill, empty, running>>

CloseFd(w) ==
  /\ pc[w] = "close"
  /\ connfd' = [connfd EXCEPT ![w] = NoFd]
  /\ Goto(w, "take")
  /\ UNCHANGED <<ring, fill, empty, running, zombies>>

MainStep == AwaitEmpty \/ Insert
WorkerStep(w) ==
  \/ AwaitFill(w) \/ Take(w) \/ ServeStatic(w) \/ ServeDynamic(w)
  \/ WaitAny(w) \/ CloseFd(w)

Next ==
  \/ Accept \/ MainStep \/ Spurious \/ CgiExit
  \/ \E w \in Workers : WorkerStep(w)

Spec == Init /\ [][Next]_vars

(* Threads run, and CGI processes end (output.c sleeps for a given time).  *)
(* Clients need not connect, and no wakeup needs to be spurious.           *)
Fairness ==
  /\ WF_vars(MainStep) /\ WF_vars(CgiExit)
  /\ \A w \in Workers : WF_vars(WorkerStep(w))

FairSpec == Spec /\ Fairness

-----------------------------------------------------------------------------
(* The server implements the queue of connections: the mapping reads the   *)
(* ring from front, count cells long.                                      *)
Queue == INSTANCE RequestQueue WITH
           Fds <- Fds, Capacity <- bufferlen,
           held <- {connfd[main]} \ {NoFd},
           waiting <- [i \in 1..count |-> Cell(i - 1)],
           served <- {connfd[w] : w \in Workers} \ {NoFd}

ImplementsQueue == Queue!QSpec

(* A descriptor is in one place: in the hands of one thread or in one cell *)
(* of the ring, so that no connection is served twice or closed under      *)
(* another thread.                                                         *)
OneOwner ==
  /\ TypeOK
  /\ \A t, u \in Threads : connfd[t] # NoFd /\ connfd[t] = connfd[u] => t = u
  /\ \A t \in Threads : connfd[t] \notin Queued
  /\ Cardinality(Queued) = count

(* Wait(NULL) never fails, which would end the server: there are as many   *)
(* children to wait for as workers that wait, whoever forked them.         *)
EnoughChildren ==
  Cardinality({w \in Workers : pc[w] = "wait"}) = zombies + running

(* No signal is lost between main() and the workers: an accepted           *)
(* connection reaches the ring, and one in the ring reaches a worker.      *)
Served ==
  \A f \in Fds :
    /\ connfd[main] = f ~> f \in Queued
    /\ f \in Queued ~> \E w \in Workers : connfd[w] = f
=============================================================================
