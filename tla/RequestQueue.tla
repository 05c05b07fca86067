----------------------------- MODULE RequestQueue -----------------------------
(***************************************************************************)
(* What the web server of Project4-1 promises about connections: an        *)
(* accepted connection waits in a bounded first-in first-out queue, is     *)
(* taken by one worker, and is closed once, by that worker.                *)
(***************************************************************************)
EXTENDS Integers, Sequences

CONSTANTS Fds,        \* descriptors of connections
          Capacity    \* connections that may wait

VARIABLES held,       \* the connections accepted and not yet queued
          waiting,    \* the queue
          served      \* the connections being served

qvars == <<held, waiting, served>>

Waiting == {waiting[i] : i \in 1..Len(waiting)}
Open == held \cup served \cup Waiting

QInit == held = {} /\ waiting = <<>> /\ served = {}

QAccept(f) == f \notin Open /\ held' = held \cup {f} /\ UNCHANGED <<waiting, served>>

QEnqueue(f) ==
  /\ f \in held /\ Len(waiting) < Capacity
  /\ held' = held \ {f}
  /\ waiting' = Append(waiting, f)
  /\ UNCHANGED served

QTake ==
  /\ waiting # <<>>
  /\ waiting' = Tail(waiting)
  /\ served' = served \cup {Head(waiting)}
  /\ UNCHANGED held

QClose(f) == f \in served /\ served' = served \ {f} /\ UNCHANGED <<held, waiting>>

QNext == QTake \/ \E f \in Fds : QAccept(f) \/ QEnqueue(f) \/ QClose(f)

QSpec == QInit /\ [][QNext]_qvars
=============================================================================
