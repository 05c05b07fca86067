------------------------------- MODULE ShmStats -------------------------------
(***************************************************************************)
(* The statistics server and its clients: shm_server.c makes a shared      *)
(* segment under one name, with a mutex and one 64-byte slot per client;   *)
(* shm_client.c takes a slot under the mutex and gives it back from its    *)
(* signal handler.  Every access to the mutex and every slot visited is a  *)
(* step.  A segment lives on for who mapped it after its name is gone.     *)
(*                                                                         *)
(* Left out: the text and the times in a slot, which a client writes only  *)
(* where it finds its own pid; the printed lists; a second signal during   *)
(* the handler; the reuse of the pid of a dead process.                    *)
(***************************************************************************)
EXTENDS Integers, FiniteSets

CONSTANTS Clients,    \* the client processes, named by their pids
          Observed,   \* those of them whose leaving LeaveEnds is about
          maxClient,  \* slots of a segment
          MaxSegs     \* bound: segments that the server creates

Zero == "0"        \* a pid in a new segment
NoPid == "-1"      \* a free slot

ShmStatsAssumption ==
  /\ IsFiniteSet(Clients) /\ Observed \subseteq Clients
  /\ Zero \notin Clients /\ NoPid \notin Clients   \* a pid is positive
  /\ maxClient \in Nat \ {0}
  /\ MaxSegs \in Nat \ {0}

ASSUME ShmStatsAssumption

Slots == 1..maxClient
Segs == 1..MaxSegs
NoSeg == 0

VARIABLES name,       \* the segment called "huawei"
          created,    \* number of segments made so far
          pid,        \* per segment and slot
          locked,     \* per segment, the mutex
          spc, si,    \* the server: where it is, the slot it visits
          cpc, cseg, ci,   \* the clients: the same, and the mapped segment
          ready,      \* per segment: the server has initialized it
          disturbed   \* per segment: somebody mapped it before it was ready,
                      \* or it was initialized again under a client

server == <<name, created, spc, si>>
clients == <<cpc, cseg, ci>>
segments == <<pid, locked>>
history == <<ready, disturbed>>
shmVars == <<server, clients, segments, history>>

Critical == {"scan", "write", "unlock", "exit_scan", "exit_unlock"}
Registered == {"unlock", "loop", "exit_lock"}
Over == {"new", "left", "dead"}

ShmTypeOK ==
  /\ name \in Segs \cup {NoSeg} /\ created \in 0..MaxSegs
  /\ pid \in [Segs -> [Slots -> Clients \cup {Zero, NoPid}]]
  /\ locked \in [Segs -> BOOLEAN]
  /\ spc \in {"off", "mutex", "init", "serving"} /\ si \in 1..maxClient+1
  /\ cpc \in [Clients -> Critical \cup Registered \cup Over \cup {"lock"}]
  /\ cseg \in [Clients -> Segs \cup {NoSeg}]
  /\ ci \in [Clients -> 1..maxClient+1]
  /\ ready \in [Segs -> BOOLEAN] /\ disturbed \in [Segs -> BOOLEAN]

ShmInit ==
  /\ name = NoSeg /\ created = 0
  /\ pid = [g \in Segs |-> [i \in Slots |-> Zero]]
  /\ locked = [g \in Segs |-> FALSE]
  /\ spc = "off" /\ si = 1
  /\ cpc = [c \in Clients |-> "new"]
  /\ cseg = [c \in Clients |-> NoSeg]
  /\ ci = [c \in Clients |-> 1]
  /\ ready = [g \in Segs |-> FALSE]
  /\ disturbed = [g \in Segs |-> FALSE]

Goto(c, label) == cpc' = [cpc EXCEPT ![c] = label]
Users(g) == {c \in Clients : cseg[c] = g /\ cpc[c] \notin Over}

-----------------------------------------------------------------------------
(* shm_open(O_CREAT), ftruncate(), mmap(): a new segment, or the one that  *)
(* a killed server left under the name.                                    *)
ServerOpen ==
  /\ spc = "off"
  /\ IF name = NoSeg
       THEN created < MaxSegs /\ created' = created + 1 /\ name' = created'
       ELSE UNCHANGED <<created, name>>
  /\ spc' = "mutex"
  /\ ready' = [ready EXCEPT ![name'] = FALSE]
  /\ disturbed' = [disturbed EXCEPT ![name'] = @ \/ Users(name') # {}]
  /\ UNCHANGED <<si, clients, segments>>

ServerMutex ==
  /\ spc = "mutex"
  /\ locked' = [locked EXCEPT ![name] = FALSE]
  /\ spc' = "init"
  /\ UNCHANGED <<name, created, si, clients, pid, history>>

NextSlot_Two(i) == i + 2
NextSlot(i) == i + 1

ServerSlot ==
  /\ spc = "init"
  /\ IF si <= maxClient
       THEN /\ pid' = [pid EXCEPT ![name][si] = NoPid]
            /\ si' = si + 1
            /\ UNCHANGED <<spc, ready>>
       ELSE /\ spc' = "serving" /\ si' = 1
            /\ ready' = [ready EXCEPT ![name] = TRUE]
            /\ UNCHANGED pid
  /\ UNCHANGED <<name, created, clients, locked, disturbed>>

(* exit_handler() unlinks the name; a SIGKILL leaves it. *)
ServerExit ==
  /\ spc # "off"
  /\ spc' = "off"
  /\ name' \in {name, NoSeg}
  /\ si' = 1
  /\ UNCHANGED <<created, clients, segments, history>>

-----------------------------------------------------------------------------
ClientOpen(c) ==
  /\ cpc[c] = "new"
  /\ IF name = NoSeg
       THEN Goto(c, "left") /\ UNCHANGED <<cseg, disturbed>>
       ELSE /\ Goto(c, "lock")
            /\ cseg' = [cseg EXCEPT ![c] = name]
            /\ disturbed' = [disturbed EXCEPT ![name] = @ \/ ~ready[name]]
  /\ UNCHANGED <<server, ci, segments, ready>>

Acquirable(g) == ~locked[g]

(* pthread_mutex_lock(), by main() or by the handler.  The loop that       *)
(* follows starts at slot 1: ci is 1 wherever no loop is running.          *)
Lock(c, from, to) ==
  /\ cpc[c] = from
  /\ Acquirable(cseg[c])
  /\ locked' = [locked EXCEPT ![cseg[c]] = TRUE]
  /\ Goto(c, to)
  /\ UNCHANGED <<server, cseg, ci, pid, history>>

Unlock(c, from, to) ==
  /\ cpc[c] = from
  /\ locked' = [locked EXCEPT ![cseg[c]] = FALSE]
  /\ ci' = [ci EXCEPT ![c] = 1]
  /\ Goto(c, to)
  /\ UNCHANGED <<server, cseg, pid, history>>

Slot(c) == pid[cseg[c]][ci[c]]
Vacant_Any(v) == TRUE
Vacant(v) == v = NoPid

Scan(c) ==
  /\ cpc[c] = "scan" /\ ci[c] <= maxClient
  /\ IF Vacant(Slot(c))
       THEN Goto(c, "write") /\ UNCHANGED ci
       ELSE ci' = [ci EXCEPT ![c] = NextSlot(@)] /\ UNCHANGED cpc
  /\ UNCHANGED <<server, cseg, segments, history>>

Write(c) ==
  /\ cpc[c] = "write"
  /\ pid' = [pid EXCEPT ![cseg[c]][ci[c]] = c]
  /\ Goto(c, "unlock")
  /\ UNCHANGED <<server, cseg, ci, locked, history>>

(* No slot is free: unlock and exit. *)
AfterRefusal_Locked == TRUE
AfterRefusal == FALSE

ClientRefused(c) ==
  /\ cpc[c] = "scan" /\ ci[c] > maxClient
  /\ locked' = [locked EXCEPT ![cseg[c]] = AfterRefusal]
  /\ ci' = [ci EXCEPT ![c] = 1]
  /\ Goto(c, "left")
  /\ UNCHANGED <<server, cseg, pid, history>>

(* SIGINT or SIGTERM enters exit_handler(), once the handlers are there. *)
Signal(c) ==
  /\ cpc[c] = "loop"
  /\ Goto(c, "exit_lock")
  /\ UNCHANGED <<server, cseg, ci, segments, history>>

Emptied(c) == NoPid

ExitScan(c) ==
  /\ cpc[c] = "exit_scan"
  /\ \/ ci[c] > maxClient /\ Goto(c, "exit_unlock") /\ UNCHANGED <<ci, pid>>
     \/ /\ ci[c] <= maxClient /\ Slot(c) = c
        /\ pid' = [pid EXCEPT ![cseg[c]][ci[c]] = Emptied(c)]
        /\ Goto(c, "exit_unlock")
        /\ UNCHANGED ci
     \/ /\ ci[c] <= maxClient /\ Slot(c) # c
        /\ ci' = [ci EXCEPT ![c] = NextSlot(@)]
        /\ UNCHANGED <<cpc, pid>>
  /\ UNCHANGED <<server, cseg, locked, history>>

(* A signal before the handlers are installed, or SIGKILL at any time: the *)
(* mutex and the slot stay as they are.                                    *)
ClientDie(c) ==
  /\ cpc[c] \notin Over
  /\ ci' = [ci EXCEPT ![c] = 1]
  /\ Goto(c, "dead")
  /\ UNCHANGED <<server, cseg, segments, history>>

ClientStep(c) ==
  \/ Lock(c, "lock", "scan") \/ Scan(c) \/ Write(c) \/ ClientRefused(c)
  \/ Unlock(c, "unlock", "loop")
  \/ Lock(c, "exit_lock", "exit_scan") \/ ExitScan(c)
  \/ Unlock(c, "exit_unlock", "left")

ShmNext ==
  \/ ServerOpen \/ ServerMutex \/ ServerSlot \/ ServerExit
  \/ \E c \in Clients : ClientOpen(c) \/ ClientStep(c) \/ Signal(c) \/ ClientDie(c)

ShmSpec == ShmInit /\ [][ShmNext]_shmVars

(* A client runs, and among the waiters for the mutex none waits for ever. *)
ShmFairSpec == ShmSpec /\ \A c \in Clients : SF_shmVars(ClientStep(c))

-----------------------------------------------------------------------------
(* One client at a time scans a segment. *)
MutualExclusion ==
  \A c, d \in Clients :
    /\ cpc[c] \in Critical /\ cpc[d] \in Critical /\ cseg[c] = cseg[d]
    /\ ~disturbed[cseg[c]]
    => c = d

(* While a segment is initialized before anybody maps it, its mutex keeps  *)
(* two clients from scanning it at once; a registered client has one slot, *)
(* and keeps it whoever comes and goes;                                    *)
(* who left through the handler ("Client leaving; needs to reset its       *)
(* segment"), or was refused, occupies none.                               *)
OwnSlot ==
  /\ ShmTypeOK
  /\ MutualExclusion
  /\ \A c \in Clients : cseg[c] # NoSeg /\ ~disturbed[cseg[c]] =>
       LET own == {i \in Slots : pid[cseg[c]][i] = c}
       IN /\ cpc[c] \in Registered => Cardinality(own) = 1
          /\ cpc[c] = "left" => own = {}

(* A client is turned away only from a full segment: no slot it has passed *)
(* became free before it gave up.                                          *)
RefusedOnlyIfFull ==
  [][\A c \in Clients :
       cpc[c] = "scan" /\ cpc'[c] = "left" /\ ~disturbed[cseg[c]] =>
         \A i \in Slots : pid[cseg[c]][i] # NoPid]_shmVars

(* A client that is asked to leave gets the mutex and leaves, unless one   *)
(* died inside of the critical section and took the mutex with it.         *)
Jammed(g) == g # NoSeg /\ locked[g] /\ \A c \in Users(g) : cpc[c] \notin Critical
LeaveEnds ==
  \A c \in Observed :
    cpc[c] = "exit_lock" ~>
      cpc[c] \in {"left", "dead"} \/ \E d \in Clients : cpc[d] = "dead" /\ Jammed(cseg[c])
=============================================================================
