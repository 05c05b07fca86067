----------------------------- MODULE BufferCache -----------------------------
(***************************************************************************)
(* The buffer cache and the IDE driver below it (kernel/bio.c, ide.c; the  *)
(* same files in the four kernels).  A critical section under bcache.lock  *)
(* or idelock is one step.  A buffer's contents are a count: how many      *)
(* times the sector was updated.  Sleeping in bget() and in iderw() is on  *)
(* the same channel, the buffer, and a kill() may end either sleep early.  *)
(*                                                                         *)
(* The file system above (fs.c) appears as the programs it runs on the     *)
(* cache: sequences of bread(), bwrite() and brelse(), the last two of the *)
(* buffer read last.  An interrupt with an empty queue changes nothing.    *)
(***************************************************************************)
EXTENDS Integers, Sequences, SequencesExt

CONSTANTS Procs, NBUF, Sectors,
          Programs,     \* what each process does with the cache
          NoSector, NoOne, Junk,
          MaxUpdates,   \* bound: updates of one sector
          MaxErrors     \* bound: errors of the drive

BufferCacheAssumption ==
  /\ NBUF \in Nat \ {0}
  /\ MaxUpdates \in Nat /\ MaxErrors \in Nat
  /\ NoSector \notin Sectors /\ NoOne \notin Procs
  /\ Junk \notin Nat

ASSUME BufferCacheAssumption

Bufs == 1..NBUF
NoBuf == 0

Call(op, s) == [op |-> op, sector |-> s]
Bread(s) == Call("bread", s)
Bwrite == Call("bwrite", NoSector)
Brelse == Call("brelse", NoSector)

(* readsb(); iupdate(), as bzero(); balloc() of a block of the bitmap m;    *)
(* bmap() of a new block in the indirect block i, which it holds meanwhile. *)
readsb(sup) == <<Bread(sup), Brelse>>
iupdate(s) == <<Bread(s), Bwrite, Brelse>>
balloc(sup, m) == readsb(sup) \o <<Bread(m), Bwrite, Brelse>>
bmap(i, sup, m) == <<Bread(i)>> \o balloc(sup, m) \o <<Bwrite, Brelse>>

(* The programs keep the order of the calls, give back what they took and  *)
(* have at most two buffers in hand.                                       *)
Calls == {Bread(s) : s \in Sectors} \cup {Bwrite, Brelse}
Before(prog, i, op) == Cardinality({j \in 1..(i - 1) : prog[j].op = op})
InHand(prog, i) == Before(prog, i, "bread") - Before(prog, i, "brelse")
ProgramsAssumption ==
  \A p \in Procs : \A prog \in Programs[p] :
    /\ prog \in Seq(Calls) /\ InHand(prog, Len(prog) + 1) = 0
    /\ \A i \in 1..Len(prog) : /\ InHand(prog, i) \in 0..2
                               /\ prog[i].op # "bread" => InHand(prog, i) > 0

ASSUME ProgramsAssumption

VARIABLES lru,          \* the list from head.next to head.prev
          buf, idequeue,
          disk,         \* contents of the sectors on the disk
          drive,        \* the command the drive has, and how far it is
          todo, held,   \* calls a process has yet to make, buffers it has
          pc,           \* "run", or where it is inside of iderw()
          chan,         \* the buffer it sleeps on
          panicked,
          spoiled       \* sectors struck by a drive error

vars == <<lru, buf, idequeue, disk, drive, todo, held, pc, chan, panicked, spoiled>>

Idle == [st |-> "idle", write |-> FALSE, sector |-> NoSector, data |-> 0]

TypeOK ==
  /\ lru \in [1..NBUF -> Bufs] /\ IsInjective(lru)
  /\ buf \in [Bufs -> [sector : Sectors \cup {NoSector}, busy : BOOLEAN,
                       valid : BOOLEAN, dirty : BOOLEAN, data : Nat]]
  /\ idequeue \in Seq(Bufs)
  /\ disk \in [Sectors -> Nat]
  /\ drive \in [st : {"idle", "busy", "done", "error"}, write : BOOLEAN,
                sector : Sectors \cup {NoSector}, data : Nat]
  /\ held \in [Procs -> Seq(Bufs)]
  /\ pc \in [Procs -> {"run", "iderw", "wait"}]
  /\ chan \in [Procs -> Bufs \cup {NoBuf}]
  /\ panicked \in BOOLEAN /\ spoiled \subseteq Sectors

(* binit(): every buffer is put in front of the ones before. *)
Init ==
  /\ lru = [i \in 1..NBUF |-> NBUF + 1 - i]
  /\ buf = [b \in Bufs |-> [sector |-> NoSector, busy |-> FALSE, valid |-> FALSE,
                            dirty |-> FALSE, data |-> 0]]
  /\ idequeue = <<>>
  /\ disk = [s \in Sectors |-> 0]
  /\ drive = Idle
  /\ todo = [p \in Procs |-> <<>>] /\ held = [p \in Procs |-> <<>>]
  /\ pc = [p \in Procs |-> "run"]
  /\ chan = [p \in Procs |-> NoBuf]
  /\ panicked = FALSE /\ spoiled = {}

-----------------------------------------------------------------------------
Awake(p) == chan[p] = NoBuf /\ ~panicked
At(p, op) == pc[p] = "run" /\ Awake(p) /\ todo[p] # <<>> /\ Head(todo[p]).op = op
Mine(p) == Last(held[p])            \* the buffer the process works with
Done(p) == todo' = [todo EXCEPT ![p] = Tail(@)]
Sleep(p, b) == chan' = [chan EXCEPT ![p] = b]
wakeup_One(b) == LET S == {q \in Procs : chan[q] = b}
                 IN chan' = IF S = {} THEN chan ELSE [chan EXCEPT ![CHOOSE q \in S : TRUE] = NoBuf]
wakeup(b) == chan' = [q \in Procs |-> IF chan[q] = b THEN NoBuf ELSE chan[q]]

(* The bound counts updates by the versions that are around. *)
Version(s) == LET copies == {b \in Bufs : buf[b].sector = s}
              IN IF copies = {} THEN disk[s] ELSE buf[CHOOSE b \in copies : TRUE].data
Writes(prog) == {prog[i].sector : i \in {j \in DOMAIN prog :
                                           prog[j].op = "bread" /\ Bwrite \in ToSet(prog)}}

(* A process of the file system begins an operation. *)
Begin(p) ==
  /\ Awake(p) /\ todo[p] = <<>>
  /\ \E prog \in Programs[p] :
       /\ \A s \in Writes(prog) : Version(s) < MaxUpdates
       /\ todo' = [todo EXCEPT ![p] = prog]
  /\ UNCHANGED <<lru, buf, idequeue, disk, drive, held, pc, chan, panicked, spoiled>>

(* bget(): the first buffer of the sector from the front of the list, or   *)
(* else the first free one from the back; who slept for it looks again.    *)
Cached_Valid(s) == {i \in 1..NBUF : buf[lru[i]].sector = s /\ buf[lru[i]].valid}
Cached(s) == {i \in 1..NBUF : buf[lru[i]].sector = s}
Unused_Clean == {i \in 1..NBUF : ~buf[lru[i]].dirty}
Unused == {i \in 1..NBUF : ~buf[lru[i]].busy}

bget(p, s) ==
  IF Cached(s) # {}
  THEN LET b == lru[Min(Cached(s))]
       IN IF buf[b].busy
          THEN Sleep(p, b) /\ UNCHANGED <<buf, todo, held, pc, panicked>>
          ELSE /\ buf' = [buf EXCEPT ![b].busy = TRUE]
               /\ held' = [held EXCEPT ![p] = Append(@, b)]
               /\ IF buf[b].valid THEN Done(p) /\ UNCHANGED pc
                  ELSE pc' = [pc EXCEPT ![p] = "iderw"] /\ UNCHANGED todo
               /\ UNCHANGED <<chan, panicked>>
  ELSE IF Unused = {}
  THEN panicked' = TRUE /\ UNCHANGED <<buf, todo, held, pc, chan>>
  ELSE LET b == lru[Max(Unused)]
       IN /\ buf' = [buf EXCEPT ![b].sector = s, ![b].busy = TRUE,
                                ![b].valid = FALSE, ![b].dirty = FALSE]
          /\ held' = [held EXCEPT ![p] = Append(@, b)]
          /\ pc' = [pc EXCEPT ![p] = "iderw"]
          /\ UNCHANGED <<todo, chan, panicked>>

(* bread(), up to the call of iderw() if the buffer is not valid. *)
bread(p) ==
  /\ At(p, "bread")
  /\ bget(p, Head(todo[p]).sector)
  /\ UNCHANGED <<lru, idequeue, disk, drive, spoiled>>

(* The caller changes the contents, then bwrite(). *)
bwrite(p) ==
  /\ At(p, "bwrite")
  /\ buf' = [buf EXCEPT ![Mine(p)].data = @ + 1, ![Mine(p)].dirty = TRUE]
  /\ pc' = [pc EXCEPT ![p] = "iderw"]
  /\ panicked' = ~buf[Mine(p)].busy
  /\ UNCHANGED <<lru, idequeue, disk, drive, todo, held, chan, spoiled>>

brelse(p) ==
  /\ At(p, "brelse")
  /\ LET b == Mine(p)
         at == CHOOSE i \in 1..NBUF : lru[i] = b
     IN /\ lru' = [i \in 1..NBUF |-> IF i = 1 THEN b
                                     ELSE IF i <= at THEN lru[i - 1] ELSE lru[i]]
        /\ buf' = [buf EXCEPT ![b].busy = FALSE]
        /\ panicked' = ~buf[b].busy
        /\ wakeup(b)
  /\ held' = [held EXCEPT ![p] = Front(@)]
  /\ Done(p)
  /\ UNCHANGED <<idequeue, disk, drive, pc, spoiled>>

-----------------------------------------------------------------------------
(* idestart(): the drive is told command, sector and, to write, contents. *)
idestart_Valid(b) ==
  drive' = [st |-> "busy", write |-> ~buf[b].valid, sector |-> buf[b].sector,
            data |-> buf[b].data]
idestart(b) ==
  drive' = [st |-> "busy", write |-> buf[b].dirty, sector |-> buf[b].sector,
            data |-> buf[b].data]

StartNext_None(q) == drive' = Idle
StartNext(q) == IF q = <<>> THEN drive' = Idle ELSE idestart(Head(q))

Finished(b) == buf[b].valid /\ ~buf[b].dirty

(* iderw(): append to the queue, start an idle drive, sleep. *)
iderw(p) ==
  /\ pc[p] = "iderw" /\ Awake(p)
  /\ LET b == Mine(p)
     IN /\ idequeue' = Append(idequeue, b)
        /\ IF idequeue = <<>> THEN idestart(b) ELSE UNCHANGED drive
        /\ panicked' = (~buf[b].busy \/ Finished(b))
        /\ Sleep(p, b)
  /\ pc' = [pc EXCEPT ![p] = "wait"]
  /\ UNCHANGED <<lru, buf, disk, todo, held, spoiled>>

(* ... and when woken, look whether the request is finished. *)
iderw_wait(p) ==
  /\ pc[p] = "wait" /\ Awake(p)
  /\ IF Finished(Mine(p))
     THEN Done(p) /\ pc' = [pc EXCEPT ![p] = "run"] /\ UNCHANGED chan
     ELSE Sleep(p, Mine(p)) /\ UNCHANGED <<todo, pc>>
  /\ UNCHANGED <<lru, buf, idequeue, disk, drive, held, panicked, spoiled>>

(* The drive carries its command out, or fails and leaves the sector. *)
DriveDone ==
  /\ drive.st = "busy" /\ ~panicked
  /\ drive' = [drive EXCEPT !.st = "done"]
  /\ disk' = IF drive.write THEN [disk EXCEPT ![drive.sector] = drive.data] ELSE disk
  /\ UNCHANGED <<lru, buf, idequeue, todo, held, pc, chan, panicked, spoiled>>

DriveFails ==
  /\ drive.st = "busy" /\ ~panicked
  /\ Cardinality(spoiled \cup {drive.sector}) <= MaxErrors
  /\ drive' = [drive EXCEPT !.st = "error"]
  /\ spoiled' = spoiled \cup {drive.sector}
  /\ UNCHANGED <<lru, buf, idequeue, disk, todo, held, pc, chan, panicked>>

(* ideintr(): the head of the queue is finished, error or not; the next is *)
(* started.  A failed read leaves in the buffer what was there before.     *)
ideintr ==
  /\ drive.st \in {"done", "error"} /\ ~panicked /\ idequeue # <<>>
  /\ LET b == Head(idequeue)
     IN /\ idequeue' = Tail(idequeue)
        /\ buf' = [buf EXCEPT ![b].data = IF ~buf[b].dirty /\ drive.st = "done"
                                          THEN disk[drive.sector] ELSE @,
                              ![b].valid = TRUE, ![b].dirty = FALSE]
        /\ wakeup(b)
        /\ StartNext(Tail(idequeue))
  /\ UNCHANGED <<lru, disk, todo, held, pc, panicked, spoiled>>

(* kill() wakes a sleeper; both sleeps here ignore the flag it sets. *)
kill(p) ==
  /\ chan[p] # NoBuf /\ ~panicked
  /\ chan' = [chan EXCEPT ![p] = NoBuf]
  /\ UNCHANGED <<lru, buf, idequeue, disk, drive, todo, held, pc, panicked, spoiled>>

Step(p) == bread(p) \/ bwrite(p) \/ brelse(p) \/ iderw(p) \/ iderw_wait(p)
Device == DriveDone \/ DriveFails \/ ideintr

Next == Device \/ \E p \in Procs : Begin(p) \/ Step(p) \/ kill(p)

Spec == Init /\ [][Next]_vars

(* Processes that can run do, the drive ends every command, and the        *)
(* interrupt is taken.                                                     *)
Fairness ==
  /\ WF_vars(DriveDone \/ DriveFails) /\ WF_vars(ideintr)
  /\ \A p \in Procs : WF_vars(Step(p))

FairSpec == Spec /\ Fairness

-----------------------------------------------------------------------------
(* One buffer per sector and one process per busy buffer, also after       *)
(* sleeping in bget() for a buffer that was given to another sector; and   *)
(* NBUF buffers are enough for these processes: nobody panics.             *)
Holders(b) == UNION {{p} \X {i \in DOMAIN held[p] : held[p][i] = b} : p \in Procs}
OneBuffer ==
  /\ TypeOK
  /\ \A b, c \in Bufs : buf[b].sector = buf[c].sector /\ b # c => buf[b].sector = NoSector
  /\ \A b \in Bufs :
       Cardinality(Holders(b)) = IF buf[b].busy THEN 1 ELSE 0
  /\ ~panicked

(* The drive works for the head of the queue whenever there is one: no     *)
(* request is left behind by the interrupt and iderw() passing each other, *)
(* and every request belongs to one process that waits for it.             *)
DriveServesHead ==
  /\ IF idequeue = <<>> THEN drive = Idle
     ELSE LET b == Head(idequeue)
          IN /\ drive.st # "idle" /\ drive.sector = buf[b].sector
             /\ drive.write = buf[b].dirty
             /\ drive.write => drive.data = buf[b].data
  /\ \A b \in Bufs :
       Cardinality({i \in DOMAIN idequeue : idequeue[i] = b})
         = Cardinality({p \in Procs : pc[p] = "wait" /\ Mine(p) = b /\ ~Finished(b)})

(* bwrite() returns after the contents are on the disk, so that a crash    *)
(* or the recycling of a buffer loses no update (drive errors apart).      *)
OnDisk ==
  \A b \in Bufs :
    /\ buf[b].valid /\ buf[b].sector \notin spoiled
    /\ \A p \in Procs : held[p] # <<>> /\ Mine(p) = b => pc[p] = "run"
    => buf[b].data = disk[buf[b].sector]

(* The cache keeps the promise of DiskCells. *)
Newest(s) ==
  IF s \in spoiled THEN Junk
  ELSE LET copies == {b \in Bufs : buf[b].sector = s /\ (buf[b].valid \/ buf[b].dirty)}
       IN IF copies = {} THEN disk[s] ELSE buf[CHOOSE b \in copies : TRUE].data
UserOf(s) ==
  LET users == {p \in Procs : \E b \in ToSet(held[p]) : buf[b].sector = s}
  IN IF users = {} THEN NoOne ELSE CHOOSE p \in users : TRUE

Cells == INSTANCE DiskCells WITH val <- [s \in Sectors |-> Newest(s)],
                                 user <- [s \in Sectors |-> UserOf(s)]
ImplementsCells == Cells!Spec

(* A process that waits for the drive gets its buffer back. *)
RequestEnds ==
  \A p \in Procs : pc[p] = "wait" ~> pc[p] = "run" \/ panicked
=============================================================================
