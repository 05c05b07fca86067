--------------------------- MODULE BufferCacheProofs ---------------------------
(***************************************************************************)
(* For any number of processes, buffers and sectors, and any programs that *)
(* keep the order of the calls: a sector has one buffer and a busy buffer  *)
(* one process, the drive works for the head of the queue, what bwrite()   *)
(* returned from is on the disk, and the cache implements DiskCells.       *)
(***************************************************************************)
EXTENDS BufferCache, FiniteSetTheorems, SequenceTheorems, TLAPS

(* A sector has one buffer.  What is in use, or was read, is a sector.     *)
SectorInv ==
  /\ \A b, c \in Bufs : buf[b].sector = buf[c].sector /\ b # c => buf[b].sector = NoSector
  /\ \A b \in Bufs : buf[b].busy \/ buf[b].valid => buf[b].sector \in Sectors
  /\ \A b \in Bufs : \E i \in 1..NBUF : lru[i] = b

(* B_BUSY says that somebody has the buffer, and nobody else. *)
HeldInv ==
  /\ \A p \in Procs : \A i \in 1..Len(held[p]) : buf[held[p][i]].busy
  /\ \A p, q \in Procs : \A i \in 1..Len(held[p]), j \in 1..Len(held[q]) :
       held[p][i] = held[q][j] => p = q /\ i = j
  /\ \A b \in Bufs : buf[b].busy => \E p \in Procs : \E i \in 1..Len(held[p]) : held[p][i] = b

(* Who is inside of iderw() has a buffer.  A buffer whose contents are not *)
(* those of the disk is being read or written by its process.              *)
InIde(p) == pc[p] # "run"
WorksFor(p, b) == InIde(p) /\ held[p] # <<>> /\ Mine(p) = b
IdeInv ==
  /\ \A p \in Procs : InIde(p) => /\ held[p] # <<>> /\ todo[p] # <<>>
                                  /\ Head(todo[p]).op \in {"bread", "bwrite"}
  /\ \A p \in Procs : pc[p] = "iderw" => ~Finished(Mine(p))
  /\ \A b \in Bufs : buf[b].busy /\ ~Finished(b) => \E p \in Procs : WorksFor(p, b)
  /\ \A b \in Bufs : buf[b].dirty => buf[b].busy

(* In the queue is, once, what somebody waits for.                         *)
Requested(b) == \E p \in Procs : pc[p] = "wait" /\ Mine(p) = b /\ ~Finished(b)
QueueInv ==
  /\ \A i, j \in 1..Len(idequeue) : idequeue[i] = idequeue[j] => i = j
  /\ \A b \in Bufs : Requested(b) <=> \E i \in 1..Len(idequeue) : idequeue[i] = b

(* The drive has the head of the queue, and has done what it says.         *)
DriveInv ==
  /\ idequeue = <<>> => drive = Idle
  /\ idequeue # <<>> =>
       LET b == Head(idequeue)
       IN /\ drive.st # "idle" /\ drive.sector = buf[b].sector
          /\ drive.write = buf[b].dirty
          /\ drive.write => drive.data = buf[b].data
          /\ drive.st = "done" /\ drive.write => disk[drive.sector] = drive.data
          /\ drive.st = "error" => drive.sector \in spoiled

(* A buffer that nobody has to write is what is on the disk. *)
DataInv ==
  \A b \in Bufs : buf[b].valid /\ ~buf[b].dirty /\ buf[b].sector \notin spoiled =>
    buf[b].data = disk[buf[b].sector]

(* What a process has yet to call fits the buffers that it has: n[i] are   *)
(* those it has before its i-th call.                                      *)
Taken(op, m, n) == \/ op = "bread" /\ n = m + 1
                   \/ op = "bwrite" /\ n = m /\ m > 0
                   \/ op = "brelse" /\ m = n + 1
Fits(h, t) ==
  \E n \in [1..(Len(t) + 1) -> 0..2] :
    /\ n[1] = h /\ n[Len(t) + 1] = 0
    /\ \A i \in 1..Len(t) : Taken(t[i].op, n[i], n[i + 1])
Reading(p) == InIde(p) /\ Head(todo[p]).op = "bread"
Level(p) == IF Reading(p) THEN Len(held[p]) - 1 ELSE Len(held[p])
ProgInv == /\ todo \in [Procs -> Seq(Calls)]
           /\ \A p \in Procs : Fits(Level(p), todo[p])

CacheInv == /\ TypeOK /\ SectorInv /\ HeldInv /\ IdeInv
            /\ QueueInv /\ DriveInv /\ DataInv /\ ProgInv

-----------------------------------------------------------------------------
(* Sequences as the actions use them. *)
LEMMA Appended ==
  ASSUME NEW S, NEW s \in Seq(S), NEW e \in S
  PROVE  /\ Append(s, e) \in Seq(S) /\ Append(s, e) # <<>>
         /\ Len(Append(s, e)) = Len(s) + 1 /\ Len(s) \in Nat
         /\ \A i \in 1..Len(s) : Append(s, e)[i] = s[i]
         /\ Append(s, e)[Len(s) + 1] = e
OBVIOUS

(* The last is taken off. *)
LEMMA Shortened ==
  ASSUME NEW S, NEW s \in Seq(S), s # <<>>
  PROVE  /\ Front(s) \in Seq(S) /\ Len(Front(s)) = Len(s) - 1
         /\ \A i \in 1..(Len(s) - 1) : Front(s)[i] = s[i]
         /\ Last(s) \in S /\ Last(s) = s[Len(s)] /\ Len(s) \in Nat \ {0}
<1>1. Len(s) \in Nat \ {0} /\ \A i \in 1..Len(s) : s[i] \in S
  BY EmptySeq
<1>2. /\ SubSeq(s, 1, Len(s) - 1) \in Seq(S)
      /\ Len(SubSeq(s, 1, Len(s) - 1)) = Len(s) - 1
      /\ \A i \in 1..(Len(s) - 1) : SubSeq(s, 1, Len(s) - 1)[i] = s[i]
  <2>1. PICK k : k = Len(s) - 1
    OBVIOUS
  <2>2. k \in Int /\ 1 \in Int /\ k >= 0 /\ \A i \in 1..k : s[i] \in S
    BY <1>1, <2>1
  <2>3. /\ SubSeq(s, 1, k) \in Seq(S)
        /\ Len(SubSeq(s, 1, k)) = IF 1 <= k THEN k - 1 + 1 ELSE 0
        /\ \A i \in 1..(k - 1 + 1) : SubSeq(s, 1, k)[i] = s[1 + i - 1]
    BY <2>2, SubSeqProperties
  <2>4. Len(SubSeq(s, 1, k)) = k /\ \A i \in 1..k : SubSeq(s, 1, k)[i] = s[i]
    BY <2>2, <2>3
  <2> QED BY <2>1, <2>3, <2>4
<1> QED BY <1>1, <1>2 DEF Front, Last

(* A set of natural numbers has a least element. *)
LEMMA Least ==
  ASSUME NEW S \in SUBSET Nat, S # {}
  PROVE  \E x \in S : \A y \in S : x <= y
<1> DEFINE R == {ss \in Nat \X Nat : ss[1] < ss[2]}
<1>1. IsWellFoundedOn(R, Nat)
  BY NatLessThanWellFounded DEF OpToRel
<1>2. PICK x \in S : \A y \in S : ~ (<<y, x>> \in R)
  <2> HIDE DEF R
  <2> QED BY <1>1, WFMin
<1>3. \A y \in S : y < x => <<y, x>> \in R
  OBVIOUS
<1>4. \A y \in S : x <= y
  <2>1. \A y \in S : ~ (y < x)
    BY <1>2, <1>3
  <2> HIDE DEF R
  <2> QED BY <2>1
<1> QED BY <1>4

(* Min and Max of a set of positions are among them. *)
LEMMA Ends ==
  ASSUME NEW n \in Nat, NEW S \in SUBSET (1..n), S # {}
  PROVE  Min(S) \in S /\ Max(S) \in S
<1>1. \E x \in S : \A y \in S : x <= y
  BY Least
<1>2. \E x \in S : \A y \in S : x >= y
  <2> DEFINE T == {n - x : x \in S}
  <2>1. T \in SUBSET Nat /\ T # {}
    <3>1. \A x \in S : n - x \in Nat
      OBVIOUS
    <3> QED BY <3>1
  <2>2. PICK z \in T : \A y \in T : z <= y
    <3> HIDE DEF T
    <3> QED BY <2>1, Least
  <2>3. PICK x \in S : z = n - x
    BY <2>2
  <2>4. \A y \in S : n - x <= n - y
    BY <2>2, <2>3
  <2> QED BY <2>3, <2>4
<1> QED BY <1>1, <1>2 DEF Min, Max

-----------------------------------------------------------------------------
(* What is true of the buffers in hand and of those in the queue.          *)
LEMMA InHandFacts ==
  ASSUME CacheInv
  PROVE  /\ \A p \in Procs : held[p] \in Seq(Bufs) /\ Len(held[p]) \in Nat
         /\ \A p \in Procs : held[p] # <<>> =>
              /\ Len(held[p]) > 0 /\ Mine(p) \in Bufs /\ buf[Mine(p)].busy
              /\ Mine(p) = held[p][Len(held[p])]
         /\ \A p, q \in Procs : held[p] # <<>> /\ held[q] # <<>> /\ Mine(p) = Mine(q) => p = q
<1>1. \A p \in Procs : held[p] \in Seq(Bufs) /\ Len(held[p]) \in Nat
  BY DEF CacheInv, TypeOK
<1>2. \A p \in Procs : held[p] # <<>> =>
        /\ Len(held[p]) > 0 /\ Mine(p) \in Bufs /\ buf[Mine(p)].busy
        /\ Mine(p) = held[p][Len(held[p])] /\ Len(held[p]) \in 1..Len(held[p])
  <2> SUFFICES ASSUME NEW p \in Procs, held[p] # <<>>
               PROVE  /\ Len(held[p]) > 0 /\ Mine(p) \in Bufs /\ buf[Mine(p)].busy
                      /\ Mine(p) = held[p][Len(held[p])] /\ Len(held[p]) \in 1..Len(held[p])
    OBVIOUS
  <2>1. /\ Mine(p) \in Bufs /\ Mine(p) = held[p][Len(held[p])]
        /\ Len(held[p]) > 0 /\ Len(held[p]) \in 1..Len(held[p])
    BY <1>1, Shortened DEF Mine
  <2> QED BY <2>1 DEF CacheInv, HeldInv
<1>3. \A p, q \in Procs : held[p] # <<>> /\ held[q] # <<>> /\ Mine(p) = Mine(q) => p = q
  BY <1>2 DEF CacheInv, HeldInv
<1> QED BY <1>1, <1>2, <1>3

(* A buffer in the queue is busy, and somebody waits for its request. *)
LEMMA InQueueFacts ==
  ASSUME CacheInv
  PROVE  /\ idequeue \in Seq(Bufs) /\ Len(idequeue) \in Nat
         /\ \A i \in 1..Len(idequeue) :
              /\ idequeue[i] \in Bufs /\ ~Finished(idequeue[i]) /\ buf[idequeue[i]].busy
              /\ \E p \in Procs : pc[p] = "wait" /\ WorksFor(p, idequeue[i])
         /\ idequeue # <<>> => /\ Len(idequeue) > 0 /\ Head(idequeue) = idequeue[1]
                               /\ Head(idequeue) \in Bufs
<1>1. /\ idequeue \in Seq(Bufs) /\ Len(idequeue) \in Nat
      /\ \A i \in 1..Len(idequeue) : idequeue[i] \in Bufs
      /\ idequeue # <<>> => Len(idequeue) > 0 /\ Head(idequeue) = idequeue[1]
  BY DEF CacheInv, TypeOK
<1>2. ASSUME NEW i \in 1..Len(idequeue)
      PROVE  /\ ~Finished(idequeue[i]) /\ buf[idequeue[i]].busy
             /\ \E p \in Procs : pc[p] = "wait" /\ WorksFor(p, idequeue[i])
  <2>1. PICK p \in Procs : pc[p] = "wait" /\ Mine(p) = idequeue[i] /\ ~Finished(idequeue[i])
    BY <1>1 DEF CacheInv, QueueInv, Requested
  <2>2. WorksFor(p, idequeue[i])
    BY <2>1 DEF CacheInv, IdeInv, InIde, WorksFor
  <2> QED BY <2>1, <2>2, InHandFacts DEF WorksFor
<1> QED BY <1>1, <1>2

-----------------------------------------------------------------------------
(* The actions again, with what the invariant knows when they are taken.   *)
(* Buffers are described one by one.                                       *)
OnlyBuf(b) == \A c \in Bufs \ {b} : buf'[c] = buf[c]

Still == UNCHANGED <<lru, buf, idequeue, disk, drive, todo, held, pc, spoiled>>

Begins(p) ==
  /\ todo[p] = <<>> /\ pc[p] = "run"
  /\ \E prog \in Programs[p] : todo' = [todo EXCEPT ![p] = prog]
  /\ UNCHANGED <<lru, buf, idequeue, disk, drive, held, pc, spoiled>>

Gets(p, b, s) ==
  /\ pc[p] = "run" /\ todo[p] # <<>> /\ Head(todo[p]).op = "bread"
  /\ ~buf[b].busy /\ ~buf[b].dirty
  /\ \/ buf[b].sector = s /\ buf'[b].valid = buf[b].valid
     \/ (\A c \in Bufs : buf[c].sector # s) /\ ~buf'[b].valid
  /\ buf'[b].sector = s /\ buf'[b].busy /\ ~buf'[b].dirty /\ buf'[b].data = buf[b].data
  /\ OnlyBuf(b)
  /\ held' = [held EXCEPT ![p] = Append(@, b)]
  /\ IF buf'[b].valid THEN todo' = [todo EXCEPT ![p] = Tail(@)] /\ UNCHANGED pc
                      ELSE pc' = [pc EXCEPT ![p] = "iderw"] /\ UNCHANGED todo
  /\ UNCHANGED <<lru, idequeue, disk, drive, spoiled>>

Updates(p, b) ==
  /\ pc[p] = "run" /\ todo[p] # <<>> /\ Head(todo[p]).op = "bwrite"
  /\ held[p] # <<>> /\ Mine(p) = b /\ buf[b].busy /\ Finished(b)
  /\ buf'[b].sector = buf[b].sector /\ buf'[b].busy /\ buf'[b].valid /\ buf'[b].dirty
  /\ buf'[b].data = buf[b].data + 1
  /\ OnlyBuf(b)
  /\ pc' = [pc EXCEPT ![p] = "iderw"]
  /\ UNCHANGED <<lru, idequeue, disk, drive, todo, held, spoiled>>

Releases(p, b) ==
  /\ pc[p] = "run" /\ todo[p] # <<>> /\ Head(todo[p]).op = "brelse"
  /\ held[p] # <<>> /\ Mine(p) = b /\ buf[b].busy /\ Finished(b)
  /\ buf'[b].sector = buf[b].sector /\ ~buf'[b].busy /\ buf'[b].valid /\ ~buf'[b].dirty
  /\ buf'[b].data = buf[b].data
  /\ OnlyBuf(b)
  /\ held' = [held EXCEPT ![p] = Front(@)]
  /\ todo' = [todo EXCEPT ![p] = Tail(@)]
  /\ \A c \in Bufs : \E i \in 1..NBUF : lru'[i] = c
  /\ UNCHANGED <<idequeue, disk, drive, pc, spoiled>>

Requests(p, b) ==
  /\ pc[p] = "iderw" /\ held[p] # <<>> /\ Mine(p) = b /\ buf[b].busy /\ ~Finished(b)
  /\ idequeue' = Append(idequeue, b)
  /\ IF idequeue = <<>> THEN idestart(b) ELSE UNCHANGED drive
  /\ pc' = [pc EXCEPT ![p] = "wait"]
  /\ UNCHANGED <<lru, buf, disk, todo, held, spoiled>>

Returns(p, b) ==
  /\ pc[p] = "wait" /\ held[p] # <<>> /\ Mine(p) = b /\ Finished(b) /\ todo[p] # <<>>
  /\ todo' = [todo EXCEPT ![p] = Tail(@)]
  /\ pc' = [pc EXCEPT ![p] = "run"]
  /\ UNCHANGED <<lru, buf, idequeue, disk, drive, held, spoiled>>

Finishes(b) ==
  /\ idequeue # <<>> /\ b = idequeue[1] /\ drive.st \in {"done", "error"}
  /\ buf[b].busy /\ ~Finished(b)
  /\ buf'[b].sector = buf[b].sector /\ buf'[b].busy /\ buf'[b].valid /\ ~buf'[b].dirty
  /\ buf'[b].data = IF ~buf[b].dirty /\ drive.st = "done" THEN disk[drive.sector] ELSE buf[b].data
  /\ OnlyBuf(b)
  /\ idequeue' = Tail(idequeue)
  /\ StartNext(Tail(idequeue))
  /\ UNCHANGED <<lru, disk, todo, held, pc, spoiled>>

(* What the searches of bget() along the list find, or fail to find.       *)
LEMMA Search ==
  ASSUME CacheInv, BufferCacheAssumption, NEW s
  PROVE  /\ Cached(s) # {} => /\ lru[Min(Cached(s))] \in Bufs
                              /\ buf[lru[Min(Cached(s))]].sector = s
         /\ Cached(s) = {} => \A b \in Bufs : buf[b].sector # s
         /\ Unused # {} => /\ lru[Max(Unused)] \in Bufs
                           /\ ~buf[lru[Max(Unused)]].busy
         /\ Unused = {} => \A b \in Bufs : buf[b].busy
<1>1. /\ NBUF \in Nat /\ Cached(s) \in SUBSET (1..NBUF) /\ Unused \in SUBSET (1..NBUF)
      /\ lru \in [1..NBUF -> Bufs] /\ \A b \in Bufs : \E i \in 1..NBUF : lru[i] = b
  BY DEF BufferCacheAssumption, Cached, Unused, CacheInv, TypeOK, SectorInv
<1>2. /\ Cached(s) # {} => Min(Cached(s)) \in Cached(s)
      /\ Unused # {} => Max(Unused) \in Unused
  BY <1>1, Ends
<1>3. \A i \in 1..NBUF : /\ i \in Cached(s) <=> buf[lru[i]].sector = s
                         /\ i \in Unused <=> ~buf[lru[i]].busy
  BY DEF Cached, Unused
<1> QED BY <1>1, <1>2, <1>3

(* bread() looks and sleeps, panics, or gets a buffer. *)
LEMMA BreadStep ==
  ASSUME CacheInv, BufferCacheAssumption, NEW p \in Procs, bread(p)
  PROVE  Still \/ \E b \in Bufs, s \in Sectors : Gets(p, b, s)
<1>1. PICK s \in Sectors : s = Head(todo[p]).sector
  <2>1. Head(todo[p]) \in Calls /\ Head(todo[p]).op = "bread"
    BY DEF bread, At, CacheInv, ProgInv
  <2> QED BY <2>1 DEF Calls, Bread, Bwrite, Brelse, Call
<1>2. /\ pc[p] = "run" /\ todo[p] # <<>> /\ Head(todo[p]).op = "bread"
      /\ bget(p, s) /\ UNCHANGED <<lru, idequeue, disk, drive, spoiled>>
  BY <1>1 DEF bread, At
<1>3. \A b \in Bufs : buf[b].dirty => buf[b].busy
  BY DEF CacheInv, IdeInv
<1>4. CASE Cached(s) # {}
  <2>1. PICK b \in Bufs : b = lru[Min(Cached(s))] /\ buf[b].sector = s
    BY <1>4, Search
  <2>2. CASE buf[b].busy
    BY <1>2, <1>4, <2>1, <2>2 DEF bget, Still
  <2>3. CASE ~buf[b].busy
    <3>1. /\ buf' = [buf EXCEPT ![b].busy = TRUE]
          /\ held' = [held EXCEPT ![p] = Append(@, b)]
          /\ IF buf[b].valid THEN todo' = [todo EXCEPT ![p] = Tail(@)] /\ UNCHANGED pc
             ELSE pc' = [pc EXCEPT ![p] = "iderw"] /\ UNCHANGED todo
      BY <1>2, <1>4, <2>1, <2>3 DEF bget, Done
    <3>2. /\ buf'[b].sector = s /\ buf'[b].busy /\ ~buf'[b].dirty /\ buf'[b].data = buf[b].data
          /\ buf'[b].valid = buf[b].valid /\ OnlyBuf(b)
      BY <1>3, <2>1, <2>3, <3>1 DEF CacheInv, TypeOK, OnlyBuf
    <3>3. Gets(p, b, s)
      BY <1>2, <1>3, <2>1, <2>3, <3>1, <3>2 DEF Gets
    <3> QED BY <3>3
  <2> QED BY <2>2, <2>3
<1>5. CASE Cached(s) = {} /\ Unused = {}
  BY <1>2, <1>5 DEF bget, Still
<1>6. CASE Cached(s) = {} /\ Unused # {}
  <2>1. PICK b \in Bufs : b = lru[Max(Unused)] /\ ~buf[b].busy
    BY <1>6, Search
  <2>2. /\ buf' = [buf EXCEPT ![b].sector = s, ![b].busy = TRUE,
                              ![b].valid = FALSE, ![b].dirty = FALSE]
        /\ held' = [held EXCEPT ![p] = Append(@, b)]
        /\ pc' = [pc EXCEPT ![p] = "iderw"] /\ UNCHANGED todo
    BY <1>2, <1>6, <2>1 DEF bget
  <2>3. /\ buf'[b].sector = s /\ buf'[b].busy /\ ~buf'[b].dirty /\ buf'[b].data = buf[b].data
        /\ ~buf'[b].valid /\ OnlyBuf(b)
    BY <2>2 DEF CacheInv, TypeOK, OnlyBuf
  <2>4. \A c \in Bufs : buf[c].sector # s
    BY <1>6, Search
  <2>5. Gets(p, b, s)
    BY <1>2, <1>3, <2>1, <2>2, <2>3, <2>4 DEF Gets
  <2> QED BY <2>5
<1> QED BY <1>4, <1>5, <1>6

-----------------------------------------------------------------------------
(* The first of the calls fits, and the others fit what it leaves.         *)
LEMMA FitsTail ==
  ASSUME NEW t \in Seq(Calls), t # <<>>, NEW h, Fits(h, t)
  PROVE  /\ h \in 0..2
         /\ \E m \in 0..2 : Taken(Head(t).op, h, m) /\ Fits(m, Tail(t))
<1>1. PICK n \in [1..(Len(t) + 1) -> 0..2] :
        /\ n[1] = h /\ n[Len(t) + 1] = 0
        /\ \A i \in 1..Len(t) : Taken(t[i].op, n[i], n[i + 1])
  BY DEF Fits
<1>2. /\ Len(t) \in Nat /\ Len(t) > 0 /\ Head(t) = t[1] /\ Tail(t) \in Seq(Calls)
      /\ Len(Tail(t)) = Len(t) - 1 /\ \A i \in 1..(Len(t) - 1) : Tail(t)[i] = t[i + 1]
  BY HeadTailProperties
<1>3. PICK k : k = Len(t) - 1 /\ k \in Nat
  <2>1. Len(t) - 1 \in Nat
    BY <1>2
  <2> QED BY <2>1
<1>4. PICK m : m = [i \in 1..(k + 1) |-> n[i + 1]]
  OBVIOUS
<1>5. m \in [1..(k + 1) -> 0..2] /\ m[1] = n[2] /\ m[k + 1] = 0
  BY <1>1, <1>2, <1>3, <1>4
<1>6. \A i \in 1..k : Taken(Tail(t)[i].op, m[i], m[i + 1])
  <2> SUFFICES ASSUME NEW i \in 1..k PROVE Taken(Tail(t)[i].op, m[i], m[i + 1])
    OBVIOUS
  <2>1. /\ Tail(t)[i] = t[i + 1] /\ m[i] = n[i + 1] /\ m[i + 1] = n[(i + 1) + 1]
        /\ i + 1 \in 1..Len(t)
    BY <1>2, <1>3, <1>4
  <2> QED BY <1>1, <2>1
<1>7. Fits(m[1], Tail(t))
  BY <1>2, <1>3, <1>5, <1>6 DEF Fits
<1>8. h \in 0..2 /\ n[2] \in 0..2 /\ Taken(Head(t).op, h, n[2])
  BY <1>1, <1>2
<1> QED BY <1>5, <1>7, <1>8

(* A process that has made all of its calls has no buffer. *)
LEMMA FitsEmpty == \A h : Fits(h, <<>>) => h = 0
BY DEF Fits

(* Counting the calls so far: one more of the kind that comes next.        *)
LEMMA CountNext ==
  ASSUME NEW s, NEW i \in Nat \ {0}, NEW o
  PROVE  /\ Before(s, i, o) \in Nat
         /\ Before(s, i + 1, o) = Before(s, i, o) + (IF s[i].op = o THEN 1 ELSE 0)
<1> DEFINE S == {j \in 1..(i - 1) : s[j].op = o}
           T == {j \in 1..((i + 1) - 1) : s[j].op = o}
<1>1. IsFiniteSet(S) /\ Cardinality(S) \in Nat
  <2>1. IsFiniteSet(1..(i - 1)) /\ S \in SUBSET (1..(i - 1))
    BY FS_Interval
  <2> QED BY <2>1, FS_Subset, FS_CardinalityType
<1>2. CASE s[i].op = o
  <2>1. T = S \cup {i} /\ i \notin S
    BY <1>2
  <2>2. Cardinality(T) = Cardinality(S) + 1
    <3> HIDE DEF S, T
    <3> QED BY <1>1, <2>1, FS_AddElement
  <2> QED BY <1>1, <1>2, <2>2 DEF Before
<1>3. CASE s[i].op # o
  <2>1. T = S
    BY <1>3
  <2>2. Cardinality(T) = Cardinality(S) + 0
    <3> HIDE DEF S, T
    <3> QED BY <1>1, <2>1
  <2> QED BY <1>1, <1>3, <2>2 DEF Before
<1> QED BY <1>2, <1>3

(* A program fits a process that has no buffer. *)
LEMMA FitsProgram ==
  ASSUME ProgramsAssumption, NEW p \in Procs, NEW prog \in Programs[p]
  PROVE  prog \in Seq(Calls) /\ Fits(0, prog)
<1>1. /\ prog \in Seq(Calls) /\ InHand(prog, Len(prog) + 1) = 0
      /\ \A i \in 1..Len(prog) : /\ InHand(prog, i) \in 0..2
                                 /\ prog[i].op # "bread" => InHand(prog, i) > 0
  BY DEF ProgramsAssumption
<1>2. Len(prog) \in Nat /\ \A i \in 1..Len(prog) : prog[i].op \in {"bread", "bwrite", "brelse"}
  BY <1>1 DEF Calls, Bread, Bwrite, Brelse, Call
<1>3. PICK n : n = [i \in 1..(Len(prog) + 1) |-> InHand(prog, i)]
  OBVIOUS
<1>4. n \in [1..(Len(prog) + 1) -> 0..2] /\ n[Len(prog) + 1] = 0
  BY <1>1, <1>2, <1>3
<1>5. n[1] = 0
  <2>1. \A o : {j \in 1..(1 - 1) : prog[j].op = o} = {}
    OBVIOUS
  <2>2. \A o : Before(prog, 1, o) = 0
    BY <2>1, FS_EmptySet DEF Before
  <2> QED BY <1>2, <1>3, <2>2 DEF InHand
<1>6. ASSUME NEW i \in 1..Len(prog)
      PROVE  Taken(prog[i].op, n[i], n[i + 1])
  <2>1. i \in Nat \ {0} /\ i + 1 \in 1..(Len(prog) + 1) /\ i \in 1..(Len(prog) + 1)
    BY <1>2
  <2>2. /\ Before(prog, i, "bread") \in Nat /\ Before(prog, i, "brelse") \in Nat
        /\ Before(prog, i + 1, "bread")
             = Before(prog, i, "bread") + (IF prog[i].op = "bread" THEN 1 ELSE 0)
        /\ Before(prog, i + 1, "brelse")
             = Before(prog, i, "brelse") + (IF prog[i].op = "brelse" THEN 1 ELSE 0)
    BY <2>1, CountNext
  <2>3. n[i] = InHand(prog, i) /\ n[i + 1] = InHand(prog, i + 1)
    BY <1>3, <2>1
  <2>4. n[i + 1] = n[i] + (IF prog[i].op = "bread" THEN 1 ELSE 0)
                        - (IF prog[i].op = "brelse" THEN 1 ELSE 0)
    BY <2>2, <2>3 DEF InHand
  <2>5. n[i] \in 0..2 /\ (prog[i].op # "bread" => n[i] > 0)
    BY <1>1, <2>3
  <2> QED BY <1>2, <2>4, <2>5 DEF Taken
<1> QED BY <1>1, <1>4, <1>5, <1>6 DEF Fits

-----------------------------------------------------------------------------
(* A process outside of iderw() that has not called bread() has a buffer,  *)
(* whose contents are those of the disk.                                   *)
LEMMA AtCall ==
  ASSUME CacheInv, NEW p \in Procs, pc[p] = "run", todo[p] # <<>>
  PROVE  /\ todo[p] \in Seq(Calls)
         /\ Len(held[p]) \in 0..2
         /\ \E m \in 0..2 : Taken(Head(todo[p]).op, Len(held[p]), m) /\ Fits(m, Tail(todo[p]))
         /\ Head(todo[p]).op # "bread" => held[p] # <<>>
         /\ held[p] # <<>> => /\ Mine(p) \in Bufs /\ buf[Mine(p)].busy
                              /\ Finished(Mine(p)) /\ buf[Mine(p)].sector \in Sectors
<1>1. todo[p] \in Seq(Calls) /\ Fits(Len(held[p]), todo[p])
  BY DEF CacheInv, ProgInv, Level, Reading, InIde
<1>2. /\ Len(held[p]) \in 0..2
      /\ \E m \in 0..2 : Taken(Head(todo[p]).op, Len(held[p]), m) /\ Fits(m, Tail(todo[p]))
  BY <1>1, FitsTail
<1>3. Head(todo[p]).op # "bread" => held[p] # <<>>
  <2>1. Head(todo[p]).op # "bread" => Len(held[p]) > 0
    BY <1>2 DEF Taken
  <2> QED BY <2>1
<1>4. ASSUME held[p] # <<>>
      PROVE  /\ Mine(p) \in Bufs /\ buf[Mine(p)].busy
             /\ Finished(Mine(p)) /\ buf[Mine(p)].sector \in Sectors
  <2>1. Mine(p) \in Bufs /\ buf[Mine(p)].busy
    BY <1>4, InHandFacts
  <2>2. Finished(Mine(p))
    <3> SUFFICES ASSUME ~Finished(Mine(p)) PROVE FALSE
      OBVIOUS
    <3>1. PICK q \in Procs : WorksFor(q, Mine(p))
      BY <2>1 DEF CacheInv, IdeInv
    <3>2. q = p
      BY <1>4, <3>1, InHandFacts DEF WorksFor
    <3> QED BY <3>1, <3>2 DEF WorksFor, InIde
  <2> QED BY <2>1, <2>2 DEF CacheInv, SectorInv
<1> QED BY <1>1, <1>2, <1>3, <1>4

(* bwrite() is of the buffer that the process read last. *)
LEMMA BwriteStep ==
  ASSUME CacheInv, NEW p \in Procs, bwrite(p)
  PROVE  \E b \in Bufs : Updates(p, b)
<1>1. pc[p] = "run" /\ todo[p] # <<>> /\ Head(todo[p]).op = "bwrite"
  BY DEF bwrite, At
<1>2. PICK b \in Bufs : b = Mine(p) /\ buf[b].busy /\ Finished(b) /\ held[p] # <<>>
  BY <1>1, AtCall
<1>3. buf' = [buf EXCEPT ![b].data = @ + 1, ![b].dirty = TRUE]
  BY <1>2 DEF bwrite
<1>4. /\ buf'[b].sector = buf[b].sector /\ buf'[b].busy /\ buf'[b].valid /\ buf'[b].dirty
      /\ buf'[b].data = buf[b].data + 1 /\ OnlyBuf(b)
  BY <1>2, <1>3 DEF CacheInv, TypeOK, OnlyBuf, Finished
<1>5. Updates(p, b)
  BY <1>1, <1>2, <1>4 DEF Updates, bwrite
<1> QED BY <1>5

(* brelse() moves a buffer to the front: all are still in the list, once.  *)
LEMMA ListStep ==
  ASSUME CacheInv, BufferCacheAssumption, NEW p \in Procs, brelse(p)
  PROVE  /\ lru' \in [1..NBUF -> Bufs] /\ IsInjective(lru')
         /\ \A b \in Bufs : \E i \in 1..NBUF : lru'[i] = b
<1>1. PICK b \in Bufs : b = Mine(p)
  BY AtCall DEF brelse, At
<1>2. \E i \in 1..NBUF : lru[i] = b
  BY DEF CacheInv, SectorInv
<1>3. PICK k \in 1..NBUF : k = (CHOOSE i \in 1..NBUF : lru[i] = b) /\ lru[k] = b
  BY <1>2
<1>4. lru' = [i \in 1..NBUF |-> IF i = 1 THEN b ELSE IF i <= k THEN lru[i - 1] ELSE lru[i]]
  BY <1>1, <1>3 DEF brelse
<1>5. /\ NBUF \in Nat /\ lru \in [1..NBUF -> Bufs]
      /\ \A i, j \in 1..NBUF : lru[i] = lru[j] => i = j
      /\ \A c \in Bufs : \E i \in 1..NBUF : lru[i] = c
  BY DEF BufferCacheAssumption, CacheInv, TypeOK, SectorInv, IsInjective
<1>6. \A i \in 1..NBUF : i # 1 => i - 1 \in 1..NBUF
  BY <1>5
<1>7. /\ lru' \in [1..NBUF -> Bufs]
      /\ \A i \in 1..NBUF : /\ i = 1 => lru'[i] = lru[k]
                            /\ i # 1 /\ i <= k => lru'[i] = lru[i - 1]
                            /\ i > k => lru'[i] = lru[i]
  BY <1>3, <1>4, <1>5, <1>6
<1>8. ASSUME NEW i \in 1..NBUF, NEW j \in 1..NBUF, i < j
      PROVE  lru'[i] # lru'[j]
  <2>1. PICK x \in 1..NBUF : lru'[i] = lru[x] /\ x = IF i = 1 THEN k
                                                    ELSE IF i <= k THEN i - 1 ELSE i
    BY <1>3, <1>5, <1>6, <1>7, SMTT(30)
  <2>2. PICK y \in 1..NBUF : lru'[j] = lru[y] /\ y = IF j = 1 THEN k
                                                    ELSE IF j <= k THEN j - 1 ELSE j
    BY <1>3, <1>5, <1>6, <1>7, SMTT(30)
  <2>3. x # y
    BY <1>3, <1>5, <1>8, <2>1, <2>2
  <2> QED BY <1>5, <2>1, <2>2, <2>3
<1>9. \A i, j \in 1..NBUF : lru'[i] = lru'[j] => i = j
  BY <1>5, <1>8
<1>10. ASSUME NEW c \in Bufs
       PROVE  \E i \in 1..NBUF : lru'[i] = c
  <2>1. PICK i \in 1..NBUF : lru[i] = c
    BY <1>5
  <2>2. CASE i = k
    BY <1>5, <1>7, <2>1, <2>2
  <2>3. CASE i < k
    <3>1. i + 1 \in 1..NBUF /\ i + 1 # 1 /\ i + 1 <= k /\ (i + 1) - 1 = i
      BY <1>5, <2>3
    <3> QED BY <1>7, <2>1, <3>1
  <2>4. CASE i > k
    BY <1>5, <1>7, <2>1, <2>4
  <2> QED BY <1>5, <2>2, <2>3, <2>4
<1> QED BY <1>7, <1>9, <1>10 DEF IsInjective

(* brelse() gives that buffer back, as it is on the disk. *)
LEMMA BrelseStep ==
  ASSUME CacheInv, BufferCacheAssumption, NEW p \in Procs, brelse(p)
  PROVE  \E b \in Bufs : Releases(p, b)
<1>1. pc[p] = "run" /\ todo[p] # <<>> /\ Head(todo[p]).op = "brelse"
  BY DEF brelse, At
<1>2. PICK b \in Bufs : b = Mine(p) /\ buf[b].busy /\ Finished(b) /\ held[p] # <<>>
  BY <1>1, AtCall
<1>3. buf' = [buf EXCEPT ![b].busy = FALSE]
  BY <1>2 DEF brelse
<1>4. /\ buf'[b].sector = buf[b].sector /\ ~buf'[b].busy /\ buf'[b].valid /\ ~buf'[b].dirty
      /\ buf'[b].data = buf[b].data /\ OnlyBuf(b)
  BY <1>2, <1>3 DEF CacheInv, TypeOK, OnlyBuf, Finished
<1>5. Releases(p, b)
  BY <1>1, <1>2, <1>4, ListStep DEF Releases, brelse, Done
<1> QED BY <1>5

(* iderw() is entered with a busy buffer and something to do. *)
LEMMA IderwStep ==
  ASSUME CacheInv, NEW p \in Procs, iderw(p)
  PROVE  \E b \in Bufs : Requests(p, b)
<1>1. pc[p] = "iderw" /\ InIde(p)
  BY DEF iderw, InIde
<1>2. PICK b \in Bufs : b = Mine(p) /\ buf[b].busy /\ ~Finished(b) /\ held[p] # <<>>
  BY <1>1, InHandFacts DEF CacheInv, IdeInv
<1>3. Requests(p, b)
  BY <1>1, <1>2 DEF Requests, iderw
<1> QED BY <1>3

(* Woken in iderw(), a process returns or sleeps again. *)
LEMMA WaitStep ==
  ASSUME CacheInv, NEW p \in Procs, iderw_wait(p)
  PROVE  Still \/ \E b \in Bufs : Returns(p, b)
<1>1. pc[p] = "wait" /\ InIde(p)
  BY DEF iderw_wait, InIde
<1>2. PICK b \in Bufs : b = Mine(p) /\ held[p] # <<>> /\ todo[p] # <<>>
  BY <1>1, InHandFacts DEF CacheInv, IdeInv
<1>3. CASE Finished(b)
  <2>1. Returns(p, b)
    BY <1>1, <1>2, <1>3 DEF Returns, iderw_wait, Done
  <2> QED BY <2>1
<1>4. CASE ~Finished(b)
  BY <1>2, <1>4 DEF iderw_wait, Still
<1> QED BY <1>3, <1>4

(* ideintr() finishes the request at the head of the queue. *)
LEMMA InterruptStep ==
  ASSUME CacheInv, ideintr
  PROVE  \E b \in Bufs : Finishes(b)
<1>1. PICK b \in Bufs : /\ b = Head(idequeue) /\ b = idequeue[1] /\ idequeue # <<>>
                        /\ buf[b].busy /\ ~Finished(b)
  BY InQueueFacts DEF ideintr
<1>2. buf' = [buf EXCEPT ![b].data = IF ~buf[b].dirty /\ drive.st = "done"
                                     THEN disk[drive.sector] ELSE @,
                         ![b].valid = TRUE, ![b].dirty = FALSE]
  BY <1>1 DEF ideintr
<1>3. /\ buf'[b].sector = buf[b].sector /\ buf'[b].busy /\ buf'[b].valid /\ ~buf'[b].dirty
      /\ buf'[b].data = IF ~buf[b].dirty /\ drive.st = "done" THEN disk[drive.sector]
                        ELSE buf[b].data
      /\ OnlyBuf(b)
  BY <1>1, <1>2 DEF CacheInv, TypeOK, OnlyBuf
<1>4. Finishes(b)
  BY <1>1, <1>3 DEF Finishes, ideintr
<1> QED BY <1>4

(* Every step is one of these. *)
DeviceStep == DriveDone \/ DriveFails \/ \E b \in Bufs : Finishes(b)
ProcStep(p) == \/ Begins(p)
               \/ \E b \in Bufs, s \in Sectors : Gets(p, b, s)
               \/ \E b \in Bufs : Updates(p, b) \/ Releases(p, b) \/ Requests(p, b) \/ Returns(p, b)

(* Next, with what the invariant knows of each of its actions. *)
LEMMA Steps ==
  ASSUME CacheInv, BufferCacheAssumption, [Next]_vars
  PROVE  Still \/ DeviceStep \/ \E p \in Procs : ProcStep(p)
<1>1. CASE UNCHANGED vars
  BY <1>1 DEF vars, Still
<1>2. CASE Device
  BY <1>2, InterruptStep DEF Device, DeviceStep
<1>3. ASSUME NEW p \in Procs, Begin(p)
      PROVE  ProcStep(p)
  <2>1. pc[p] = "run"
    BY <1>3 DEF Begin, CacheInv, IdeInv, InIde
  <2> QED BY <1>3, <2>1 DEF Begin, Begins, ProcStep
<1>4. ASSUME NEW p \in Procs, Step(p)
      PROVE  Still \/ ProcStep(p)
  BY <1>4, BreadStep, BwriteStep, BrelseStep, IderwStep, WaitStep DEF Step, ProcStep
<1>5. ASSUME NEW p \in Procs, kill(p)
      PROVE  Still
  BY <1>5 DEF kill, Still
<1> QED BY <1>1, <1>2, <1>3, <1>4, <1>5 DEF Next

-----------------------------------------------------------------------------
(* A drive that works, or has, does it for the head of the queue.          *)
LEMMA DriveSector ==
  ASSUME CacheInv, drive.st # "idle"
  PROVE  /\ idequeue # <<>> /\ drive.sector \in Sectors
         /\ drive.sector = buf[idequeue[1]].sector
<1>1. idequeue # <<>>
  BY DEF CacheInv, DriveInv, Idle
<1>2. idequeue[1] \in Bufs /\ buf[idequeue[1]].busy /\ Head(idequeue) = idequeue[1]
  BY <1>1, InQueueFacts
<1> QED BY <1>1, <1>2 DEF CacheInv, DriveInv, SectorInv

Buffer == [sector : Sectors \cup {NoSector}, busy : BOOLEAN, valid : BOOLEAN,
           dirty : BOOLEAN, data : Nat]

(* One field of one buffer is set. *)
LEMMA Refilled ==
  ASSUME NEW f \in [Bufs -> Buffer], NEW b \in Bufs
  PROVE  /\ \A v \in BOOLEAN : [f EXCEPT ![b].busy = v] \in [Bufs -> Buffer]
         /\ \A v \in BOOLEAN : [f EXCEPT ![b].valid = v] \in [Bufs -> Buffer]
         /\ \A v \in BOOLEAN : [f EXCEPT ![b].dirty = v] \in [Bufs -> Buffer]
         /\ \A v \in Nat : [f EXCEPT ![b].data = v] \in [Bufs -> Buffer]
         /\ \A v \in Sectors : [f EXCEPT ![b].sector = v] \in [Bufs -> Buffer]
<1>0. f[b] \in Buffer
  OBVIOUS
<1>1. \A v \in BOOLEAN : [f[b] EXCEPT !.busy = v] \in Buffer
  BY <1>0 DEF Buffer
<1>2. \A v \in BOOLEAN : [f[b] EXCEPT !.valid = v] \in Buffer
  BY <1>0 DEF Buffer
<1>3. \A v \in BOOLEAN : [f[b] EXCEPT !.dirty = v] \in Buffer
  BY <1>0 DEF Buffer
<1>4. \A v \in Nat : [f[b] EXCEPT !.data = v] \in Buffer
  BY <1>0 DEF Buffer
<1>5. \A v \in Sectors : [f[b] EXCEPT !.sector = v] \in Buffer
  BY <1>0 DEF Buffer
<1>6. \A v \in BOOLEAN : [f EXCEPT ![b].busy = v] \in [Bufs -> Buffer]
  BY <1>1
<1>7. \A v \in BOOLEAN : [f EXCEPT ![b].valid = v] \in [Bufs -> Buffer]
  BY <1>2
<1>8. \A v \in BOOLEAN : [f EXCEPT ![b].dirty = v] \in [Bufs -> Buffer]
  BY <1>3
<1>9. \A v \in Nat : [f EXCEPT ![b].data = v] \in [Bufs -> Buffer]
  BY <1>4
<1>10. \A v \in Sectors : [f EXCEPT ![b].sector = v] \in [Bufs -> Buffer]
  BY <1>5
<1> QED BY <1>6, <1>7, <1>8, <1>9, <1>10

(* What the drive can be told. *)
Command == [st : {"idle", "busy", "done", "error"}, write : BOOLEAN,
            sector : Sectors \cup {NoSector}, data : Nat]

(* Every command of idestart() is one of these. *)
LEMMA Started ==
  /\ Idle \in Command
  /\ \A r \in Buffer : [st |-> "busy", write |-> r.dirty, sector |-> r.sector,
                        data |-> r.data] \in Command
BY DEF Idle, Command, Buffer

(* The types: chan and panicked are in no other part of the invariant.     *)
LEMMA TypeStep ==
  ASSUME CacheInv, BufferCacheAssumption, [Next]_vars
  PROVE  TypeOK'
<1> USE DEF CacheInv, TypeOK
<1>0. NoBuf \in Bufs \cup {NoBuf} /\ \A b \in Bufs : b \in Bufs \cup {NoBuf}
  OBVIOUS
<1>1. CASE UNCHANGED vars
  BY <1>1 DEF vars
<1>2. ASSUME NEW p \in Procs, Begin(p)
      PROVE  TypeOK'
  BY <1>2 DEF Begin
<1>3. ASSUME NEW p \in Procs, kill(p)
      PROVE  TypeOK'
  BY <1>3 DEF kill
<1>4. ASSUME NEW p \in Procs, bread(p)
      PROVE  TypeOK'
  <2>1. PICK s : s = Head(todo[p]).sector
    OBVIOUS
  <2>2. s \in Sectors
    <3>1. Head(todo[p]) \in Calls /\ Head(todo[p]).op = "bread"
      BY <1>4 DEF bread, At, ProgInv
    <3> QED BY <2>1, <3>1 DEF Calls, Bread, Bwrite, Brelse, Call
  <2>3. bget(p, s) /\ UNCHANGED <<lru, idequeue, disk, drive, spoiled>>
    BY <1>4, <2>1 DEF bread
  <2>4. CASE Cached(s) # {}
    <3>1. PICK b \in Bufs : b = lru[Min(Cached(s))]
      BY <2>4, Search
    <3>2. CASE buf[b].busy
      BY <2>3, <2>4, <3>1, <3>2 DEF bget, Sleep
    <3>3. CASE ~buf[b].busy
      <4>1. /\ buf' = [buf EXCEPT ![b].busy = TRUE]
            /\ held' = [held EXCEPT ![p] = Append(@, b)]
            /\ pc' \in {pc, [pc EXCEPT ![p] = "iderw"]} /\ UNCHANGED <<chan, panicked>>
        BY <2>3, <2>4, <3>1, <3>3 DEF bget
      <4>2. buf' \in [Bufs -> Buffer]
        <5>1. buf \in [Bufs -> Buffer]
          BY DEF Buffer
        <5>2. [buf EXCEPT ![b].busy = TRUE] \in [Bufs -> Buffer]
          BY <5>1, Refilled
        <5> QED BY <4>1, <5>2
      <4>3. held' \in [Procs -> Seq(Bufs)] /\ pc' \in [Procs -> {"run", "iderw", "wait"}]
        <5>1. Append(held[p], b) \in Seq(Bufs)
          OBVIOUS
        <5> QED BY <4>1, <5>1
      <4> QED BY <2>3, <4>1, <4>2, <4>3 DEF Buffer
    <3> QED BY <3>2, <3>3
  <2>5. CASE Cached(s) = {} /\ Unused = {}
    BY <2>3, <2>5 DEF bget
  <2>6. CASE Cached(s) = {} /\ Unused # {}
    <3>1. PICK b \in Bufs : b = lru[Max(Unused)]
      BY <2>6, Search
    <3>2. /\ buf' = [buf EXCEPT ![b].sector = s, ![b].busy = TRUE,
                                ![b].valid = FALSE, ![b].dirty = FALSE]
          /\ held' = [held EXCEPT ![p] = Append(@, b)]
          /\ pc' = [pc EXCEPT ![p] = "iderw"] /\ UNCHANGED <<chan, panicked>>
      BY <2>3, <2>6, <3>1 DEF bget
    <3>3. buf' \in [Bufs -> Buffer]
      <4>1. buf \in [Bufs -> Buffer]
        BY DEF Buffer
      <4>2. PICK f1 \in [Bufs -> Buffer] : f1 = [buf EXCEPT ![b].sector = s]
        BY <2>2, <4>1, Refilled
      <4>3. PICK f2 \in [Bufs -> Buffer] : f2 = [f1 EXCEPT ![b].busy = TRUE]
        BY <4>2, Refilled
      <4>4. PICK f3 \in [Bufs -> Buffer] : f3 = [f2 EXCEPT ![b].valid = FALSE]
        BY <4>3, Refilled
      <4>5. PICK f4 \in [Bufs -> Buffer] : f4 = [f3 EXCEPT ![b].dirty = FALSE]
        BY <4>4, Refilled
      <4> QED BY <3>2, <4>2, <4>3, <4>4, <4>5
    <3>4. held' \in [Procs -> Seq(Bufs)] /\ pc' \in [Procs -> {"run", "iderw", "wait"}]
      BY <3>2
    <3> QED BY <2>3, <3>2, <3>3, <3>4 DEF Buffer
  <2> QED BY <2>4, <2>5, <2>6
<1>5. ASSUME NEW p \in Procs, bwrite(p)
      PROVE  TypeOK'
  <2>1. PICK b \in Bufs : b = Mine(p)
    BY <1>5, AtCall DEF bwrite, At
  <2>2. buf' = [buf EXCEPT ![b].data = @ + 1, ![b].dirty = TRUE] /\ panicked' = ~buf[b].busy
    BY <1>5, <2>1 DEF bwrite
  <2>3. buf' \in [Bufs -> Buffer] /\ panicked' \in BOOLEAN
    <3>1. buf \in [Bufs -> Buffer]
      BY DEF Buffer
    <3>0. buf[b].data + 1 \in Nat
      OBVIOUS
    <3>2. PICK f1 \in [Bufs -> Buffer] : f1 = [buf EXCEPT ![b].data = @ + 1]
      BY <3>0, <3>1, Refilled
    <3>3. PICK f2 \in [Bufs -> Buffer] : f2 = [f1 EXCEPT ![b].dirty = TRUE]
      BY <3>2, Refilled
    <3> QED BY <2>2, <3>2, <3>3
  <2> QED BY <1>5, <2>3 DEF bwrite, Buffer
<1>6. ASSUME NEW p \in Procs, brelse(p)
      PROVE  TypeOK'
  <2>1. PICK b \in Bufs : b = Mine(p) /\ held[p] # <<>>
    BY <1>6, AtCall DEF brelse, At
  <2>2. buf' = [buf EXCEPT ![b].busy = FALSE] /\ panicked' = ~buf[b].busy
    BY <1>6, <2>1 DEF brelse
  <2>3. buf' \in [Bufs -> Buffer] /\ panicked' \in BOOLEAN
    <3>1. buf \in [Bufs -> Buffer]
      BY DEF Buffer
    <3>2. [buf EXCEPT ![b].busy = FALSE] \in [Bufs -> Buffer]
      BY <3>1, Refilled
    <3> QED BY <2>2, <3>2
  <2>4. held' \in [Procs -> Seq(Bufs)]
    BY <1>6, <2>1, Shortened DEF brelse
  <2>5. chan' \in [Procs -> Bufs \cup {NoBuf}]
    BY <1>6 DEF brelse, wakeup
  <2> QED BY <1>6, <2>3, <2>4, <2>5, ListStep DEF brelse, Buffer
<1>7. ASSUME NEW p \in Procs, iderw(p)
      PROVE  TypeOK'
  <2>1. PICK b \in Bufs : b = Mine(p)
    BY <1>7, InHandFacts DEF iderw, IdeInv, InIde
  <2>2. idequeue' \in Seq(Bufs) /\ chan' \in [Procs -> Bufs \cup {NoBuf}]
    BY <1>7, <2>1 DEF iderw, Sleep
  <2>3. panicked' \in BOOLEAN /\ pc' \in [Procs -> {"run", "iderw", "wait"}]
    BY <1>7, <2>1 DEF iderw
  <2>4. drive' \in Command
    BY <1>7, <2>1, Started DEF iderw, idestart, Command, Buffer
  <2> QED BY <1>7, <2>2, <2>3, <2>4 DEF iderw, Command
<1>8. ASSUME NEW p \in Procs, iderw_wait(p)
      PROVE  TypeOK'
  <2>1. PICK b \in Bufs : b = Mine(p)
    BY <1>8, InHandFacts DEF iderw_wait, IdeInv, InIde
  <2> QED BY <1>8, <2>1 DEF iderw_wait, Sleep
<1>9. CASE DriveDone
  BY <1>9, DriveSector DEF DriveDone
<1>10. CASE DriveFails
  BY <1>10, DriveSector DEF DriveFails
<1>11. CASE ideintr
  <2>1. PICK b \in Bufs : b = Head(idequeue) /\ idequeue # <<>>
    BY <1>11, InQueueFacts DEF ideintr
  <2>2. PICK d \in Nat : d = IF ~buf[b].dirty /\ drive.st = "done" THEN disk[drive.sector]
                             ELSE buf[b].data
    BY <1>11, DriveSector DEF ideintr
  <2>3. buf' \in [Bufs -> Buffer]
    <3>1. buf \in [Bufs -> Buffer]
      BY DEF Buffer
    <3>2. PICK f1 \in [Bufs -> Buffer] : f1 = [buf EXCEPT ![b].data = d]
      BY <3>1, Refilled
    <3>3. PICK f2 \in [Bufs -> Buffer] : f2 = [f1 EXCEPT ![b].valid = TRUE]
      BY <3>2, Refilled
    <3>4. PICK f3 \in [Bufs -> Buffer] : f3 = [f2 EXCEPT ![b].dirty = FALSE]
      BY <3>3, Refilled
    <3>5. buf' = f3
      BY <1>11, <2>1, <2>2, <3>2, <3>3, <3>4 DEF ideintr
    <3> QED BY <3>5
  <2>4. idequeue' \in Seq(Bufs) /\ chan' \in [Procs -> Bufs \cup {NoBuf}]
    BY <1>11, <2>1 DEF ideintr, wakeup
  <2>5. drive' \in Command
    <3>1. CASE Tail(idequeue) = <<>>
      BY <1>11, <3>1, Started DEF ideintr, StartNext
    <3>2. CASE Tail(idequeue) # <<>>
      <4>1. PICK c \in Bufs : c = Head(Tail(idequeue))
        BY <2>1, <3>2
      <4>2. drive' = [st |-> "busy", write |-> buf[c].dirty, sector |-> buf[c].sector,
                      data |-> buf[c].data]
        BY <1>11, <2>1, <3>2, <4>1 DEF ideintr, StartNext, idestart
      <4>3. buf[c] \in Buffer
        BY DEF Buffer
      <4> QED BY <4>2, <4>3, Started
    <3> QED BY <3>1, <3>2
  <2> QED BY <1>11, <2>3, <2>4, <2>5 DEF ideintr, Buffer, Command
<1> QED BY <1>1, <1>2, <1>3, <1>4, <1>5, <1>6, <1>7, <1>8, <1>9, <1>10, <1>11
        DEF Next, Device, Step

-----------------------------------------------------------------------------
(* One buffer for a sector: bget() takes a new one only if it found none.  *)
LEMMA SectorStep ==
  ASSUME CacheInv, BufferCacheAssumption, [Next]_vars
  PROVE  SectorInv'
<1> USE DEF SectorInv
<1>0. SectorInv
  BY DEF CacheInv
<1>1. CASE Still
  BY <1>0, <1>1 DEF Still
<1>2. CASE DriveDone \/ DriveFails
  BY <1>0, <1>2 DEF DriveDone, DriveFails
<1>3. ASSUME NEW b \in Bufs, Finishes(b)
      PROVE  SectorInv'
  <2>1. \A c \in Bufs : /\ buf'[c].sector = buf[c].sector
                        /\ buf'[c].busy \/ buf'[c].valid => buf[c].busy \/ buf[c].valid
    BY <1>3 DEF Finishes, OnlyBuf
  <2> QED BY <1>0, <1>3, <2>1 DEF Finishes
<1>4. ASSUME NEW p \in Procs, Begins(p)
      PROVE  SectorInv'
  BY <1>0, <1>4 DEF Begins
<1>5. ASSUME NEW p \in Procs, NEW b \in Bufs, NEW s \in Sectors, Gets(p, b, s)
      PROVE  SectorInv'
  <2>1. lru' = lru /\ buf'[b].sector = s /\ \A c \in Bufs \ {b} : buf'[c] = buf[c]
    BY <1>5 DEF Gets, OnlyBuf
  <2>2. \A c \in Bufs \ {b} : buf[c].sector # s
    <3>1. s # NoSector
      BY DEF BufferCacheAssumption
    <3>2. buf[b].sector = s \/ \A c \in Bufs : buf[c].sector # s
      BY <1>5 DEF Gets
    <3> QED BY <1>0, <3>1, <3>2
  <2> QED BY <1>0, <2>1, <2>2
<1>6. ASSUME NEW p \in Procs, NEW b \in Bufs, Updates(p, b)
      PROVE  SectorInv'
  <2>1. \A c \in Bufs : /\ buf'[c].sector = buf[c].sector
                        /\ buf'[c].busy \/ buf'[c].valid => buf[c].busy \/ buf[c].valid
    BY <1>6 DEF Updates, OnlyBuf
  <2> QED BY <1>0, <1>6, <2>1 DEF Updates
<1>7. ASSUME NEW p \in Procs, NEW b \in Bufs, Releases(p, b)
      PROVE  SectorInv'
  <2>1. \A c \in Bufs : /\ buf'[c].sector = buf[c].sector
                        /\ buf'[c].busy \/ buf'[c].valid => buf[c].busy \/ buf[c].valid
    BY <1>7 DEF Releases, OnlyBuf
  <2> QED BY <1>0, <1>7, <2>1 DEF Releases
<1>8. ASSUME NEW p \in Procs, NEW b \in Bufs, Requests(p, b) \/ Returns(p, b)
      PROVE  SectorInv'
  BY <1>0, <1>8 DEF Requests, Returns
<1> QED BY <1>1, <1>2, <1>3, <1>4, <1>5, <1>6, <1>7, <1>8, Steps DEF DeviceStep, ProcStep

(* A buffer changes hands only by bget() and brelse().                     *)
LEMMA HeldStep ==
  ASSUME CacheInv, BufferCacheAssumption, [Next]_vars
  PROVE  HeldInv'
<1> USE DEF HeldInv
<1>0. HeldInv /\ \A p \in Procs : held[p] \in Seq(Bufs) /\ Len(held[p]) \in Nat
  BY InHandFacts DEF CacheInv
<1>a. held \in [Procs -> Seq(Bufs)]
  BY DEF CacheInv, TypeOK
<1>b. \A p \in Procs : \A i \in 1..Len(held[p]) : held[p][i] \in Bufs
  BY <1>0
<1>1. CASE Still
  BY <1>0, <1>1 DEF Still
<1>2. CASE DriveDone \/ DriveFails
  BY <1>0, <1>2 DEF DriveDone, DriveFails
<1>c. ASSUME UNCHANGED held, NEW b \in Bufs, OnlyBuf(b), buf'[b].busy = buf[b].busy
      PROVE  HeldInv'
  <2>1. \A c \in Bufs : buf'[c].busy = buf[c].busy
    BY <1>c DEF OnlyBuf
  <2> QED BY <1>0, <1>b, <1>c, <2>1
<1>3. ASSUME NEW b \in Bufs, Finishes(b)
      PROVE  HeldInv'
  <2>1. UNCHANGED held /\ OnlyBuf(b) /\ buf'[b].busy /\ buf[b].busy
    BY <1>3 DEF Finishes
  <2>2. \A c \in Bufs : buf'[c].busy <=> buf[c].busy
    BY <2>1 DEF OnlyBuf
  <2> QED BY <1>0, <1>b, <2>1, <2>2, SMTT(30)
<1>4. ASSUME NEW p \in Procs, Begins(p)
      PROVE  HeldInv'
  BY <1>0, <1>4 DEF Begins
<1>5. ASSUME NEW p \in Procs, NEW b \in Bufs, NEW s \in Sectors, Gets(p, b, s)
      PROVE  HeldInv'
  <2>1. /\ ~buf[b].busy /\ buf'[b].busy /\ held' = [held EXCEPT ![p] = Append(@, b)]
        /\ \A c \in Bufs \ {b} : buf'[c] = buf[c]
    BY <1>5 DEF Gets, OnlyBuf
  <2>2. /\ \A q \in Procs \ {p} : held'[q] = held[q]
        /\ Len(held'[p]) = Len(held[p]) + 1 /\ held'[p][Len(held[p]) + 1] = b
        /\ \A i \in 1..Len(held[p]) : held'[p][i] = held[p][i]
    BY <1>0, <1>a, <2>1, Appended
  <2>3. \A q \in Procs : \A i \in 1..Len(held[q]) : held[q][i] # b
    BY <1>0, <2>1
  <2>4. \A q \in Procs : \A i \in 1..Len(held'[q]) :
          \/ i \in 1..Len(held[q]) /\ held'[q][i] = held[q][i]
          \/ q = p /\ i = Len(held[p]) + 1 /\ held'[q][i] = b
    <3> SUFFICES ASSUME NEW q \in Procs, NEW i \in 1..Len(held'[q])
                 PROVE  \/ i \in 1..Len(held[q]) /\ held'[q][i] = held[q][i]
                        \/ q = p /\ i = Len(held[p]) + 1 /\ held'[q][i] = b
      OBVIOUS
    <3>1. CASE q # p
      BY <2>2, <3>1
    <3>2. CASE q = p
      <4>1. i \in 1..Len(held[p]) \/ i = Len(held[p]) + 1
        BY <1>0, <2>2, <3>2
      <4> QED BY <2>2, <3>2, <4>1
    <3> QED BY <3>1, <3>2
  <2>5. \A q \in Procs : \A i \in 1..Len(held'[q]) : buf'[held'[q][i]].busy
    BY <1>0, <1>b, <2>1, <2>4
  <2>6. \A q, r \in Procs : \A i \in 1..Len(held'[q]), j \in 1..Len(held'[r]) :
          held'[q][i] = held'[r][j] => q = r /\ i = j
    <3> SUFFICES ASSUME NEW q \in Procs, NEW r \in Procs, NEW i \in 1..Len(held'[q]),
                        NEW j \in 1..Len(held'[r]), held'[q][i] = held'[r][j]
                 PROVE  q = r /\ i = j
      OBVIOUS
    <3>1. CASE i \in 1..Len(held[q]) /\ j \in 1..Len(held[r])
      <4>1. held[q][i] = held[r][j]
        BY <1>0, <2>4, <3>1
      <4> QED BY <1>0, <3>1, <4>1
    <3>2. CASE ~ (i \in 1..Len(held[q]) /\ j \in 1..Len(held[r]))
      BY <2>3, <2>4, <3>2, SMTT(30)
    <3> QED BY <3>1, <3>2
  <2>7. \A q \in Procs : \A i \in 1..Len(held[q]) :
          i \in 1..Len(held'[q]) /\ held'[q][i] = held[q][i]
    BY <1>0, <2>2
  <2>8. \A c \in Bufs : buf'[c].busy => \E q \in Procs : \E i \in 1..Len(held'[q]) : held'[q][i] = c
    <3>1. Len(held[p]) + 1 \in 1..Len(held'[p])
      BY <1>0, <2>2
    <3> QED BY <1>0, <2>1, <2>2, <2>7, <3>1
  <2> QED BY <2>5, <2>6, <2>8
<1>6. ASSUME NEW p \in Procs, NEW b \in Bufs, Updates(p, b)
      PROVE  HeldInv'
  <2>1. UNCHANGED held /\ OnlyBuf(b) /\ buf'[b].busy /\ buf[b].busy
    BY <1>6 DEF Updates
  <2>2. \A c \in Bufs : buf'[c].busy <=> buf[c].busy
    BY <2>1 DEF OnlyBuf
  <2> QED BY <1>0, <1>b, <2>1, <2>2, SMTT(30)
<1>7. ASSUME NEW p \in Procs, NEW b \in Bufs, Releases(p, b)
      PROVE  HeldInv'
  <2>1. /\ ~buf'[b].busy /\ held' = [held EXCEPT ![p] = Front(@)]
        /\ held[p] # <<>> /\ b = held[p][Len(held[p])] /\ Len(held[p]) > 0
        /\ \A c \in Bufs \ {b} : buf'[c] = buf[c]
    BY <1>7, InHandFacts DEF Releases, OnlyBuf
  <2>2. /\ \A q \in Procs \ {p} : held'[q] = held[q]
        /\ Len(held'[p]) = Len(held[p]) - 1
        /\ \A i \in 1..(Len(held[p]) - 1) : held'[p][i] = held[p][i]
    <3>1. held'[p] = Front(held[p]) /\ \A q \in Procs \ {p} : held'[q] = held[q]
      BY <1>a, <2>1
    <3>2. held[p] \in Seq(Bufs) /\ held[p] # <<>>
      BY <1>0, <2>1
    <3> QED BY <3>1, <3>2, Shortened
  <2>3. \A q \in Procs : \A i \in 1..Len(held[q]) :
          held[q][i] = b => q = p /\ i = Len(held[p])
    BY <1>0, <2>1
  <2>4. \A q \in Procs : \A i \in 1..Len(held'[q]) :
          /\ i \in 1..Len(held[q]) /\ held'[q][i] = held[q][i]
          /\ ~ (q = p /\ i = Len(held[p]))
    <3> SUFFICES ASSUME NEW q \in Procs, NEW i \in 1..Len(held'[q])
                 PROVE  /\ i \in 1..Len(held[q]) /\ held'[q][i] = held[q][i]
                        /\ ~ (q = p /\ i = Len(held[p]))
      OBVIOUS
    <3>1. CASE q # p
      BY <2>2, <3>1
    <3>2. CASE q = p
      <4>1. i \in 1..(Len(held[p]) - 1)
        BY <2>2, <3>2
      <4> QED BY <1>0, <2>2, <3>2, <4>1
    <3> QED BY <3>1, <3>2
  <2>5. \A q \in Procs : \A i \in 1..Len(held'[q]) : buf'[held'[q][i]].busy
    BY <1>0, <1>b, <2>1, <2>3, <2>4
  <2>6. \A q, r \in Procs : \A i \in 1..Len(held'[q]), j \in 1..Len(held'[r]) :
          held'[q][i] = held'[r][j] => q = r /\ i = j
    <3> SUFFICES ASSUME NEW q \in Procs, NEW r \in Procs, NEW i \in 1..Len(held'[q]),
                        NEW j \in 1..Len(held'[r]), held'[q][i] = held'[r][j]
                 PROVE  q = r /\ i = j
      OBVIOUS
    <3>1. /\ i \in 1..Len(held[q]) /\ j \in 1..Len(held[r])
          /\ held[q][i] = held[r][j]
      BY <2>4
    <3> QED BY <1>0, <3>1
  <2>7. \A q \in Procs : \A i \in 1..Len(held[q]) :
          (q = p /\ i = Len(held[p])) \/ (i \in 1..Len(held'[q]) /\ held'[q][i] = held[q][i])
    BY <1>0, <2>2
  <2>8. \A c \in Bufs : buf'[c].busy => \E q \in Procs : \E i \in 1..Len(held'[q]) : held'[q][i] = c
    BY <1>0, <2>1, <2>7
  <2> QED BY <2>5, <2>6, <2>8
<1>8. ASSUME NEW p \in Procs, NEW b \in Bufs, Requests(p, b) \/ Returns(p, b)
      PROVE  HeldInv'
  BY <1>0, <1>8, SMTT(30) DEF Requests, Returns
<1> QED BY <1>1, <1>2, <1>3, <1>4, <1>5, <1>6, <1>7, <1>8, Steps DEF DeviceStep, ProcStep

-----------------------------------------------------------------------------
(* Who gets or gives back a buffer changes nobody else's. *)
LEMMA AfterGets ==
  ASSUME CacheInv, NEW p \in Procs, NEW b \in Bufs, NEW s \in Sectors, Gets(p, b, s)
  PROVE  /\ held'[p] # <<>> /\ Mine(p)' = b /\ Len(held'[p]) = Len(held[p]) + 1
         /\ \A q \in Procs \ {p} : held'[q] = held[q] /\ Mine(q)' = Mine(q)
         /\ \A q \in Procs : held[q] # <<>> => Mine(q) # b
<1>1. held \in [Procs -> Seq(Bufs)] /\ held' = [held EXCEPT ![p] = Append(@, b)]
  BY DEF CacheInv, TypeOK, Gets
<1>2. held'[p] = Append(held[p], b) /\ \A q \in Procs \ {p} : held'[q] = held[q]
  BY <1>1
<1>3. /\ held'[p] # <<>> /\ Len(held'[p]) = Len(held[p]) + 1
      /\ held'[p][Len(held[p]) + 1] = b
  BY <1>1, <1>2, Appended
<1>4. \A q \in Procs : held[q] # <<>> => Mine(q) # b
  BY InHandFacts DEF Gets
<1> QED BY <1>2, <1>3, <1>4 DEF Mine, Last

(* brelse() takes the last buffer of its caller, and nobody else's. *)
LEMMA AfterReleases ==
  ASSUME CacheInv, NEW p \in Procs, NEW b \in Bufs, Releases(p, b)
  PROVE  /\ Len(held'[p]) = Len(held[p]) - 1 /\ Len(held[p]) \in Nat
         /\ \A q \in Procs \ {p} : held'[q] = held[q] /\ Mine(q)' = Mine(q)
         /\ \A q \in Procs \ {p} : held[q] # <<>> => Mine(q) # b
<1>1. /\ held \in [Procs -> Seq(Bufs)] /\ held' = [held EXCEPT ![p] = Front(@)]
      /\ held[p] # <<>> /\ Mine(p) = b
  BY DEF CacheInv, TypeOK, Releases
<1>2. held'[p] = Front(held[p]) /\ \A q \in Procs \ {p} : held'[q] = held[q]
  BY <1>1
<1>3. Len(held'[p]) = Len(held[p]) - 1 /\ Len(held[p]) \in Nat
  BY <1>1, <1>2, Shortened
<1>4. \A q \in Procs \ {p} : held[q] # <<>> => Mine(q) # b
  BY <1>1, InHandFacts
<1> QED BY <1>2, <1>3, <1>4 DEF Mine

(* iderw() is entered for a buffer that has to be read or written, and     *)
(* left when it was.                                                       *)
LEMMA IdeStep ==
  ASSUME CacheInv, BufferCacheAssumption, [Next]_vars
  PROVE  IdeInv'
<1> USE DEF IdeInv, WorksFor, InIde, Finished
<1>0. IdeInv
  BY DEF CacheInv
<1>a. pc \in [Procs -> {"run", "iderw", "wait"}] /\ todo \in [Procs -> Seq(Calls)]
  BY DEF CacheInv, TypeOK, ProgInv
<1>b. \A p \in Procs : InIde(p) => held[p] # <<>> /\ Mine(p) \in Bufs /\ buf[Mine(p)].busy
  BY <1>0, InHandFacts
<1>1. CASE Still
  BY <1>0, <1>1 DEF Still, Mine
<1>2. CASE DriveDone \/ DriveFails
  BY <1>0, <1>2 DEF DriveDone, DriveFails, Mine
<1>3. ASSUME NEW b \in Bufs, Finishes(b)
      PROVE  IdeInv'
  <2>1. PICK p \in Procs : pc[p] = "wait" /\ held[p] # <<>> /\ Mine(p) = b
    BY <1>3, InQueueFacts DEF Finishes
  <2>2. \A q \in Procs : pc[q] = "iderw" => Mine(q) # b
    BY <1>b, <2>1, InHandFacts
  <2>3. /\ UNCHANGED <<todo, held, pc>> /\ buf'[b].valid /\ ~buf'[b].dirty
        /\ \A c \in Bufs \ {b} : buf'[c] = buf[c]
    BY <1>3 DEF Finishes, OnlyBuf
  <2>4. \A q \in Procs : Mine(q)' = Mine(q)
    BY <2>3 DEF Mine
  <2>5. \A q \in Procs : pc'[q] = "iderw" => ~Finished(Mine(q))'
    BY <1>0, <1>b, <2>2, <2>3, <2>4
  <2>6. \A c \in Bufs : buf'[c].busy /\ ~Finished(c)' => \E q \in Procs : WorksFor(q, c)'
    BY <1>0, <2>3, <2>4
  <2>7. \A c \in Bufs : buf'[c].dirty => buf'[c].busy
    BY <1>0, <2>3
  <2> QED BY <1>0, <2>3, <2>5, <2>6, <2>7
<1>4. ASSUME NEW p \in Procs, Begins(p)
      PROVE  IdeInv'
  <2>1. /\ UNCHANGED <<buf, held, pc>> /\ pc[p] = "run"
        /\ \A q \in Procs : todo'[q] = todo[q] \/ q = p
    BY <1>4, <1>a DEF Begins
  <2> QED BY <1>0, <2>1 DEF Mine
<1>5. ASSUME NEW p \in Procs, NEW b \in Bufs, NEW s \in Sectors, Gets(p, b, s)
      PROVE  IdeInv'
  <2>1. /\ pc[p] = "run" /\ todo[p] # <<>> /\ Head(todo[p]).op = "bread"
        /\ buf'[b].busy /\ ~buf'[b].dirty /\ ~buf[b].busy
        /\ \A c \in Bufs \ {b} : buf'[c] = buf[c]
    BY <1>5 DEF Gets, OnlyBuf
  <2>2. /\ \A q \in Procs \ {p} : pc'[q] = pc[q] /\ todo'[q] = todo[q]
        /\ ~buf'[b].valid => pc'[p] = "iderw" /\ todo'[p] = todo[p]
        /\ buf'[b].valid => pc'[p] = "run"
    <3>1. /\ pc' \in {pc, [pc EXCEPT ![p] = "iderw"]}
          /\ todo' \in {todo, [todo EXCEPT ![p] = Tail(@)]}
          /\ ~buf'[b].valid => pc' = [pc EXCEPT ![p] = "iderw"] /\ todo' = todo
          /\ buf'[b].valid => pc' = pc
      BY <1>5 DEF Gets
    <3> QED BY <1>a, <2>1, <3>1
  <2>3. /\ held'[p] # <<>> /\ Mine(p)' = b
        /\ \A q \in Procs \ {p} : held'[q] = held[q] /\ Mine(q)' = Mine(q)
        /\ \A q \in Procs : held[q] # <<>> => Mine(q) # b
    BY <1>5, AfterGets
  <2>4. \A q \in Procs : pc'[q] # "run" => /\ held'[q] # <<>> /\ todo'[q] # <<>>
                                           /\ Head(todo'[q]).op \in {"bread", "bwrite"}
    BY <1>0, <2>1, <2>2, <2>3
  <2>5. \A q \in Procs : pc'[q] = "iderw" => ~Finished(Mine(q))'
    BY <1>0, <1>b, <2>1, <2>2, <2>3
  <2>6. \A c \in Bufs : buf'[c].busy /\ ~Finished(c)' => \E q \in Procs : WorksFor(q, c)'
    BY <1>0, <2>1, <2>2, <2>3
  <2>7. \A c \in Bufs : buf'[c].dirty => buf'[c].busy
    BY <1>0, <2>1
  <2> QED BY <2>4, <2>5, <2>6, <2>7
<1>6. ASSUME NEW p \in Procs, NEW b \in Bufs, Updates(p, b)
      PROVE  IdeInv'
  <2>1. /\ pc[p] = "run" /\ todo[p] # <<>> /\ Head(todo[p]).op = "bwrite"
        /\ buf'[b].busy /\ buf'[b].dirty /\ held[p] # <<>> /\ Mine(p) = b
        /\ \A c \in Bufs \ {b} : buf'[c] = buf[c]
        /\ UNCHANGED <<todo, held>> /\ pc' = [pc EXCEPT ![p] = "iderw"]
    BY <1>6 DEF Updates, OnlyBuf
  <2>2. pc'[p] = "iderw" /\ \A q \in Procs \ {p} : pc'[q] = pc[q]
    BY <1>a, <2>1
  <2>3. \A q \in Procs : Mine(q)' = Mine(q)
    BY <2>1 DEF Mine
  <2>4. \A q \in Procs \ {p} : pc[q] # "run" => Mine(q) # b
    BY <1>b, <2>1, InHandFacts
  <2>5. \A q \in Procs : pc'[q] = "iderw" => ~Finished(Mine(q))'
    BY <1>0, <1>b, <2>1, <2>2, <2>3, <2>4
  <2>6. \A c \in Bufs : buf'[c].busy /\ ~Finished(c)' => \E q \in Procs : WorksFor(q, c)'
    BY <1>0, <2>1, <2>2, <2>3
  <2>7. \A c \in Bufs : buf'[c].dirty => buf'[c].busy
    BY <1>0, <2>1
  <2> QED BY <1>0, <2>1, <2>2, <2>5, <2>6, <2>7
<1>7. ASSUME NEW p \in Procs, NEW b \in Bufs, Releases(p, b)
      PROVE  IdeInv'
  <2>1. /\ pc[p] = "run" /\ ~buf'[b].busy /\ ~buf'[b].dirty
        /\ \A c \in Bufs \ {b} : buf'[c] = buf[c]
        /\ UNCHANGED pc /\ todo' = [todo EXCEPT ![p] = Tail(@)]
    BY <1>7 DEF Releases, OnlyBuf
  <2>2. \A q \in Procs \ {p} : todo'[q] = todo[q]
    BY <1>7, <2>1 DEF Releases
  <2>3. /\ \A q \in Procs \ {p} : held'[q] = held[q] /\ Mine(q)' = Mine(q)
        /\ \A q \in Procs \ {p} : held[q] # <<>> => Mine(q) # b
    BY <1>7, AfterReleases
  <2>4. \A q \in Procs : pc'[q] # "run" => /\ held'[q] # <<>> /\ todo'[q] # <<>>
                                           /\ Head(todo'[q]).op \in {"bread", "bwrite"}
    BY <1>0, <2>1, <2>2, <2>3
  <2>5. \A q \in Procs : pc'[q] = "iderw" => ~Finished(Mine(q))'
    BY <1>0, <1>b, <2>1, <2>3
  <2>6. \A c \in Bufs : buf'[c].busy /\ ~Finished(c)' => \E q \in Procs : WorksFor(q, c)'
    BY <1>0, <2>1, <2>3
  <2>7. \A c \in Bufs : buf'[c].dirty => buf'[c].busy
    BY <1>0, <2>1
  <2> QED BY <2>4, <2>5, <2>6, <2>7
<1>8. ASSUME NEW p \in Procs, NEW b \in Bufs, Requests(p, b)
      PROVE  IdeInv'
  <2>1. /\ UNCHANGED <<buf, todo, held>> /\ pc[p] = "iderw" /\ pc'[p] = "wait"
        /\ \A q \in Procs \ {p} : pc'[q] = pc[q]
    BY <1>8, <1>a DEF Requests
  <2> QED BY <1>0, <2>1 DEF Mine
<1>9. ASSUME NEW p \in Procs, NEW b \in Bufs, Returns(p, b)
      PROVE  IdeInv'
  <2>1. /\ UNCHANGED <<buf, held>> /\ Finished(b) /\ Mine(p) = b /\ pc'[p] = "run"
        /\ \A q \in Procs \ {p} : pc'[q] = pc[q] /\ todo'[q] = todo[q]
    BY <1>9, <1>a DEF Returns
  <2> QED BY <1>0, <2>1 DEF Mine
<1> QED BY <1>1, <1>2, <1>3, <1>4, <1>5, <1>6, <1>7, <1>8, <1>9, Steps
        DEF DeviceStep, ProcStep

-----------------------------------------------------------------------------
(* A step that asks for nothing and finishes nothing leaves the queue.     *)
LEMMA QueueKept ==
  ASSUME CacheInv, UNCHANGED idequeue,
         \A p \in Procs : pc[p] = "wait" /\ ~Finished(Mine(p)) <=>
                          pc'[p] = "wait" /\ ~Finished(Mine(p))',
         \A p \in Procs : pc[p] = "wait" /\ ~Finished(Mine(p)) => Mine(p)' = Mine(p)
  PROVE  QueueInv'
<1>1. \A b \in Bufs : Requested(b) <=> \E p \in Procs : /\ pc[p] = "wait" /\ ~Finished(Mine(p))
                                                       /\ Mine(p) = b
  BY DEF Requested
<1>2. \A b \in Bufs : Requested(b)' <=> \E p \in Procs : /\ pc'[p] = "wait" /\ ~Finished(Mine(p))'
                                                        /\ Mine(p)' = b
  BY DEF Requested
<1>3. \A b \in Bufs : Requested(b)' <=> Requested(b)
  BY <1>1, <1>2
<1> QED BY <1>3 DEF CacheInv, QueueInv

(* iderw() puts its own buffer into the queue, and only the interrupt      *)
(* takes one out.                                                          *)
LEMMA QueueStep ==
  ASSUME CacheInv, BufferCacheAssumption, [Next]_vars
  PROVE  QueueInv'
<1>0. QueueInv /\ idequeue \in Seq(Bufs) /\ Len(idequeue) \in Nat
  BY InQueueFacts DEF CacheInv
<1>a. pc \in [Procs -> {"run", "iderw", "wait"}]
  BY DEF CacheInv, TypeOK
<1>b. \A p \in Procs : pc[p] # "run" => /\ held[p] # <<>> /\ Mine(p) \in Bufs
                                        /\ buf[Mine(p)].busy
  BY InHandFacts DEF CacheInv, IdeInv, InIde
<1>1. CASE Still
  BY <1>1, QueueKept DEF Still, Mine, Finished
<1>2. CASE DriveDone \/ DriveFails
  BY <1>2, QueueKept DEF DriveDone, DriveFails, Mine, Finished
<1>3. ASSUME NEW b \in Bufs, Finishes(b)
      PROVE  QueueInv'
  <2>1. /\ UNCHANGED <<held, pc>> /\ buf'[b].valid /\ ~buf'[b].dirty
        /\ idequeue # <<>> /\ b = idequeue[1] /\ idequeue' = Tail(idequeue)
        /\ \A c \in Bufs \ {b} : buf'[c] = buf[c]
    BY <1>3 DEF Finishes, OnlyBuf
  <2>2. /\ Len(idequeue') = Len(idequeue) - 1 /\ Len(idequeue) > 0
        /\ \A i \in 1..(Len(idequeue) - 1) : idequeue'[i] = idequeue[i + 1]
    BY <1>0, <2>1, HeadTailProperties
  <2>3. \A c \in Bufs : Requested(c)' <=> Requested(c) /\ c # b
    BY <2>1 DEF Requested, Mine, Finished
  <2>4. \A i \in 1..Len(idequeue') : /\ i + 1 \in 1..Len(idequeue)
                                     /\ idequeue'[i] = idequeue[i + 1]
    BY <1>0, <2>2
  <2>5. \A i, j \in 1..Len(idequeue') : idequeue'[i] = idequeue'[j] => i = j
    <3> SUFFICES ASSUME NEW i \in 1..Len(idequeue'), NEW j \in 1..Len(idequeue'),
                        idequeue'[i] = idequeue'[j]
                 PROVE  i = j
      OBVIOUS
    <3>1. i + 1 = j + 1
      BY <1>0, <2>4 DEF QueueInv
    <3> QED BY <1>0, <2>2, <3>1
  <2>6. ASSUME NEW c \in Bufs
        PROVE  Requested(c)' <=> \E i \in 1..Len(idequeue') : idequeue'[i] = c
    <3>1. ASSUME NEW i \in 1..Len(idequeue'), idequeue'[i] = c
          PROVE  Requested(c)'
      <4>1. i + 1 \in 1..Len(idequeue) /\ idequeue[i + 1] = c /\ i + 1 # 1 /\ 1 \in 1..Len(idequeue)
        BY <1>0, <2>2, <2>4, <3>1
      <4> QED BY <1>0, <2>1, <2>3, <4>1 DEF QueueInv
    <3>2. ASSUME Requested(c)'
          PROVE  \E i \in 1..Len(idequeue') : idequeue'[i] = c
      <4>1. PICK i \in 1..Len(idequeue) : idequeue[i] = c
        BY <1>0, <2>3, <3>2 DEF QueueInv
      <4>2. i # 1
        BY <2>1, <2>3, <3>2, <4>1
      <4>3. i - 1 \in 1..Len(idequeue') /\ (i - 1) + 1 = i
        BY <1>0, <2>2, <4>2
      <4> QED BY <2>4, <4>1, <4>3
    <3> QED BY <3>1, <3>2
  <2> QED BY <2>5, <2>6 DEF QueueInv
<1>4. ASSUME NEW p \in Procs, Begins(p)
      PROVE  QueueInv'
  BY <1>4, QueueKept DEF Begins, Mine, Finished
<1>5. ASSUME NEW p \in Procs, NEW b \in Bufs, NEW s \in Sectors, Gets(p, b, s)
      PROVE  QueueInv'
  <2>1. /\ UNCHANGED idequeue /\ pc[p] = "run" /\ pc'[p] # "wait"
        /\ \A q \in Procs \ {p} : pc'[q] = pc[q] /\ Mine(q)' = Mine(q)
        /\ \A c \in Bufs \ {b} : buf'[c] = buf[c]
        /\ \A q \in Procs : held[q] # <<>> => Mine(q) # b
    <3>1. pc' \in {pc, [pc EXCEPT ![p] = "iderw"]} /\ pc[p] = "run"
      BY <1>5 DEF Gets
    <3>2. pc'[p] # "wait" /\ \A q \in Procs \ {p} : pc'[q] = pc[q]
      BY <1>a, <3>1
    <3>3. UNCHANGED idequeue /\ \A c \in Bufs \ {b} : buf'[c] = buf[c]
      BY <1>5 DEF Gets, OnlyBuf
    <3> QED BY <1>5, <3>1, <3>2, <3>3, AfterGets
  <2>2. \A q \in Procs : pc[q] = "wait" => q # p /\ buf'[Mine(q)] = buf[Mine(q)]
    BY <1>b, <2>1
  <2> QED BY <2>1, <2>2, QueueKept DEF Finished
<1>6. ASSUME NEW p \in Procs, NEW b \in Bufs, Updates(p, b)
      PROVE  QueueInv'
  <2>1. /\ UNCHANGED <<idequeue, held>> /\ pc[p] = "run" /\ held[p] # <<>> /\ Mine(p) = b
        /\ \A c \in Bufs \ {b} : buf'[c] = buf[c]
        /\ pc' = [pc EXCEPT ![p] = "iderw"]
    BY <1>6 DEF Updates, OnlyBuf
  <2>2. pc'[p] = "iderw" /\ \A q \in Procs \ {p} : pc'[q] = pc[q]
    BY <1>a, <2>1
  <2>3. \A q \in Procs : pc[q] = "wait" => q # p /\ buf'[Mine(q)] = buf[Mine(q)]
    BY <1>b, <2>1, InHandFacts
  <2>4. \A q \in Procs : Mine(q)' = Mine(q)
    BY <2>1 DEF Mine
  <2> QED BY <2>1, <2>2, <2>3, <2>4, QueueKept DEF Finished
<1>7. ASSUME NEW p \in Procs, NEW b \in Bufs, Releases(p, b)
      PROVE  QueueInv'
  <2>1. /\ UNCHANGED <<idequeue, pc>> /\ pc[p] = "run"
        /\ \A c \in Bufs \ {b} : buf'[c] = buf[c]
        /\ \A q \in Procs \ {p} : Mine(q)' = Mine(q)
        /\ \A q \in Procs \ {p} : held[q] # <<>> => Mine(q) # b
    BY <1>7, AfterReleases DEF Releases, OnlyBuf
  <2>2. \A q \in Procs : pc[q] = "wait" => q # p /\ buf'[Mine(q)] = buf[Mine(q)]
    BY <1>b, <2>1
  <2> QED BY <2>1, <2>2, QueueKept DEF Finished
<1>8. ASSUME NEW p \in Procs, NEW b \in Bufs, Requests(p, b)
      PROVE  QueueInv'
  <2>1. /\ UNCHANGED <<buf, held>> /\ pc[p] = "iderw" /\ held[p] # <<>> /\ Mine(p) = b
        /\ ~Finished(b) /\ pc'[p] = "wait" /\ \A q \in Procs \ {p} : pc'[q] = pc[q]
        /\ idequeue' = Append(idequeue, b)
    BY <1>8, <1>a DEF Requests
  <2>2. /\ Len(idequeue') = Len(idequeue) + 1 /\ idequeue'[Len(idequeue) + 1] = b
        /\ \A i \in 1..Len(idequeue) : idequeue'[i] = idequeue[i]
    BY <1>0, <2>1, Appended
  <2>3. ~Requested(b)
    BY <1>b, <2>1, InHandFacts DEF Requested
  <2>4. \A c \in Bufs : Requested(c)' <=> Requested(c) \/ c = b
    BY <2>1 DEF Requested, Mine, Finished
  <2>5. \A i \in 1..Len(idequeue') :
          \/ i \in 1..Len(idequeue) /\ idequeue'[i] = idequeue[i] /\ idequeue[i] # b
          \/ i = Len(idequeue) + 1 /\ idequeue'[i] = b
    <3>1. \A i \in 1..Len(idequeue) : idequeue[i] # b
      BY <1>0, <2>3 DEF QueueInv
    <3> QED BY <1>0, <2>2, <3>1
  <2>6. \A i, j \in 1..Len(idequeue') : idequeue'[i] = idequeue'[j] => i = j
    BY <1>0, <2>5 DEF QueueInv
  <2>7. Len(idequeue) + 1 \in 1..Len(idequeue') /\ 1..Len(idequeue) \subseteq 1..Len(idequeue')
    BY <1>0, <2>2
  <2>8. \A c \in Bufs : Requested(c)' <=> \E i \in 1..Len(idequeue') : idequeue'[i] = c
    BY <1>0, <2>2, <2>4, <2>5, <2>7 DEF QueueInv
  <2> QED BY <2>6, <2>8 DEF QueueInv
<1>9. ASSUME NEW p \in Procs, NEW b \in Bufs, Returns(p, b)
      PROVE  QueueInv'
  <2>1. /\ UNCHANGED <<idequeue, buf, held>> /\ Finished(b) /\ Mine(p) = b /\ pc'[p] = "run"
        /\ \A q \in Procs \ {p} : pc'[q] = pc[q]
    BY <1>9, <1>a DEF Returns
  <2>2. \A q \in Procs : Mine(q)' = Mine(q) /\ (Finished(Mine(q))' <=> Finished(Mine(q)))
    BY <2>1 DEF Mine, Finished
  <2> QED BY <2>1, <2>2, QueueKept
<1> QED BY <1>1, <1>2, <1>3, <1>4, <1>5, <1>6, <1>7, <1>8, <1>9, Steps
        DEF DeviceStep, ProcStep

-----------------------------------------------------------------------------
(* The drive goes on with the head of the queue, if nobody changes that.   *)
LEMMA DriveKept ==
  ASSUME CacheInv, UNCHANGED <<idequeue, drive, disk, spoiled>>,
         \A b \in Bufs : buf[b].busy /\ ~Finished(b) => buf'[b] = buf[b]
  PROVE  DriveInv'
<1>1. idequeue # <<>> => buf'[Head(idequeue)] = buf[Head(idequeue)]
  <2>1. idequeue # <<>> => /\ Head(idequeue) = idequeue[1] /\ 1 \in 1..Len(idequeue)
                           /\ Head(idequeue) \in Bufs
    BY InQueueFacts
  <2> QED BY <2>1, InQueueFacts
<1> QED BY <1>1 DEF CacheInv, DriveInv

(* iderw() starts an idle drive, and the interrupt the next request.       *)
LEMMA DriveStep ==
  ASSUME CacheInv, BufferCacheAssumption, [Next]_vars
  PROVE  DriveInv'
<1>0. DriveInv
  BY DEF CacheInv
<1>1. CASE Still
  BY <1>1, DriveKept DEF Still
<1>2. CASE DriveDone
  <2>1. idequeue # <<>> /\ drive.sector \in Sectors
    BY <1>2, DriveSector DEF DriveDone
  <2>2. drive' = [drive EXCEPT !.st = "done"] /\ UNCHANGED <<idequeue, buf, spoiled>>
    BY <1>2 DEF DriveDone
  <2>3. /\ drive'.st = "done" /\ drive'.write = drive.write
        /\ drive'.sector = drive.sector /\ drive'.data = drive.data
    BY <2>2 DEF CacheInv, TypeOK
  <2>4. drive.write => disk'[drive.sector] = drive.data
    BY <1>2, <2>1 DEF DriveDone, CacheInv, TypeOK
  <2> QED BY <1>0, <2>1, <2>2, <2>3, <2>4 DEF DriveInv
<1>3. CASE DriveFails
  <2>1. idequeue # <<>>
    BY <1>3, DriveSector DEF DriveFails
  <2>2. /\ drive' = [drive EXCEPT !.st = "error"] /\ UNCHANGED <<idequeue, buf, disk>>
        /\ spoiled' = spoiled \cup {drive.sector}
    BY <1>3 DEF DriveFails
  <2>3. /\ drive'.st = "error" /\ drive'.write = drive.write
        /\ drive'.sector = drive.sector /\ drive'.data = drive.data
    BY <2>2 DEF CacheInv, TypeOK
  <2> QED BY <1>0, <2>1, <2>2, <2>3 DEF DriveInv
<1>4. ASSUME NEW b \in Bufs, Finishes(b)
      PROVE  DriveInv'
  <2>1. /\ idequeue # <<>> /\ b = idequeue[1] /\ idequeue' = Tail(idequeue)
        /\ StartNext(Tail(idequeue)) /\ \A c \in Bufs \ {b} : buf'[c] = buf[c]
    BY <1>4 DEF Finishes, OnlyBuf
  <2>2. CASE Tail(idequeue) = <<>>
    BY <2>1, <2>2 DEF StartNext, DriveInv
  <2>3. CASE Tail(idequeue) # <<>>
    <3>1. /\ Head(Tail(idequeue)) = idequeue[2] /\ 2 \in 1..Len(idequeue) /\ 1 \in 1..Len(idequeue)
      BY <2>1, <2>3, InQueueFacts
    <3>2. PICK c \in Bufs : c = Head(Tail(idequeue)) /\ c # b
      BY <2>1, <3>1, InQueueFacts DEF CacheInv, QueueInv
    <3>3. /\ drive' = [st |-> "busy", write |-> buf[c].dirty, sector |-> buf[c].sector,
                       data |-> buf[c].data]
          /\ buf'[c] = buf[c] /\ Head(idequeue') = c /\ idequeue' # <<>>
      BY <2>1, <2>3, <3>2 DEF StartNext, idestart
    <3> QED BY <3>3 DEF DriveInv
  <2> QED BY <2>2, <2>3
<1>5. ASSUME NEW p \in Procs, Begins(p)
      PROVE  DriveInv'
  BY <1>5, DriveKept DEF Begins
<1>6. ASSUME NEW p \in Procs, NEW b \in Bufs, NEW s \in Sectors, Gets(p, b, s)
      PROVE  DriveInv'
  <2>1. /\ UNCHANGED <<idequeue, drive, disk, spoiled>> /\ ~buf[b].busy
        /\ \A c \in Bufs \ {b} : buf'[c] = buf[c]
    BY <1>6 DEF Gets, OnlyBuf
  <2> QED BY <2>1, DriveKept
<1>7. ASSUME NEW p \in Procs, NEW b \in Bufs, Updates(p, b) \/ Releases(p, b)
      PROVE  DriveInv'
  <2>1. /\ UNCHANGED <<idequeue, drive, disk, spoiled>> /\ Finished(b)
        /\ \A c \in Bufs \ {b} : buf'[c] = buf[c]
    BY <1>7 DEF Updates, Releases, OnlyBuf
  <2> QED BY <2>1, DriveKept
<1>8. ASSUME NEW p \in Procs, NEW b \in Bufs, Requests(p, b)
      PROVE  DriveInv'
  <2>1. /\ UNCHANGED <<buf, disk, spoiled>> /\ idequeue' = Append(idequeue, b)
        /\ IF idequeue = <<>> THEN idestart(b) ELSE UNCHANGED drive
    BY <1>8 DEF Requests
  <2>2. idequeue' # <<>> /\ Head(idequeue') = IF idequeue = <<>> THEN b ELSE Head(idequeue)
    BY <2>1, InQueueFacts
  <2>3. CASE idequeue = <<>>
    BY <2>1, <2>2, <2>3 DEF idestart, DriveInv
  <2>4. CASE idequeue # <<>>
    BY <1>0, <2>1, <2>2, <2>4 DEF DriveInv
  <2> QED BY <2>3, <2>4
<1>9. ASSUME NEW p \in Procs, NEW b \in Bufs, Returns(p, b)
      PROVE  DriveInv'
  BY <1>9, DriveKept DEF Returns
<1> QED BY <1>1, <1>2, <1>3, <1>4, <1>5, <1>6, <1>7, <1>8, <1>9, Steps
        DEF DeviceStep, ProcStep

(* What is valid and clean is on the disk, errors apart.                   *)
LEMMA DataStep ==
  ASSUME CacheInv, BufferCacheAssumption, [Next]_vars
  PROVE  DataInv'
<1> USE DEF DataInv
<1>0. DataInv /\ SectorInv
  BY DEF CacheInv
<1>1. CASE Still
  BY <1>0, <1>1 DEF Still
<1>2. CASE DriveDone
  <2>1. PICK h \in Bufs : /\ h = idequeue[1] /\ drive.sector = buf[h].sector
                          /\ drive.sector \in Sectors /\ drive.write = buf[h].dirty
    BY <1>2, DriveSector, InQueueFacts DEF DriveDone, CacheInv, DriveInv
  <2>2. /\ UNCHANGED <<buf, spoiled>>
        /\ disk' = IF drive.write THEN [disk EXCEPT ![drive.sector] = drive.data] ELSE disk
    BY <1>2 DEF DriveDone
  <2>3. ASSUME NEW b \in Bufs, buf[b].valid, ~buf[b].dirty
        PROVE  disk'[buf[b].sector] = disk[buf[b].sector]
    <3>1. drive.write => b # h
      BY <2>1, <2>3
    <3>2. drive.write => buf[b].sector # drive.sector
      BY <1>0, <2>1, <3>1 DEF SectorInv, BufferCacheAssumption
    <3>3. buf[b].sector \in Sectors /\ disk \in [Sectors -> Nat]
      BY <1>0, <2>3 DEF SectorInv, CacheInv, TypeOK
    <3> QED BY <2>2, <3>2, <3>3
  <2> QED BY <1>0, <2>2, <2>3
<1>3. CASE DriveFails
  BY <1>0, <1>3 DEF DriveFails
<1>4. ASSUME NEW b \in Bufs, Finishes(b)
      PROVE  DataInv'
  <2>1. /\ UNCHANGED <<disk, spoiled>> /\ buf'[b].sector = buf[b].sector
        /\ drive.st \in {"done", "error"} /\ \A c \in Bufs \ {b} : buf'[c] = buf[c]
        /\ buf'[b].data = IF ~buf[b].dirty /\ drive.st = "done" THEN disk[drive.sector]
                          ELSE buf[b].data
    BY <1>4 DEF Finishes, OnlyBuf
  <2>2. idequeue # <<>> /\ b = Head(idequeue)
    BY <1>4, InQueueFacts DEF Finishes
  <2>3. /\ drive.sector = buf[b].sector /\ drive.write = buf[b].dirty
        /\ drive.write => drive.data = buf[b].data
        /\ drive.st = "done" /\ drive.write => disk[drive.sector] = drive.data
        /\ drive.st = "error" => drive.sector \in spoiled
    BY <2>2 DEF CacheInv, DriveInv
  <2>4. buf'[b].sector \notin spoiled => buf'[b].data = disk[buf'[b].sector]
    BY <2>1, <2>3
  <2> QED BY <1>0, <2>1, <2>4
<1>5. ASSUME NEW p \in Procs, Begins(p)
      PROVE  DataInv'
  BY <1>0, <1>5 DEF Begins
<1>6. ASSUME NEW p \in Procs, NEW b \in Bufs, NEW s \in Sectors, Gets(p, b, s)
      PROVE  DataInv'
  <2>1. /\ UNCHANGED <<disk, spoiled>> /\ ~buf[b].dirty /\ buf'[b].sector = s
        /\ buf'[b].data = buf[b].data
        /\ \A c \in Bufs \ {b} : buf'[c] = buf[c]
        /\ (buf[b].sector = s /\ buf'[b].valid = buf[b].valid) \/ ~buf'[b].valid
    BY <1>6 DEF Gets, OnlyBuf
  <2> QED BY <1>0, <2>1
<1>7. ASSUME NEW p \in Procs, NEW b \in Bufs, Updates(p, b)
      PROVE  DataInv'
  BY <1>0, <1>7 DEF Updates, OnlyBuf
<1>8. ASSUME NEW p \in Procs, NEW b \in Bufs, Releases(p, b)
      PROVE  DataInv'
  BY <1>0, <1>8 DEF Releases, OnlyBuf, Finished
<1>9. ASSUME NEW p \in Procs, NEW b \in Bufs, Requests(p, b) \/ Returns(p, b)
      PROVE  DataInv'
  BY <1>0, <1>9 DEF Requests, Returns
<1> QED BY <1>1, <1>2, <1>3, <1>4, <1>5, <1>6, <1>7, <1>8, <1>9, Steps
        DEF DeviceStep, ProcStep

-----------------------------------------------------------------------------
(* The calls still to make fit the buffers in hand: a process takes a      *)
(* program only when it has no buffer, and makes the calls in order.       *)
LEMMA ProgStep ==
  ASSUME CacheInv, BufferCacheAssumption, ProgramsAssumption, [Next]_vars
  PROVE  ProgInv'
<1>0. /\ ProgInv /\ todo \in [Procs -> Seq(Calls)] /\ held \in [Procs -> Seq(Bufs)]
      /\ pc \in [Procs -> {"run", "iderw", "wait"}]
      /\ \A p \in Procs : Len(held[p]) \in Nat
  BY InHandFacts DEF CacheInv, ProgInv, TypeOK
<1>a. ASSUME UNCHANGED todo,
             \A p \in Procs : Len(held'[p]) = Len(held[p]) /\ (InIde(p)' <=> InIde(p))
      PROVE  ProgInv'
  BY <1>0, <1>a DEF ProgInv, Level, Reading
<1>b. ASSUME NEW p \in Procs, NEW t \in Seq(Calls), todo' = [todo EXCEPT ![p] = t],
             \A q \in Procs \ {p} : held'[q] = held[q] /\ pc'[q] = pc[q],
             Fits(Len(held'[p]), t), pc'[p] = "run"
      PROVE  ProgInv'
  <2>1. todo' \in [Procs -> Seq(Calls)] /\ todo'[p] = t /\ \A q \in Procs \ {p} : todo'[q] = todo[q]
    BY <1>0, <1>b
  <2>2. Level(p)' = Len(held'[p]) /\ \A q \in Procs \ {p} : Level(q)' = Level(q)
    BY <1>b, <2>1 DEF Level, Reading, InIde
  <2> QED BY <1>0, <1>b, <2>1, <2>2 DEF ProgInv
<1>1. CASE Still
  BY <1>0, <1>1, <1>a DEF Still, InIde
<1>2. CASE DriveDone \/ DriveFails
  BY <1>0, <1>2, <1>a DEF DriveDone, DriveFails, InIde
<1>3. ASSUME NEW b \in Bufs, Finishes(b)
      PROVE  ProgInv'
  BY <1>0, <1>3, <1>a DEF Finishes, InIde
<1>4. ASSUME NEW p \in Procs, Begins(p)
      PROVE  ProgInv'
  <2>1. PICK prog \in Programs[p] : todo' = [todo EXCEPT ![p] = prog]
    BY <1>4 DEF Begins
  <2>2. prog \in Seq(Calls) /\ Fits(0, prog)
    BY FitsProgram
  <2>3. UNCHANGED <<held, pc>> /\ pc[p] = "run" /\ todo[p] = <<>>
    BY <1>4 DEF Begins
  <2>4. Fits(Len(held[p]), <<>>)
    BY <1>0, <2>3 DEF ProgInv, Level, Reading, InIde
  <2>5. Fits(Len(held'[p]), prog)
    BY <2>2, <2>3, <2>4, FitsEmpty
  <2> QED BY <1>b, <2>1, <2>2, <2>3, <2>5
<1>5. ASSUME NEW p \in Procs, NEW b \in Bufs, NEW s \in Sectors, Gets(p, b, s)
      PROVE  ProgInv'
  <2>1. pc[p] = "run" /\ todo[p] # <<>> /\ Head(todo[p]).op = "bread"
    BY <1>5 DEF Gets
  <2>2. Len(held'[p]) = Len(held[p]) + 1 /\ \A q \in Procs \ {p} : held'[q] = held[q]
    BY <1>5, AfterGets
  <2>3. PICK m \in 0..2 : Taken("bread", Len(held[p]), m) /\ Fits(m, Tail(todo[p]))
    BY <2>1, AtCall
  <2>4. CASE buf'[b].valid
    <3>1. todo' = [todo EXCEPT ![p] = Tail(todo[p])] /\ UNCHANGED pc
      BY <1>5, <2>4 DEF Gets
    <3>2. Tail(todo[p]) \in Seq(Calls) /\ Fits(Len(held'[p]), Tail(todo[p]))
      BY <1>0, <2>1, <2>2, <2>3, HeadTailProperties DEF Taken
    <3> QED BY <1>b, <2>1, <2>2, <3>1, <3>2
  <2>5. CASE ~buf'[b].valid
    <3>1. pc' = [pc EXCEPT ![p] = "iderw"] /\ UNCHANGED todo
      BY <1>5, <2>5 DEF Gets
    <3>2. pc'[p] = "iderw" /\ \A q \in Procs \ {p} : pc'[q] = pc[q]
      BY <1>0, <3>1
    <3>3. Level(p)' = Level(p) /\ \A q \in Procs \ {p} : Level(q)' = Level(q)
      BY <1>0, <2>1, <2>2, <3>1, <3>2 DEF Level, Reading, InIde
    <3> QED BY <1>0, <3>1, <3>3 DEF ProgInv
  <2> QED BY <2>4, <2>5
<1>6. ASSUME NEW p \in Procs, NEW b \in Bufs, Updates(p, b)
      PROVE  ProgInv'
  <2>1. /\ pc[p] = "run" /\ Head(todo[p]).op = "bwrite" /\ UNCHANGED <<todo, held>>
        /\ pc' = [pc EXCEPT ![p] = "iderw"]
    BY <1>6 DEF Updates
  <2>2. pc'[p] = "iderw" /\ \A q \in Procs \ {p} : pc'[q] = pc[q]
    BY <1>0, <2>1
  <2>3. Level(p)' = Level(p) /\ \A q \in Procs \ {p} : Level(q)' = Level(q)
    BY <2>1, <2>2 DEF Level, Reading, InIde
  <2> QED BY <1>0, <2>1, <2>3 DEF ProgInv
<1>7. ASSUME NEW p \in Procs, NEW b \in Bufs, Releases(p, b)
      PROVE  ProgInv'
  <2>1. /\ pc[p] = "run" /\ todo[p] # <<>> /\ Head(todo[p]).op = "brelse" /\ UNCHANGED pc
        /\ todo' = [todo EXCEPT ![p] = Tail(todo[p])]
    BY <1>7 DEF Releases
  <2>2. Len(held'[p]) = Len(held[p]) - 1 /\ \A q \in Procs \ {p} : held'[q] = held[q]
    BY <1>7, AfterReleases
  <2>3. PICK m \in 0..2 : Taken("brelse", Len(held[p]), m) /\ Fits(m, Tail(todo[p]))
    BY <2>1, AtCall
  <2>4. Tail(todo[p]) \in Seq(Calls) /\ Fits(Len(held'[p]), Tail(todo[p]))
    BY <1>0, <2>1, <2>2, <2>3, HeadTailProperties DEF Taken
  <2> QED BY <1>b, <2>1, <2>2, <2>4
<1>8. ASSUME NEW p \in Procs, NEW b \in Bufs, Requests(p, b)
      PROVE  ProgInv'
  <2>1. UNCHANGED <<todo, held>> /\ pc[p] = "iderw" /\ pc' = [pc EXCEPT ![p] = "wait"]
    BY <1>8 DEF Requests
  <2>2. \A q \in Procs : InIde(q)' <=> InIde(q)
    BY <1>0, <2>1 DEF InIde
  <2> QED BY <1>a, <2>1, <2>2
<1>9. ASSUME NEW p \in Procs, NEW b \in Bufs, Returns(p, b)
      PROVE  ProgInv'
  <2>1. /\ pc[p] = "wait" /\ InIde(p) /\ todo[p] # <<>> /\ UNCHANGED held
        /\ todo' = [todo EXCEPT ![p] = Tail(todo[p])] /\ pc' = [pc EXCEPT ![p] = "run"]
    BY <1>9 DEF Returns, InIde
  <2>2. Head(todo[p]).op \in {"bread", "bwrite"}
    BY <2>1 DEF CacheInv, IdeInv
  <2>3. todo[p] \in Seq(Calls) /\ Fits(Level(p), todo[p])
    BY <1>0 DEF ProgInv
  <2>4. PICK m \in 0..2 : Taken(Head(todo[p]).op, Level(p), m) /\ Fits(m, Tail(todo[p]))
    BY <2>1, <2>3, FitsTail
  <2>5. m = Len(held[p])
    BY <1>0, <2>1, <2>2, <2>4 DEF Taken, Level, Reading
  <2>6. Tail(todo[p]) \in Seq(Calls) /\ Fits(Len(held'[p]), Tail(todo[p]))
    BY <2>1, <2>3, <2>4, <2>5, HeadTailProperties
  <2>7. pc'[p] = "run" /\ \A q \in Procs \ {p} : pc'[q] = pc[q]
    BY <1>0, <2>1
  <2> QED BY <1>b, <2>1, <2>6, <2>7
<1> QED BY <1>1, <1>2, <1>3, <1>4, <1>5, <1>6, <1>7, <1>8, <1>9, Steps
        DEF DeviceStep, ProcStep

(* The inductive invariant.                                                *)
LEMMA Invariant == Spec => []CacheInv
<1> USE BufferCacheAssumption, ProgramsAssumption
<1>1. Init => CacheInv
  <2> SUFFICES ASSUME Init PROVE CacheInv
    OBVIOUS
  <2>1. NBUF \in Nat \ {0}
    BY DEF BufferCacheAssumption
  <2>2. /\ \A b \in Bufs : NBUF + 1 - b \in 1..NBUF /\ lru[NBUF + 1 - b] = b
        /\ lru \in [1..NBUF -> Bufs] /\ IsInjective(lru)
    BY <2>1 DEF Init, Bufs, IsInjective
  <2>3. \A b \in Bufs : buf[b] = [sector |-> NoSector, busy |-> FALSE, valid |-> FALSE,
                                  dirty |-> FALSE, data |-> 0]
    BY DEF Init
  <2>4. \A p \in Procs : held[p] = <<>> /\ todo[p] = <<>> /\ pc[p] = "run"
    BY DEF Init
  <2>5. idequeue = <<>> /\ drive = Idle
    BY DEF Init
  <2>6. TypeOK
    <3>1. drive \in Command
      BY <2>5, Started
    <3>2. buf \in [Bufs -> Buffer]
      BY DEF Init, Buffer
    <3>3. held \in [Procs -> Seq(Bufs)] /\ idequeue \in Seq(Bufs)
      <4>1. <<>> \in Seq(Bufs)
        OBVIOUS
      <4> QED BY <2>5, <4>1 DEF Init
    <3>5. disk \in [Sectors -> Nat] /\ panicked \in BOOLEAN /\ spoiled \subseteq Sectors
      BY DEF Init
    <3>4. pc \in [Procs -> {"run", "iderw", "wait"}] /\ chan \in [Procs -> Bufs \cup {NoBuf}]
      BY DEF Init
    <3> QED BY <2>2, <3>1, <3>2, <3>3, <3>4, <3>5 DEF TypeOK, Command, Buffer
  <2>7. SectorInv
    BY <2>2, <2>3 DEF SectorInv
  <2>8. HeldInv
    BY <2>3, <2>4 DEF HeldInv
  <2>9. IdeInv
    BY <2>3, <2>4 DEF IdeInv, InIde
  <2>10. QueueInv
    BY <2>4, <2>5 DEF QueueInv, Requested
  <2>11. DriveInv
    BY <2>5 DEF DriveInv
  <2>12. DataInv
    BY <2>3 DEF DataInv
  <2>13. ProgInv
    <3>1. todo \in [Procs -> Seq(Calls)]
      BY DEF Init
    <3>2. Fits(0, <<>>)
      <4>1. PICK n : n = [i \in 1..1 |-> 0]
        OBVIOUS
      <4>2. n \in [1..(Len(<<>>) + 1) -> 0..2] /\ n[1] = 0 /\ n[Len(<<>>) + 1] = 0
        BY <4>1
      <4> QED BY <4>2 DEF Fits
    <3>3. \A p \in Procs : Level(p) = 0
      BY <2>4 DEF Level, Reading, InIde
    <3> QED BY <2>4, <3>1, <3>2, <3>3 DEF ProgInv
  <2> QED BY <2>6, <2>7, <2>8, <2>9, <2>10, <2>11, <2>12, <2>13 DEF CacheInv
<1>2. CacheInv /\ [Next]_vars => CacheInv'
  <2> SUFFICES ASSUME CacheInv, [Next]_vars PROVE CacheInv'
    OBVIOUS
  <2>1. TypeOK' /\ SectorInv' /\ HeldInv' /\ IdeInv'
    BY TypeStep, SectorStep, HeldStep, IdeStep
  <2>2. QueueInv' /\ DriveInv' /\ DataInv' /\ ProgInv'
    BY QueueStep, DriveStep, DataStep, ProgStep
  <2> QED BY <2>1, <2>2 DEF CacheInv
<1> QED BY <1>1, <1>2, PTL DEF Spec

-----------------------------------------------------------------------------
(* The drive works for the head of the queue, started by the first request *)
(* or by the interrupt that finished the one before, and each entry of the *)
(* queue is the request of one process asleep in iderw() (or on its way).  *)
THEOREM DriveServesHeadCorrect == Spec => []DriveServesHead
<1>1. CacheInv => DriveServesHead
  <2> SUFFICES ASSUME CacheInv PROVE DriveServesHead
    OBVIOUS
  <2>1. IF idequeue = <<>> THEN drive = Idle
        ELSE LET b == Head(idequeue)
             IN /\ drive.st # "idle" /\ drive.sector = buf[b].sector
                /\ drive.write = buf[b].dirty
                /\ drive.write => drive.data = buf[b].data
    BY DEF CacheInv, DriveInv
  <2>2. ASSUME NEW b \in Bufs
        PROVE  Cardinality({i \in DOMAIN idequeue : idequeue[i] = b})
                 = Cardinality({p \in Procs : pc[p] = "wait" /\ Mine(p) = b /\ ~Finished(b)})
    <3> DEFINE entries == {i \in DOMAIN idequeue : idequeue[i] = b}
               waiting == {p \in Procs : pc[p] = "wait" /\ Mine(p) = b /\ ~Finished(b)}
    <3>0. DOMAIN idequeue = 1..Len(idequeue)
      BY InQueueFacts
    <3>1. CASE Requested(b)
      <4>1. PICK i \in 1..Len(idequeue) : idequeue[i] = b
        BY <3>1 DEF CacheInv, QueueInv
      <4>2. entries = {i}
        BY <3>0, <4>1 DEF CacheInv, QueueInv
      <4>3. PICK p \in Procs : pc[p] = "wait" /\ Mine(p) = b /\ ~Finished(b)
        BY <3>1 DEF Requested
      <4>4. \A q \in waiting : q = p
        BY <4>3, InHandFacts DEF CacheInv, IdeInv, InIde
      <4>5. waiting = {p}
        BY <4>3, <4>4
      <4> QED BY <4>2, <4>5, FS_Singleton
    <3>2. CASE ~Requested(b)
      <4>1. entries = {}
        BY <3>0, <3>2 DEF CacheInv, QueueInv
      <4>2. waiting = {}
        BY <3>2 DEF Requested
      <4> QED BY <4>1, <4>2
    <3> QED BY <3>1, <3>2
  <2> QED BY <2>1, <2>2 DEF DriveServesHead
<1> QED BY <1>1, Invariant, PTL

(* What is in a buffer that no process reads or writes is on the disk:     *)
(* bwrite() returns only when the drive has the update.                    *)
THEOREM OnDiskCorrect == Spec => []OnDisk
<1>1. CacheInv => OnDisk
  <2> SUFFICES ASSUME CacheInv, NEW b \in Bufs, buf[b].valid, buf[b].sector \notin spoiled,
                      \A p \in Procs : held[p] # <<>> /\ Mine(p) = b => pc[p] = "run"
               PROVE  buf[b].data = disk[buf[b].sector]
    BY DEF OnDisk
  <2>1. ~buf[b].dirty
    <3> SUFFICES ASSUME buf[b].dirty PROVE FALSE
      OBVIOUS
    <3>1. PICK p \in Procs : WorksFor(p, b)
      BY DEF CacheInv, IdeInv, Finished
    <3> QED BY <3>1 DEF WorksFor, InIde
  <2> QED BY <2>1 DEF CacheInv, DataInv
<1> QED BY <1>1, Invariant, PTL

(* As long as nobody panicked, the invariant says what OneBuffer says.     *)
LEMMA OneHolder == CacheInv /\ ~panicked => OneBuffer
<1> SUFFICES ASSUME CacheInv, ~panicked PROVE OneBuffer
  OBVIOUS
<1>1. ASSUME NEW b \in Bufs
      PROVE  Cardinality(Holders(b)) = IF buf[b].busy THEN 1 ELSE 0
  <2>0. \A h : h \in Holders(b) <=>
                 \E q \in Procs : \E j \in 1..Len(held[q]) : h = <<q, j>> /\ held[q][j] = b
    <3>1. \A q \in Procs : DOMAIN held[q] = 1..Len(held[q])
      BY InHandFacts
    <3>2. \A h : h \in Holders(b) <=>
                   \E q \in Procs : h \in {q} \X {j \in DOMAIN held[q] : held[q][j] = b}
      BY DEF Holders
    <3> QED BY <3>1, <3>2
  <2>1. CASE buf[b].busy
    <3>1. PICK p \in Procs : \E i \in 1..Len(held[p]) : held[p][i] = b
      BY <2>1 DEF CacheInv, HeldInv
    <3>2. PICK i \in 1..Len(held[p]) : held[p][i] = b
      BY <3>1
    <3>3. \A q \in Procs : \A j \in 1..Len(held[q]) : held[q][j] = b => q = p /\ j = i
      BY <3>2 DEF CacheInv, HeldInv
    <3>4. \A h : h \in Holders(b) <=> h = <<p, i>>
      BY <2>0, <3>2, <3>3
    <3>5. Holders(b) = {<<p, i>>}
      BY <3>4
    <3> QED BY <2>1, <3>5, FS_Singleton
  <2>2. CASE ~buf[b].busy
    <3>1. \A q \in Procs : \A j \in 1..Len(held[q]) : held[q][j] # b
      BY <2>2 DEF CacheInv, HeldInv
    <3>2. Holders(b) = {}
      BY <2>0, <3>1
    <3> QED BY <2>2, <3>2, FS_EmptySet
  <2> QED BY <2>1, <2>2
<1> QED BY <1>1 DEF CacheInv, SectorInv, OneBuffer

(* A sector has one buffer and a busy buffer one process, unless bget()    *)
(* found no buffer and the kernel stopped.                                 *)
THEOREM OneBufferOrPanic == Spec => [](panicked \/ OneBuffer)
<1>1. CacheInv => panicked \/ OneBuffer
  BY OneHolder
<1> QED BY <1>1, Invariant, PTL

(* A process has at most two buffers, and at most one when it calls        *)
(* bread().                                                                *)
LEMMA AtMostTwo ==
  ASSUME CacheInv, NEW p \in Procs
  PROVE  /\ Len(held[p]) \in 0..2
         /\ pc[p] = "run" /\ todo[p] # <<>> /\ Head(todo[p]).op = "bread" => Len(held[p]) \in 0..1
<1>0. todo[p] \in Seq(Calls) /\ Fits(Level(p), todo[p]) /\ Len(held[p]) \in Nat
  BY InHandFacts DEF CacheInv, ProgInv
<1>1. CASE todo[p] = <<>>
  <2>1. Level(p) = 0 /\ ~Reading(p)
    BY <1>0, <1>1, FitsEmpty DEF CacheInv, IdeInv, Reading
  <2> QED BY <1>0, <1>1, <2>1 DEF Level
<1>2. CASE todo[p] # <<>>
  <2>1. PICK m \in 0..2 : Taken(Head(todo[p]).op, Level(p), m)
    BY <1>0, <1>2, FitsTail
  <2>2. Level(p) \in 0..2
    BY <1>0, <1>2, FitsTail
  <2>0. PICK k \in Nat : k = Len(held[p])
    BY <1>0
  <2>3. CASE Reading(p)
    <3>1. Level(p) = k - 1 /\ Head(todo[p]).op = "bread" /\ pc[p] # "run"
      BY <2>0, <2>3 DEF Level, Reading, InIde
    <3>2. m = k
      BY <2>1, <2>2, <3>1 DEF Taken
    <3> QED BY <2>0, <3>1, <3>2
  <2>4. CASE ~Reading(p)
    <3>1. Level(p) = k
      BY <2>0, <2>4 DEF Level
    <3>2. Head(todo[p]).op = "bread" => m = k + 1
      BY <2>1, <3>1 DEF Taken
    <3>3. k \in 0..2 /\ (Head(todo[p]).op = "bread" => k \in 0..1)
      BY <2>2, <3>1, <3>2
    <3> QED BY <2>0, <3>3
  <2> QED BY <2>3, <2>4
<1> QED BY <1>1, <1>2

(* So many places for buffers there are, if one process has at most one.   *)
LEMMA Places ==
  ASSUME NEW P, IsFiniteSet(P), NEW p \in P
  PROVE  LET slots == (P \X (1..2)) \ {<<p, 2>>}
         IN IsFiniteSet(slots) /\ Cardinality(slots) = 2 * Cardinality(P) - 1
<1>1. 1..2 = {1} \cup {2} /\ 2 \notin {1}
  OBVIOUS
<1>2. IsFiniteSet({1}) /\ Cardinality({1}) = 1
  BY FS_Singleton
<1>3. IsFiniteSet({1} \cup {2}) /\ Cardinality({1} \cup {2}) = Cardinality({1}) + 1
  BY <1>1, <1>2, FS_AddElement
<1>4. IsFiniteSet(1..2) /\ Cardinality(1..2) = 2
  BY <1>1, <1>2, <1>3
<1>5. PICK all : all = P \X (1..2)
  OBVIOUS
<1>6. IsFiniteSet(all) /\ Cardinality(all) = Cardinality(P) * Cardinality(1..2)
  BY <1>4, <1>5, FS_Product
<1>7. IsFiniteSet(all \ {<<p, 2>>}) /\ Cardinality(all \ {<<p, 2>>}) = Cardinality(all) - 1
  <2>1. <<p, 2>> \in all
    BY <1>5
  <2> QED BY <1>6, <2>1, FS_RemoveElement
<1>8. Cardinality(P) \in Nat
  BY FS_CardinalityType
<1> QED BY <1>4, <1>5, <1>6, <1>7, <1>8

(* Where the buffers of a process are.                                     *)
LEMMA PlaceOf ==
  ASSUME CacheInv, NEW p \in Procs, Len(held[p]) \in 0..1,
         NEW q \in Procs, NEW i \in 1..Len(held[q])
  PROVE  i \in 1..2 /\ (q = p => i # 2)
<1>1. \A k \in 0..2 : \A j \in 1..k : j \in 1..2 /\ (k \in 0..1 => j # 2)
  OBVIOUS
<1>2. Len(held[q]) \in 0..2
  BY AtMostTwo
<1>3. i \in 1..2 /\ (Len(held[q]) \in 0..1 => i # 2)
  BY <1>1, <1>2, Zenon
<1> QED BY <1>3

(* With two buffers for each process, one is free for a caller of bread(). *)
LEMMA OneIsFree ==
  ASSUME CacheInv, BufferCacheAssumption, IsFiniteSet(Procs), 2 * Cardinality(Procs) <= NBUF,
         NEW p \in Procs, Len(held[p]) \in 0..1
  PROVE  \E b \in Bufs : ~buf[b].busy
<1> SUFFICES ASSUME \A b \in Bufs : buf[b].busy PROVE FALSE
  OBVIOUS
<1> DEFINE Slots == (Procs \X (1..2)) \ {<<p, 2>>}
<1>1. \A b \in Bufs : \E h \in Slots : h[2] \in 1..Len(held[h[1]]) /\ held[h[1]][h[2]] = b
  <2> SUFFICES ASSUME NEW b \in Bufs
               PROVE  \E h \in Slots : h[2] \in 1..Len(held[h[1]]) /\ held[h[1]][h[2]] = b
    OBVIOUS
  <2>1. PICK q \in Procs : \E i \in 1..Len(held[q]) : held[q][i] = b
    BY DEF CacheInv, HeldInv
  <2>2. PICK i \in 1..Len(held[q]) : held[q][i] = b
    BY <2>1
  <2>3. i \in 1..2 /\ (q = p => i # 2)
    BY PlaceOf
  <2>4. <<q, i>> \in Slots
    BY <2>3
  <2> QED BY <2>2, <2>4
<1>2. IsFiniteSet(Slots) /\ Cardinality(Slots) = 2 * Cardinality(Procs) - 1
  BY Places
<1>3. IsFiniteSet(Bufs) /\ Cardinality(Bufs) = NBUF /\ Cardinality(Procs) \in Nat /\ NBUF \in Nat
  BY FS_Interval, FS_CardinalityType DEF Bufs, BufferCacheAssumption
<1>4. PICK f : f = [b \in Bufs |-> CHOOSE h \in Slots : /\ h[2] \in 1..Len(held[h[1]])
                                                       /\ held[h[1]][h[2]] = b]
  OBVIOUS
<1>5. /\ f \in [Bufs -> Slots]
      /\ \A b \in Bufs : held[f[b][1]][f[b][2]] = b
  <2> HIDE DEF Slots
  <2> QED BY <1>1, <1>4
<1>6. Cardinality(Slots) < Cardinality(Bufs)
  BY <1>2, <1>3
<1>7. \E b, c \in Bufs : b # c /\ f[b] = f[c]
  <2> HIDE DEF Slots
  <2> QED BY <1>2, <1>3, <1>5, <1>6, FS_PigeonHole
<1> QED BY <1>5, <1>7

(* Nobody panics: bget() finds a buffer, and bwrite(), brelse() and        *)
(* iderw() are called with a busy buffer, iderw() with something to do.    *)
LEMMA NobodyPanics ==
  ASSUME CacheInv, BufferCacheAssumption, IsFiniteSet(Procs), 2 * Cardinality(Procs) <= NBUF,
         [Next]_vars, ~panicked
  PROVE  ~panicked'
<1>1. CASE UNCHANGED vars
  BY <1>1 DEF vars
<1>2. CASE Device
  BY <1>2 DEF Device, DriveDone, DriveFails, ideintr
<1>3. ASSUME NEW p \in Procs, Begin(p) \/ kill(p) \/ iderw_wait(p)
      PROVE  ~panicked'
  BY <1>3 DEF Begin, kill, iderw_wait
<1>4. ASSUME NEW p \in Procs, bread(p)
      PROVE  ~panicked'
  <2>1. PICK s : s = Head(todo[p]).sector /\ bget(p, s)
    BY <1>4 DEF bread
  <2>2. Unused # {}
    <3>1. Len(held[p]) \in 0..1
      BY <1>4, AtMostTwo DEF bread, At
    <3>2. \E b \in Bufs : ~buf[b].busy
      BY <3>1, OneIsFree
    <3> QED BY <3>2, Search
  <2>3. panicked' = panicked
    BY <2>1, <2>2 DEF bget
  <2> QED BY <2>3
<1>5. ASSUME NEW p \in Procs, bwrite(p) \/ brelse(p)
      PROVE  ~panicked'
  <2>1. buf[Mine(p)].busy
    BY <1>5, AtCall DEF bwrite, brelse, At
  <2> QED BY <1>5, <2>1 DEF bwrite, brelse
<1>6. ASSUME NEW p \in Procs, iderw(p)
      PROVE  ~panicked'
  <2>1. buf[Mine(p)].busy /\ ~Finished(Mine(p))
    BY <1>6, InHandFacts DEF iderw, CacheInv, IdeInv, InIde
  <2> QED BY <1>6, <2>1 DEF iderw
<1> QED BY <1>1, <1>2, <1>3, <1>4, <1>5, <1>6 DEF Next, Step

(* With two buffers for each process that uses the cache at the same time, *)
(* bget() always finds one and OneBuffer holds as it stands.               *)
THEOREM OneBufferCorrect ==
  ASSUME IsFiniteSet(Procs), 2 * Cardinality(Procs) <= NBUF
  PROVE  Spec => []OneBuffer
<1>1. Init => ~panicked
  BY DEF Init
<1>2. CacheInv /\ ~panicked /\ [Next]_vars => ~panicked'
  BY NobodyPanics, BufferCacheAssumption
<1>3. CacheInv /\ ~panicked => OneBuffer
  BY OneHolder
<1> QED BY <1>1, <1>2, <1>3, Invariant, PTL DEF Spec

-----------------------------------------------------------------------------
(* The cache implements DiskCells.  Who uses a sector: one process, as one *)
(* buffer has the sector and one process that buffer.                      *)
Uses(p, s) == \E i \in 1..Len(held[p]) : buf[held[p][i]].sector = s
(* UserOf() finds the process that has the buffer of a sector, if any. *)
LEMMA UserIs ==
  CacheInv => \A s \in Sectors :
    /\ \A p \in Procs : Uses(p, s) => UserOf(s) = p
    /\ (\A p \in Procs : ~Uses(p, s)) => UserOf(s) = NoOne
<1> SUFFICES ASSUME CacheInv, NEW s \in Sectors
             PROVE  /\ \A p \in Procs : Uses(p, s) => UserOf(s) = p
                    /\ (\A p \in Procs : ~Uses(p, s)) => UserOf(s) = NoOne
  OBVIOUS
<1> DEFINE users == {p \in Procs : \E b \in ToSet(held[p]) : buf[b].sector = s}
<1>1. \A p \in Procs : ToSet(held[p]) = {held[p][i] : i \in 1..Len(held[p])}
  BY InHandFacts DEF ToSet
<1>2. \A p : p \in users <=> p \in Procs /\ Uses(p, s)
  <2>1. \A p \in Procs : (\E b \in ToSet(held[p]) : buf[b].sector = s) <=> Uses(p, s)
    <3> SUFFICES ASSUME NEW p \in Procs
                 PROVE  (\E b \in ToSet(held[p]) : buf[b].sector = s) <=> Uses(p, s)
      OBVIOUS
    <3>1. \A b : b \in ToSet(held[p]) <=> \E i \in 1..Len(held[p]) : held[p][i] = b
      BY <1>1
    <3> QED BY <3>1 DEF Uses
  <2> QED BY <2>1
<1>3. UserOf(s) = IF users = {} THEN NoOne ELSE CHOOSE p \in users : TRUE
  BY DEF UserOf
<1>4. ASSUME NEW p \in Procs, NEW q \in Procs, Uses(p, s), Uses(q, s)
      PROVE  p = q
  <2>1. PICK i \in 1..Len(held[p]) : buf[held[p][i]].sector = s
    BY <1>4 DEF Uses
  <2>2. PICK j \in 1..Len(held[q]) : buf[held[q][j]].sector = s
    BY <1>4 DEF Uses
  <2>3. held[p][i] \in Bufs /\ held[q][j] \in Bufs /\ s # NoSector
    <3>1. held[p] \in Seq(Bufs) /\ held[q] \in Seq(Bufs)
      BY InHandFacts
    <3> QED BY <3>1, BufferCacheAssumption DEF BufferCacheAssumption
  <2>4. held[p][i] = held[q][j]
    BY <2>1, <2>2, <2>3 DEF CacheInv, SectorInv
  <2> QED BY <2>4 DEF CacheInv, HeldInv
<1>5. ASSUME NEW p \in Procs, Uses(p, s)
      PROVE  UserOf(s) = p
  <2>1. users = {p}
    BY <1>2, <1>4, <1>5
  <2> QED BY <1>3, <2>1
<1>6. ASSUME \A p \in Procs : ~Uses(p, s)
      PROVE  UserOf(s) = NoOne
  <2>1. users = {}
    BY <1>2, <1>6
  <2> QED BY <1>3, <2>1
<1> QED BY <1>5, <1>6

(* What the newest contents of a sector are: in its buffer, if that was    *)
(* read or is about to be written, or else on the disk.                    *)
LEMMA NewestIs ==
  CacheInv => \A s \in Sectors :
    /\ s \in spoiled => Newest(s) = Junk
    /\ s \notin spoiled => \A b \in Bufs :
         buf[b].sector = s /\ (buf[b].valid \/ buf[b].dirty) => Newest(s) = buf[b].data
    /\ s \notin spoiled
       /\ (\A b \in Bufs : buf[b].sector = s => ~buf[b].valid /\ ~buf[b].dirty)
       => Newest(s) = disk[s]
<1> SUFFICES ASSUME CacheInv, NEW s \in Sectors
             PROVE  /\ s \in spoiled => Newest(s) = Junk
                    /\ s \notin spoiled => \A b \in Bufs :
                         buf[b].sector = s /\ (buf[b].valid \/ buf[b].dirty)
                         => Newest(s) = buf[b].data
                    /\ s \notin spoiled
                       /\ (\A b \in Bufs : buf[b].sector = s => ~buf[b].valid /\ ~buf[b].dirty)
                       => Newest(s) = disk[s]
  OBVIOUS
<1> DEFINE copies == {b \in Bufs : buf[b].sector = s /\ (buf[b].valid \/ buf[b].dirty)}
<1>1. s \notin spoiled =>
        Newest(s) = IF copies = {} THEN disk[s] ELSE buf[CHOOSE b \in copies : TRUE].data
  BY DEF Newest
<1>2. s \in spoiled => Newest(s) = Junk
  BY DEF Newest
<1>3. ASSUME NEW b \in copies
      PROVE  copies = {b}
  <2>1. \A c \in copies : c = b
    BY BufferCacheAssumption DEF CacheInv, SectorInv, BufferCacheAssumption
  <2> QED BY <2>1
<1>4. \A b \in copies : copies # {} /\ (CHOOSE c \in copies : TRUE) = b
  <2> SUFFICES ASSUME NEW b \in copies
               PROVE  copies # {} /\ (CHOOSE c \in copies : TRUE) = b
    OBVIOUS
  <2>1. copies = {b}
    BY <1>3
  <2> HIDE DEF copies
  <2> QED BY <2>1
<1>5. (\A b \in Bufs : buf[b].sector = s => ~buf[b].valid /\ ~buf[b].dirty) => copies = {}
  OBVIOUS
<1> QED BY <1>1, <1>2, <1>4, <1>5

(* bread() gets the sector, the update of the contents updates it, and     *)
(* brelse() puts it back; a drive error spoils it.  The rest, with what    *)
(* the drive and the interrupt do, is not seen.                            *)
LEMMA CellsStep ==
  ASSUME CacheInv, CacheInv', BufferCacheAssumption, [Next]_vars
  PROVE  [Cells!Next]_(Cells!vars)
<1>u. /\ \A s \in Sectors : /\ \A p \in Procs : Uses(p, s) => UserOf(s) = p
                            /\ (\A p \in Procs : ~Uses(p, s)) => UserOf(s) = NoOne
      /\ \A s \in Sectors : /\ \A p \in Procs : Uses(p, s)' => UserOf(s)' = p
                            /\ (\A p \in Procs : ~Uses(p, s)') => UserOf(s)' = NoOne
  <2>1. CacheInv' => (\A s \in Sectors : /\ \A p \in Procs : Uses(p, s) => UserOf(s) = p
                                         /\ (\A p \in Procs : ~Uses(p, s)) => UserOf(s) = NoOne)'
    BY UserIs, PTL
  <2> QED BY <2>1, UserIs
<1>n. \A s \in Sectors :
        /\ s \in spoiled => Newest(s) = Junk
        /\ s \notin spoiled => \A b \in Bufs :
             buf[b].sector = s /\ (buf[b].valid \/ buf[b].dirty) => Newest(s) = buf[b].data
        /\ s \notin spoiled
           /\ (\A b \in Bufs : buf[b].sector = s => ~buf[b].valid /\ ~buf[b].dirty)
           => Newest(s) = disk[s]
  BY NewestIs
<1>m. \A s \in Sectors :
        /\ s \in spoiled' => Newest(s)' = Junk
        /\ s \notin spoiled' => \A b \in Bufs :
             buf'[b].sector = s /\ (buf'[b].valid \/ buf'[b].dirty) => Newest(s)' = buf'[b].data
        /\ s \notin spoiled'
           /\ (\A b \in Bufs : buf'[b].sector = s => ~buf'[b].valid /\ ~buf'[b].dirty)
           => Newest(s)' = disk'[s]
  <2>1. CacheInv' => (\A s \in Sectors :
          /\ s \in spoiled => Newest(s) = Junk
          /\ s \notin spoiled => \A b \in Bufs :
               buf[b].sector = s /\ (buf[b].valid \/ buf[b].dirty) => Newest(s) = buf[b].data
          /\ s \notin spoiled
             /\ (\A b \in Bufs : buf[b].sector = s => ~buf[b].valid /\ ~buf[b].dirty)
             => Newest(s) = disk[s])'
    BY NewestIs, PTL
  <2> QED BY <2>1
<1>i. \A p \in Procs : \A i \in 1..Len(held[p]) : held[p][i] \in Bufs
  BY InHandFacts
<1>b. ASSUME UNCHANGED held, \A b \in Bufs : buf'[b].sector = buf[b].sector
      PROVE  \A s \in Sectors : UserOf(s)' = UserOf(s)
  <2>1. \A s \in Sectors, p \in Procs : Uses(p, s)' <=> Uses(p, s)
    BY <1>b, <1>i DEF Uses
  <2> QED BY <1>u, <2>1
<1>h. ASSUME NEW p \in Procs, held[p] # <<>>
      PROVE  buf[Mine(p)].sector \in Sectors /\ Uses(p, buf[Mine(p)].sector)
  <2>1. Mine(p) = held[p][Len(held[p])] /\ Len(held[p]) \in 1..Len(held[p])
    BY <1>h, InHandFacts
  <2> QED BY <1>h, <2>1, InHandFacts DEF Uses, CacheInv, SectorInv
<1>s. ASSUME \A s \in Sectors : UserOf(s)' = UserOf(s) /\ Newest(s)' = Newest(s)
      PROVE  UNCHANGED (Cells!vars)
  BY <1>s DEF Cells!vars
<1>1. CASE UNCHANGED <<buf, held, disk, spoiled>>
  <2>1. \A s \in Sectors : Newest(s)' = Newest(s)
    BY <1>1 DEF Newest
  <2> QED BY <1>b, <1>s, <1>1, <2>1
<1>2. CASE DriveDone
  <2>1. PICK h \in Bufs : /\ h = idequeue[1] /\ drive.sector = buf[h].sector
                          /\ drive.sector \in Sectors /\ drive.write = buf[h].dirty
    BY <1>2, DriveSector, InQueueFacts DEF DriveDone, CacheInv, DriveInv
  <2>2. /\ UNCHANGED <<buf, held, spoiled>>
        /\ disk' = IF drive.write THEN [disk EXCEPT ![drive.sector] = drive.data] ELSE disk
    BY <1>2 DEF DriveDone
  <2>3. ASSUME NEW s \in Sectors
        PROVE  Newest(s)' = Newest(s)
    <3>1. CASE drive.write /\ s = drive.sector
      BY <1>n, <1>m, <2>1, <2>2, <3>1
    <3>2. CASE ~ (drive.write /\ s = drive.sector)
      <4>1. disk'[s] = disk[s]
        BY <2>2, <3>2 DEF CacheInv, TypeOK
      <4> QED BY <2>2, <4>1 DEF Newest
    <3> QED BY <3>1, <3>2
  <2> QED BY <1>b, <1>s, <2>2, <2>3
<1>3. CASE DriveFails
  <2>1. PICK s \in Sectors : s = drive.sector /\ idequeue # <<>> /\ s = buf[idequeue[1]].sector
    BY <1>3, DriveSector DEF DriveFails
  <2>2. PICK p \in Procs : held[p] # <<>> /\ Mine(p) = idequeue[1]
    BY <2>1, InQueueFacts DEF WorksFor
  <2>3. UserOf(s) = p /\ p # NoOne
    BY <1>h, <1>u, <2>1, <2>2 DEF BufferCacheAssumption
  <2>4. UNCHANGED <<buf, held, disk>> /\ spoiled' = spoiled \cup {s}
    BY <1>3, <2>1 DEF DriveFails
  <2>5. Newest(s)' = Junk /\ \A t \in Sectors \ {s} : Newest(t)' = Newest(t)
    <3>1. \A t \in Sectors \ {s} : Newest(t)' = Newest(t)
      BY <2>4 DEF Newest
    <3> QED BY <1>m, <2>4, <3>1
  <2>6. \A t \in Sectors : UserOf(t)' = UserOf(t)
    BY <1>b, <2>4
  <2>7. Cells!Spoil(s)
    BY <2>3, <2>5, <2>6 DEF Cells!Spoil
  <2> QED BY <2>7 DEF Cells!Next
<1>4. ASSUME NEW b \in Bufs, Finishes(b)
      PROVE  UNCHANGED (Cells!vars)
  <2>1. /\ UNCHANGED <<held, disk, spoiled>> /\ buf'[b].sector = buf[b].sector
        /\ drive.st \in {"done", "error"} /\ \A c \in Bufs \ {b} : buf'[c] = buf[c]
        /\ buf'[b].data = IF ~buf[b].dirty /\ drive.st = "done" THEN disk[drive.sector]
                          ELSE buf[b].data
        /\ buf'[b].valid /\ ~Finished(b) /\ buf[b].busy
    BY <1>4 DEF Finishes, OnlyBuf
  <2>2. idequeue # <<>> /\ b = Head(idequeue)
    BY <1>4, InQueueFacts DEF Finishes
  <2>3. drive.sector = buf[b].sector /\ (drive.st = "error" => drive.sector \in spoiled)
    BY <2>2 DEF CacheInv, DriveInv
  <2>4. \A c \in Bufs : buf'[c].sector = buf[c].sector
    BY <2>1
  <2>5. ASSUME NEW s \in Sectors
        PROVE  Newest(s)' = Newest(s)
    <3>1. CASE s # buf[b].sector
      <4>1. {c \in Bufs : buf'[c].sector = s /\ (buf'[c].valid \/ buf'[c].dirty)}
              = {c \in Bufs : buf[c].sector = s /\ (buf[c].valid \/ buf[c].dirty)}
        BY <2>1, <3>1
      <4>2. CASE \E c \in Bufs : buf[c].sector = s /\ (buf[c].valid \/ buf[c].dirty)
        <5>1. PICK c \in Bufs : buf[c].sector = s /\ (buf[c].valid \/ buf[c].dirty)
          BY <4>2
        <5>2. buf'[c] = buf[c]
          BY <2>1, <3>1, <5>1
        <5> QED BY <1>n, <1>m, <2>1, <5>1, <5>2
      <4>3. CASE \A c \in Bufs : buf[c].sector = s => ~buf[c].valid /\ ~buf[c].dirty
        BY <1>n, <1>m, <2>1, <3>1, <4>3
      <4> QED BY <4>2, <4>3
    <3>2. CASE s = buf[b].sector /\ s \notin spoiled
      <4>1. Newest(s)' = buf'[b].data
        BY <1>m, <2>1, <3>2
      <4>2. CASE buf[b].dirty
        BY <1>n, <2>1, <3>2, <4>1, <4>2
      <4>3. CASE ~buf[b].dirty
        <5>1. \A c \in Bufs : buf[c].sector = s => c = b
          BY <3>2 DEF CacheInv, SectorInv, BufferCacheAssumption
        <5>2. ~buf[b].valid
          BY <2>1, <4>3 DEF Finished
        <5>3. Newest(s) = disk[s]
          BY <1>n, <3>2, <4>3, <5>1, <5>2
        <5> QED BY <2>1, <2>3, <3>2, <4>1, <4>3, <5>3
      <4> QED BY <4>2, <4>3
    <3>3. CASE s \in spoiled
      BY <1>n, <1>m, <2>1, <3>3
    <3> QED BY <3>1, <3>2, <3>3
  <2> QED BY <1>b, <1>s, <2>1, <2>4, <2>5
<1>5. ASSUME NEW p \in Procs, NEW b \in Bufs, NEW s \in Sectors, Gets(p, b, s)
      PROVE  Cells!Get(p, s)
  <2>1. /\ UNCHANGED <<disk, spoiled>> /\ ~buf[b].busy /\ ~buf[b].dirty
        /\ buf'[b].sector = s /\ ~buf'[b].dirty /\ buf'[b].data = buf[b].data
        /\ \A c \in Bufs \ {b} : buf'[c] = buf[c]
        /\ \/ buf[b].sector = s /\ buf'[b].valid = buf[b].valid
           \/ (\A c \in Bufs : buf[c].sector # s) /\ ~buf'[b].valid
    BY <1>5 DEF Gets, OnlyBuf
  <2>2. /\ held' = [held EXCEPT ![p] = Append(@, b)]
        /\ \A q \in Procs \ {p} : held'[q] = held[q]
        /\ Len(held'[p]) = Len(held[p]) + 1 /\ held'[p][Len(held[p]) + 1] = b
        /\ \A i \in 1..Len(held[p]) : held'[p][i] = held[p][i]
        /\ Len(held[p]) \in Nat
    <3>1. held \in [Procs -> Seq(Bufs)] /\ held' = [held EXCEPT ![p] = Append(@, b)]
      BY <1>5 DEF CacheInv, TypeOK, Gets
    <3>2. held[p] \in Seq(Bufs) /\ held'[p] = Append(held[p], b)
      BY <3>1
    <3> QED BY <3>1, <3>2, Appended
  <2>3. \A q \in Procs : \A i \in 1..Len(held[q]) :
          held[q][i] # b /\ buf'[held[q][i]] = buf[held[q][i]]
    <3>1. \A q \in Procs : \A i \in 1..Len(held[q]) : held[q][i] # b
      BY <2>1 DEF CacheInv, HeldInv
    <3> QED BY <1>i, <2>1, <3>1
  <2>4. \A c \in Bufs \ {b} : buf[c].sector # s
    BY <2>1 DEF CacheInv, SectorInv, BufferCacheAssumption
  <2>5. UserOf(s) = NoOne
    <3>1. \A q \in Procs : ~Uses(q, s)
      BY <1>i, <2>3, <2>4 DEF Uses
    <3> QED BY <1>u, <3>1
  <2>6. UserOf(s)' = p
    <3>1. Uses(p, s)'
      <4>1. Len(held[p]) + 1 \in 1..Len(held'[p])
        BY <2>2
      <4> QED BY <2>1, <2>2, <4>1 DEF Uses
    <3> QED BY <1>u, <3>1
  <2>7. ASSUME NEW t \in Sectors \ {s}
        PROVE  UserOf(t)' = UserOf(t)
    <3>1. ASSUME NEW q \in Procs, Uses(q, t)
          PROVE  Uses(q, t)'
      <4>1. PICK i \in 1..Len(held[q]) : buf[held[q][i]].sector = t
        BY <3>1 DEF Uses
      <4>2. i \in 1..Len(held'[q]) /\ held'[q][i] = held[q][i]
        BY <2>2
      <4> QED BY <2>3, <4>1, <4>2 DEF Uses
    <3>2. ASSUME NEW q \in Procs, Uses(q, t)'
          PROVE  Uses(q, t)
      <4>1. PICK i \in 1..Len(held'[q]) : buf'[held'[q][i]].sector = t
        BY <3>2 DEF Uses
      <4>2. held'[q][i] # b
        BY <2>1, <4>1
      <4>3. i \in 1..Len(held[q]) /\ held'[q][i] = held[q][i]
        <5>1. CASE q = p
          BY <2>2, <4>2, <5>1
        <5>2. CASE q # p
          BY <2>2, <5>2
        <5> QED BY <5>1, <5>2
      <4> QED BY <2>3, <4>1, <4>3 DEF Uses
    <3>3. \A q \in Procs : Uses(q, t)' <=> Uses(q, t)
      BY <3>1, <3>2
    <3> QED BY <1>u, <3>3
  <2>8. ASSUME NEW t \in Sectors
        PROVE  Newest(t)' = Newest(t)
    <3>1. CASE t \in spoiled
      BY <1>n, <1>m, <2>1, <3>1
    <3>2. CASE t \notin spoiled /\ t = s
      BY <1>n, <1>m, <2>1, <2>4, <3>2
    <3>3. CASE t \notin spoiled /\ t # s /\ buf[b].sector # t
      <4>2. CASE \E c \in Bufs : buf[c].sector = t /\ (buf[c].valid \/ buf[c].dirty)
        <5>1. PICK c \in Bufs : buf[c].sector = t /\ (buf[c].valid \/ buf[c].dirty)
          BY <4>2
        <5>2. buf'[c] = buf[c]
          BY <2>1, <3>3, <5>1
        <5> QED BY <1>n, <1>m, <2>1, <3>3, <5>1, <5>2
      <4>3. CASE \A c \in Bufs : buf[c].sector = t => ~buf[c].valid /\ ~buf[c].dirty
        BY <1>n, <1>m, <2>1, <3>3, <4>3
      <4> QED BY <4>2, <4>3
    <3>4. CASE t \notin spoiled /\ t # s /\ buf[b].sector = t
      <4>1. \A c \in Bufs : buf[c].sector = t => c = b
        BY <3>4 DEF CacheInv, SectorInv, BufferCacheAssumption
      <4>2. \A c \in Bufs : buf'[c].sector # t
        BY <2>1, <3>4, <4>1
      <4>3. Newest(t)' = disk[t]
        BY <1>m, <2>1, <3>4, <4>2
      <4>4. buf[b].valid => buf[b].data = disk[t]
        BY <2>1, <3>4 DEF CacheInv, DataInv
      <4> QED BY <1>n, <2>1, <3>4, <4>1, <4>3, <4>4
    <3> QED BY <3>1, <3>2, <3>3, <3>4
  <2> QED BY <2>5, <2>6, <2>7, <2>8 DEF Cells!Get
<1>6. ASSUME NEW p \in Procs, NEW b \in Bufs, Updates(p, b)
      PROVE  Cells!Update(p, buf[b].sector) /\ buf[b].sector \in Sectors
  <2>1. /\ UNCHANGED <<held, disk, spoiled>> /\ held[p] # <<>> /\ Mine(p) = b /\ Finished(b)
        /\ buf'[b].sector = buf[b].sector /\ buf'[b].valid /\ buf'[b].data = buf[b].data + 1
        /\ \A c \in Bufs \ {b} : buf'[c] = buf[c]
    BY <1>6 DEF Updates, OnlyBuf
  <2>2. PICK s \in Sectors : s = buf[b].sector /\ UserOf(s) = p
    BY <1>h, <1>u, <2>1
  <2>3. \A c \in Bufs : buf[c].sector = s => c = b
    BY <2>2 DEF CacheInv, SectorInv, BufferCacheAssumption
  <2>4. \A t \in Sectors : UserOf(t)' = UserOf(t)
    <3>1. \A c \in Bufs : buf'[c].sector = buf[c].sector
      BY <2>1
    <3> QED BY <1>b, <2>1, <3>1
  <2>5. Newest(s)' = IF Newest(s) = Junk THEN Junk ELSE Newest(s) + 1
    <3>1. CASE s \in spoiled
      BY <1>n, <1>m, <2>1, <3>1
    <3>2. CASE s \notin spoiled
      <4>1. Newest(s) = buf[b].data /\ Newest(s)' = buf[b].data + 1
        BY <1>n, <1>m, <2>1, <2>2, <3>2 DEF Finished
      <4>2. buf[b].data \in Nat /\ Junk \notin Nat
        BY DEF CacheInv, TypeOK, BufferCacheAssumption
      <4> QED BY <4>1, <4>2
    <3> QED BY <3>1, <3>2
  <2>6. ASSUME NEW t \in Sectors \ {s}
        PROVE  Newest(t)' = Newest(t)
    <3>1. CASE t \in spoiled
      BY <1>n, <1>m, <2>1, <3>1
    <3>2. CASE t \notin spoiled /\ \E c \in Bufs : buf[c].sector = t /\ (buf[c].valid \/ buf[c].dirty)
      <4>1. PICK c \in Bufs : buf[c].sector = t /\ (buf[c].valid \/ buf[c].dirty)
        BY <3>2
      <4>2. buf'[c] = buf[c]
        BY <2>1, <2>2, <4>1
      <4> QED BY <1>n, <1>m, <2>1, <3>2, <4>1, <4>2
    <3>3. CASE t \notin spoiled /\ \A c \in Bufs : buf[c].sector = t => ~buf[c].valid /\ ~buf[c].dirty
      BY <1>n, <1>m, <2>1, <2>2, <3>3
    <3> QED BY <3>1, <3>2, <3>3
  <2> QED BY <2>2, <2>4, <2>5, <2>6 DEF Cells!Update
<1>7. ASSUME NEW p \in Procs, NEW b \in Bufs, Releases(p, b)
      PROVE  Cells!Put(p, buf[b].sector) /\ buf[b].sector \in Sectors
  <2>1. /\ UNCHANGED <<disk, spoiled>> /\ held[p] # <<>> /\ Mine(p) = b /\ ~buf'[b].busy
        /\ held' = [held EXCEPT ![p] = Front(@)]
        /\ \A c \in Bufs : /\ buf'[c].sector = buf[c].sector /\ buf'[c].data = buf[c].data
                           /\ buf'[c].valid <=> buf[c].valid
                           /\ buf'[c].dirty <=> buf[c].dirty
    BY <1>7 DEF Releases, OnlyBuf, Finished
  <2>2. PICK s \in Sectors : s = buf[b].sector /\ UserOf(s) = p
    BY <1>h, <1>u, <2>1
  <2>3. \A c \in Bufs : buf[c].sector = s => c = b
    BY <2>2 DEF CacheInv, SectorInv, BufferCacheAssumption
  <2>4. /\ \A q \in Procs \ {p} : held'[q] = held[q]
        /\ Len(held'[p]) = Len(held[p]) - 1 /\ Len(held[p]) \in Nat
        /\ \A i \in 1..(Len(held[p]) - 1) : held'[p][i] = held[p][i]
        /\ b = held[p][Len(held[p])]
    <3>1. held \in [Procs -> Seq(Bufs)]
      BY DEF CacheInv, TypeOK
    <3>2. held[p] \in Seq(Bufs) /\ held[p] # <<>> /\ held'[p] = Front(held[p])
      BY <2>1, <3>1
    <3>3. b = held[p][Len(held[p])]
      BY <2>1, InHandFacts
    <3>4. \A q \in Procs \ {p} : held'[q] = held[q]
      BY <2>1, <3>1
    <3> QED BY <3>2, <3>3, <3>4, Shortened
  <2>5. \A q \in Procs : \A i \in 1..Len(held'[q]) :
          i \in 1..Len(held[q]) /\ held'[q][i] = held[q][i]
    <3> SUFFICES ASSUME NEW q \in Procs, NEW i \in 1..Len(held'[q])
                 PROVE  i \in 1..Len(held[q]) /\ held'[q][i] = held[q][i]
      OBVIOUS
    <3>1. CASE q = p
      BY <2>4, <3>1
    <3>2. CASE q # p
      BY <2>4, <3>2
    <3> QED BY <3>1, <3>2
  <2>6. \A q \in Procs : \A i \in 1..Len(held[q]) :
          held[q][i] # b => i \in 1..Len(held'[q]) /\ held'[q][i] = held[q][i]
    <3> SUFFICES ASSUME NEW q \in Procs, NEW i \in 1..Len(held[q]), held[q][i] # b
                 PROVE  i \in 1..Len(held'[q]) /\ held'[q][i] = held[q][i]
      OBVIOUS
    <3>1. CASE q = p
      BY <2>4, <3>1
    <3>2. CASE q # p
      BY <2>4, <3>2
    <3> QED BY <3>1, <3>2
  <2>7. UserOf(s)' = NoOne
    <3>1. \A q \in Procs : ~Uses(q, s)'
      <4> SUFFICES ASSUME NEW q \in Procs, NEW i \in 1..Len(held'[q]),
                          buf'[held'[q][i]].sector = s
                   PROVE  FALSE
        BY DEF Uses
      <4>1. held'[q][i] = b
        BY <1>i, <2>1, <2>3, <2>5
      <4>2. b \in Bufs /\ buf'[b].busy
        BY <4>1 DEF CacheInv, HeldInv
      <4> QED BY <2>1, <4>2
    <3> QED BY <1>u, <3>1
  <2>8. ASSUME NEW t \in Sectors \ {s}
        PROVE  UserOf(t)' = UserOf(t)
    <3>1. ASSUME NEW q \in Procs
          PROVE  Uses(q, t)' <=> Uses(q, t)
      <4>1. ASSUME Uses(q, t) PROVE Uses(q, t)'
        BY <1>i, <2>1, <2>2, <2>6, <4>1 DEF Uses
      <4>2. ASSUME Uses(q, t)' PROVE Uses(q, t)
        BY <1>i, <2>1, <2>5, <4>2 DEF Uses
      <4> QED BY <4>1, <4>2
    <3> QED BY <1>u, <3>1
  <2>9. ASSUME NEW t \in Sectors
        PROVE  Newest(t)' = Newest(t)
    <3>1. CASE t \in spoiled
      BY <1>n, <1>m, <2>1, <3>1
    <3>2. CASE t \notin spoiled /\ \E c \in Bufs : buf[c].sector = t /\ (buf[c].valid \/ buf[c].dirty)
      BY <1>n, <1>m, <2>1, <3>2
    <3>3. CASE t \notin spoiled /\ \A c \in Bufs : buf[c].sector = t => ~buf[c].valid /\ ~buf[c].dirty
      BY <1>n, <1>m, <2>1, <3>3
    <3> QED BY <3>1, <3>2, <3>3
  <2> QED BY <2>2, <2>7, <2>8, <2>9 DEF Cells!Put
<1>8. ASSUME NEW p \in Procs, ProcStep(p)
      PROVE  [Cells!Next]_(Cells!vars)
  <2>1. CASE Begins(p) \/ \E b \in Bufs : Requests(p, b) \/ Returns(p, b)
    BY <1>1, <2>1 DEF Begins, Requests, Returns
  <2>2. CASE \E b \in Bufs, s \in Sectors : Gets(p, b, s)
    BY <1>5, <2>2 DEF Cells!Next
  <2>3. CASE \E b \in Bufs : Updates(p, b)
    BY <1>6, <2>3 DEF Cells!Next
  <2>4. CASE \E b \in Bufs : Releases(p, b)
    BY <1>7, <2>4 DEF Cells!Next
  <2> QED BY <1>8, <2>1, <2>2, <2>3, <2>4 DEF ProcStep
<1>9. CASE Still
  BY <1>1, <1>9 DEF Still
<1> QED BY <1>2, <1>3, <1>4, <1>8, <1>9, Steps DEF DeviceStep

(* What DiskCells promises, the cache keeps: a sector is used by one       *)
(* process at a time and holds the last contents written, whichever buffer *)
(* it is in and however often it was thrown out in between.                *)
THEOREM CacheIsDiskCells == Spec => ImplementsCells
<1>1. Init => Cells!Init
  <2> SUFFICES ASSUME Init PROVE Cells!Init
    OBVIOUS
  <2>1. \A b \in Bufs : ~buf[b].valid /\ ~buf[b].dirty
    BY DEF Init
  <2>2. \A p \in Procs : held[p] = <<>>
    BY DEF Init
  <2>3. ASSUME NEW s \in Sectors
        PROVE  Newest(s) = 0 /\ UserOf(s) = NoOne
    <3>1. {b \in Bufs : buf[b].sector = s /\ (buf[b].valid \/ buf[b].dirty)} = {}
      BY <2>1
    <3>2. spoiled = {} /\ disk[s] = 0
      BY DEF Init
    <3>3. \A p \in Procs : ToSet(held[p]) = {}
      BY <2>2 DEF ToSet
    <3>4. {p \in Procs : \E b \in ToSet(held[p]) : buf[b].sector = s} = {}
      BY <3>3
    <3> QED BY <3>1, <3>2, <3>4 DEF Newest, UserOf
  <2> QED BY <2>3 DEF Cells!Init
<1>2. CacheInv /\ CacheInv' /\ [Next]_vars => [Cells!Next]_(Cells!vars)
  BY CellsStep, BufferCacheAssumption
<1> QED BY <1>1, <1>2, Invariant, PTL DEF Spec, ImplementsCells, Cells!Spec
=============================================================================
