------------------------- MODULE SharedMemoryProofs -------------------------
(***************************************************************************)
(* The two programs of the shared-memory project.  The kernel with the     *)
(* relocated stack: for any address space with a signed reading that holds *)
(* twice the user memory, any programs and any int increments, heap and    *)
(* stack stay apart, and sz and stack_head say exactly which pages are     *)
(* mapped.  The statistics server and its clients: for any finite set of   *)
(* clients and any numbers of slots and segments, a registered client of   *)
(* an undisturbed segment owns exactly one slot of it, and only a full     *)
(* segment turns a client away.                                            *)
(***************************************************************************)
EXTENDS StackLayout, ShmStats, FiniteSetTheorems, TLAPS

(* The stack begins at a page, more than four pages above the heap; what   *)
(* an exited child leaves in its slot is nothing.                          *)
SpaceInv ==
  \A p \in Procs :
    /\ state[p] = "user" => stack_head[p] % PGSIZE = 0 /\ stack_head[p] - sz[p] > 4 * PGSIZE
    /\ state[p] = "unused" => pages[p] = {}

(* As long as a process has its code, also while the kernel panics.        *)
PagesInv ==
  \A p \in Procs : state[p] = "user" /\ Base \in pages[p] =>
    pages[p] = PagesIn(Base, sz[p]) \cup PagesIn(stack_head[p], USERTOP)

FramesInv == free + Cardinality(Mapped) = NFRAMES

StackInv ==
  TypeOK /\ SpaceInv /\ PagesInv /\ FramesInv /\ panicked # "page"

-----------------------------------------------------------------------------
(* The sizes, as far as the proofs use them.                               *)
LEMMA Constants ==
  /\ IsFiniteSet(Procs) /\ INT_MAX \in Nat /\ PGSIZE \in Nat /\ PGSIZE > 0 /\ WORD \in 1..PGSIZE
  /\ NFRAMES \in Nat /\ USERTOP \in Nat /\ USERTOP % PGSIZE = 0 /\ 2 * USERTOP <= INT_MAX
  /\ \A m \in Images : m \in Nat /\ m > 0 /\ Base + m + 6 * PGSIZE <= USERTOP
  /\ \A n \in Increments : n \in -INT_MAX-1..INT_MAX
BY StackLayoutAssumption DEF StackLayoutAssumption

(* Pages: numbers that PGSIZE divides, PGSIZE apart.                       *)
LEMMA Divided ==
  ASSUME NEW x \in Nat
  PROVE  /\ x \div PGSIZE \in Nat /\ x % PGSIZE \in 0..PGSIZE-1
         /\ x = (x \div PGSIZE) * PGSIZE + (x % PGSIZE)
         /\ ((x \div PGSIZE) * PGSIZE) % PGSIZE = 0
BY Constants

(* A page begins at a multiple of the page size.                           *)
LEMMA Multiple ==
  ASSUME NEW x \in Nat, x % PGSIZE = 0
  PROVE  \E k \in Nat : x = k * PGSIZE
<1>1. x \div PGSIZE \in Nat /\ x = (x \div PGSIZE) * PGSIZE + (x % PGSIZE)
  BY Divided
<1>2. PICK k \in Nat : k = x \div PGSIZE
  BY <1>1
<1>3. x = k * PGSIZE
  BY <1>1, <1>2, Constants
<1> QED BY <1>3

(* Two pages do not overlap.                                               *)
LEMMA NextPage ==
  ASSUME NEW x \in Nat, NEW y \in Nat, x % PGSIZE = 0, y % PGSIZE = 0, x < y
  PROVE  x + PGSIZE <= y
<1>1. PICK j \in Nat, k \in Nat : x = j * PGSIZE /\ y = k * PGSIZE
  BY Multiple
<1>2. j < k
  BY <1>1, Constants
<1>3. j * PGSIZE + PGSIZE <= k * PGSIZE
  BY <1>2, Constants
<1> QED BY <1>1, <1>3

(* The page below a page, where growstack() puts the new one.              *)
LEMMA PageBelow ==
  ASSUME NEW x \in Nat, x % PGSIZE = 0, x >= PGSIZE
  PROVE  (x - PGSIZE) % PGSIZE = 0
<1>1. PICK k \in Nat : x = k * PGSIZE
  BY Multiple
<1>2. k >= 1
  BY <1>1, Constants
<1>3. x - PGSIZE = (k - 1) * PGSIZE /\ k - 1 \in Nat
  BY <1>1, <1>2, Constants
<1> QED BY <1>3, Constants

(* The program begins at a page.                                           *)
LEMMA BasePage == Base \in Nat /\ Base % PGSIZE = 0
BY Constants DEF Base

(* Every address is on a page. *)
LEMMA PageOf ==
  ASSUME NEW x \in Nat
  PROVE  \E y \in Nat : y % PGSIZE = 0 /\ y <= x /\ x < y + PGSIZE
<1> DEFINE y == (x \div PGSIZE) * PGSIZE
<1>1. y \in Nat /\ y % PGSIZE = 0 /\ x \in y..(y + PGSIZE - 1)
  BY Divided, Constants
<1> QED BY <1>1, Constants

(* Unsigned and signed readings of what the code computes.                 *)
LEMMA Wrapped ==
  /\ UINTS \in Nat /\ \A x \in 0..UINTS-1 : uint(x) = x
  /\ \A x \in Int : -UINTS <= x /\ x < 0 => uint(x) = x + UINTS
  /\ \A x \in -INT_MAX-1..INT_MAX : int(x) = x
<1>1. UINTS \in Nat /\ UINTS = 2 * (INT_MAX + 1)
  BY Constants DEF UINTS
<1>2. \A x \in 0..UINTS-1 : uint(x) = x
  BY <1>1 DEF uint
<1>3. ASSUME NEW x \in Int, -UINTS <= x, x < 0 PROVE uint(x) = x + UINTS
  BY <1>1, <1>3 DEF uint
<1>4. ASSUME NEW x \in -INT_MAX-1..INT_MAX PROVE int(x) = x
  <2>1. CASE x >= 0
    BY <1>1, <1>2, <2>1, Constants DEF int
  <2>2. CASE x < 0
    BY <1>1, <1>3, <2>2, Constants DEF int
  <2> QED BY <2>1, <2>2, Constants
<1> QED BY <1>1, <1>2, <1>3, <1>4

(* PGROUNDUP() gives the first page at or above an address.                *)
LEMMA RoundedUp ==
  ASSUME NEW a \in 0..USERTOP, PGSIZE <= USERTOP
  PROVE  /\ PGROUNDUP(a) \in Nat /\ PGROUNDUP(a) % PGSIZE = 0
         /\ a <= PGROUNDUP(a) /\ PGROUNDUP(a) < a + PGSIZE
<1>1. PICK z \in Nat : z = a + PGSIZE - 1
  BY Constants
<1>2. uint(z) = z
  <2>1. z \in 0..UINTS-1
    BY <1>1, Constants DEF UINTS
  <2> QED BY <2>1, Wrapped
<1>3. PGROUNDUP(a) = (z \div PGSIZE) * PGSIZE
  BY <1>1, <1>2 DEF PGROUNDUP
<1>4. z \div PGSIZE \in Nat /\ z % PGSIZE \in 0..PGSIZE-1 /\ z - (z % PGSIZE) = (z \div PGSIZE) * PGSIZE
      /\ ((z \div PGSIZE) * PGSIZE) % PGSIZE = 0
  BY Divided, Constants
<1>5. a <= z - (z % PGSIZE) /\ z - (z % PGSIZE) < a + PGSIZE /\ z - (z % PGSIZE) \in Nat
  BY <1>1, <1>4, Constants
<1> QED BY <1>3, <1>4, <1>5

(* There is no page between an address and the page it is rounded up to.   *)
LEMMA NoneBetween ==
  ASSUME NEW a \in 0..USERTOP, PGSIZE <= USERTOP, NEW x \in Nat, x % PGSIZE = 0
  PROVE  a <= x <=> PGROUNDUP(a) <= x
<1>1. ~ (a <= x /\ x < PGROUNDUP(a))
  BY RoundedUp, NextPage, Constants
<1> QED BY <1>1, RoundedUp, Constants

(* The pages between two addresses.                                        *)
LEMMA PageSet ==
  ASSUME NEW a \in Nat, NEW b \in 0..USERTOP
  PROVE  /\ \A x : x \in PagesIn(a, b) <=> x \in Nat /\ x % PGSIZE = 0 /\ a <= x /\ x < b
         /\ PagesIn(a, b) \subseteq PagesIn(0, USERTOP)
<1>1. \A x : x \in PagesIn(a, b) <=> x \in Nat /\ x % PGSIZE = 0 /\ a <= x /\ x < b
  BY Constants DEF PagesIn, Word, UINTS
<1>2. \A x : x \in PagesIn(0, USERTOP) <=> x \in Nat /\ x % PGSIZE = 0 /\ 0 <= x /\ x < USERTOP
  BY Constants DEF PagesIn, Word, UINTS
<1> QED BY <1>1, <1>2, Constants

-----------------------------------------------------------------------------
(* User memory has finitely many pages.                                    *)
LEMMA FiniteMemory ==
  /\ IsFiniteSet(PagesIn(0, USERTOP))
  /\ \A S : S \subseteq PagesIn(0, USERTOP) => IsFiniteSet(S) /\ Cardinality(S) \in Nat
<1>1. PagesIn(0, USERTOP) \in SUBSET Nat /\ \A x \in PagesIn(0, USERTOP) : x <= USERTOP
  BY PageSet, Constants
<1>2. IsFiniteSet(PagesIn(0, USERTOP))
  BY <1>1, Constants, FS_BoundedSetOfNaturals
<1> QED BY <1>2, FS_Subset, FS_CardinalityType

(* A process maps as many frames as it has pages.                          *)
LEMMA PairedWith ==
  ASSUME NEW p, NEW S, IsFiniteSet(S)
  PROVE  IsFiniteSet({p} \X S) /\ Cardinality({p} \X S) = Cardinality(S)
<1>1. IsFiniteSet({p}) /\ Cardinality({p}) = 1
  BY FS_Singleton
<1>2. IsFiniteSet({p} \X S) /\ Cardinality({p} \X S) = Cardinality({p}) * Cardinality(S)
  BY <1>1, FS_Product
<1>3. Cardinality(S) \in Nat
  BY FS_CardinalityType
<1> QED BY <1>1, <1>2, <1>3

(* Frames of different processes, or new and old ones, add up.             *)
LEMMA DisjointUnion ==
  ASSUME NEW A, NEW B, IsFiniteSet(A), IsFiniteSet(B), A \cap B = {}
  PROVE  Cardinality(A \cup B) = Cardinality(A) + Cardinality(B)
<1>1. Cardinality(A \cup B) = Cardinality(A) + Cardinality(B) - Cardinality(A \cap B)
  BY FS_Union
<1>2. PICK n \in Nat, k \in Nat : n = Cardinality(A) /\ k = Cardinality(B)
  BY FS_CardinalityType
<1>3. Cardinality(A \cap B) = 0
  <2>1. Cardinality({}) = 0
    BY FS_EmptySet
  <2> QED BY ONLY A \cap B = {}, <2>1
<1>4. n + k - 0 = n + k
  OBVIOUS
<1> QED BY <1>1, <1>2, <1>3, <1>4

(* What is mapped already takes no frame.                                  *)
LEMMA NothingNew ==
  ASSUME NEW A, NEW B, B \subseteq A
  PROVE  Cardinality(B \ A) = 0
<1>1. PICK C : C = B \ A
  OBVIOUS
<1>2. C = {}
  BY <1>1
<1>3. Cardinality(C) = 0
  BY <1>2, FS_EmptySet
<1> QED BY <1>1, <1>3

(* No frame is lost and none freed twice, whichever pages a process is     *)
(* given.                                                                  *)
LEMMA FramesStep ==
  ASSUME TypeOK, FramesInv, NEW p \in Procs, NEW S \in SUBSET PagesIn(0, USERTOP),
         SetPages(p, S), Cardinality(S \ pages[p]) <= free
  PROVE  /\ pages' \in [Procs -> SUBSET PagesIn(0, USERTOP)]
         /\ free' \in 0..NFRAMES /\ FramesInv'
<1>1. pages[p] \in SUBSET PagesIn(0, USERTOP) /\ free \in 0..NFRAMES
  BY DEF TypeOK
<1>2. pages' = [pages EXCEPT ![p] = S] /\ free' = free + Cardinality(pages[p] \ S) - Cardinality(S \ pages[p])
  BY DEF SetPages
<1>3. pages' \in [Procs -> SUBSET PagesIn(0, USERTOP)]
  BY <1>2 DEF TypeOK
<1> DEFINE Gone == {p} \X (pages[p] \ S)
           New == {p} \X (S \ pages[p])
<1>4. /\ IsFiniteSet(Gone) /\ Cardinality(Gone) = Cardinality(pages[p] \ S) /\ Cardinality(Gone) \in Nat
      /\ IsFiniteSet(New) /\ Cardinality(New) = Cardinality(S \ pages[p]) /\ Cardinality(New) \in Nat
  <2>1. IsFiniteSet(pages[p] \ S) /\ Cardinality(pages[p] \ S) \in Nat
    BY <1>1, FiniteMemory
  <2>2. IsFiniteSet(S \ pages[p]) /\ Cardinality(S \ pages[p]) \in Nat
    BY FiniteMemory
  <2> QED BY <2>1, <2>2, PairedWith
<1>5. Mapped \subseteq Procs \X PagesIn(0, USERTOP)
  BY DEF Mapped, TypeOK
<1>6. IsFiniteSet(Mapped) /\ Cardinality(Mapped) \in Nat
  <2>1. IsFiniteSet(Procs \X PagesIn(0, USERTOP))
    BY FiniteMemory, Constants, FS_Product
  <2> QED BY <1>5, <2>1, FS_Subset, FS_CardinalityType
<1>7. Mapped' = (Mapped \ Gone) \cup New
  BY <1>2 DEF Mapped, TypeOK
<1>8. Gone \subseteq Mapped /\ Mapped \cap New = {} /\ Gone \cap New = {}
  BY DEF Mapped
<1> HIDE DEF Gone, New
<1>9. IsFiniteSet(Mapped \ Gone) /\ Cardinality(Mapped \ Gone) = Cardinality(Mapped) - Cardinality(Gone)
  <2>1. Mapped \cap Gone = Gone
    BY <1>8
  <2> QED BY <1>6, <2>1, FS_Difference
<1>10. Cardinality(Mapped') = Cardinality(Mapped) - Cardinality(Gone) + Cardinality(New)
  <2>1. (Mapped \ Gone) \cap New = {}
    BY <1>8
  <2>2. Cardinality((Mapped \ Gone) \cup New) = Cardinality(Mapped \ Gone) + Cardinality(New)
    BY <1>4, <1>9, <2>1, DisjointUnion
  <2> QED BY <1>7, <1>9, <2>2
<1>11. Cardinality(Mapped') \in Nat
  <2>1. IsFiniteSet((Mapped \ Gone) \cup New)
    BY <1>4, <1>9, FS_Union
  <2> QED BY <1>7, <2>1, FS_CardinalityType
<1>12. free + Cardinality(Mapped) = NFRAMES
  BY DEF FramesInv
<1>13. free' = free + Cardinality(Gone) - Cardinality(New) /\ Cardinality(New) <= free
  BY <1>2, <1>4
<1>14. free' + Cardinality(Mapped') = NFRAMES /\ free' >= 0 /\ free' \in Int
  BY <1>1, <1>4, <1>6, <1>10, <1>12, <1>13
<1>15. free' \in 0..NFRAMES
  BY <1>11, <1>14, Constants
<1> QED BY <1>3, <1>14, <1>15 DEF FramesInv

-----------------------------------------------------------------------------
Fits(st, z, h, S) ==
  /\ st = "user" => h % PGSIZE = 0 /\ h - z > 4 * PGSIZE
  /\ st = "unused" => S = {}
  /\ st = "user" /\ Base \in S => S = PagesIn(Base, z) \cup PagesIn(h, USERTOP)

(* What a system call has to see to for the one process it changes.        *)
LEMMA Updated ==
  ASSUME StackInv, NEW p \in Procs, NEW S \in SUBSET PagesIn(0, USERTOP),
         SetPages(p, S), Cardinality(S \ pages[p]) <= free,
         NEW st \in {"unused", "user", "zombie"}, state' = [state EXCEPT ![p] = st],
         NEW z \in 0..USERTOP, sz' = [sz EXCEPT ![p] = z],
         NEW h \in 0..USERTOP, stack_head' = [stack_head EXCEPT ![p] = h],
         panicked' \in {"no", "memory"}, Fits(st, z, h, S)
  PROVE  StackInv'
<1>0. TypeOK /\ SpaceInv /\ PagesInv /\ FramesInv
  BY DEF StackInv
<1>1. pages' \in [Procs -> SUBSET PagesIn(0, USERTOP)] /\ free' \in 0..NFRAMES /\ FramesInv'
  BY <1>0, FramesStep
<1>2. pages' = [pages EXCEPT ![p] = S]
  BY DEF SetPages
<1>3. TypeOK'
  BY <1>0, <1>1 DEF TypeOK
<1>4. SpaceInv'
  BY <1>0, <1>2 DEF TypeOK, SpaceInv, Fits
<1>5. PagesInv'
  BY <1>0, <1>2 DEF TypeOK, PagesInv, Fits
<1> QED BY <1>1, <1>3, <1>4, <1>5 DEF StackInv

(* A step that changes no address space keeps the invariant; a killed      *)
(* process keeps its pages until wait() frees them.                        *)
LEMMA Untouched ==
  ASSUME StackInv, UNCHANGED <<sz, stack_head, pages, free>>, panicked' # "page", TypeOK',
         \A p \in Procs : state'[p] \in {state[p], "zombie"}
  PROVE  StackInv'
<1>1. SpaceInv' /\ PagesInv'
  BY DEF StackInv, SpaceInv, PagesInv
<1>2. FramesInv'
  BY DEF StackInv, FramesInv, Mapped
<1> QED BY <1>1, <1>2 DEF StackInv

(* A process that runs, and where heap and stack of it are.                *)
LEMMA Running ==
  ASSUME StackInv, NEW p \in Procs, Runs(p)
  PROVE  /\ state[p] = "user" /\ panicked = "no" /\ free \in 0..NFRAMES
         /\ sz[p] \in 0..USERTOP /\ stack_head[p] \in 0..USERTOP
         /\ stack_head[p] % PGSIZE = 0 /\ stack_head[p] - sz[p] > 4 * PGSIZE
         /\ PGSIZE <= USERTOP /\ Base < sz[p] /\ Base \in 0..USERTOP
         /\ pages[p] \in SUBSET PagesIn(0, USERTOP)
         /\ pages[p] = PagesIn(Base, sz[p]) \cup PagesIn(stack_head[p], USERTOP)
<1>1. /\ state[p] = "user" /\ panicked = "no" /\ Base \in pages[p] /\ free \in 0..NFRAMES
      /\ sz[p] \in 0..USERTOP /\ stack_head[p] \in 0..USERTOP
      /\ pages[p] \in SUBSET PagesIn(0, USERTOP)
  BY DEF Runs, StackInv, TypeOK
<1>2. stack_head[p] % PGSIZE = 0 /\ stack_head[p] - sz[p] > 4 * PGSIZE
  BY <1>1 DEF StackInv, SpaceInv
<1>3. pages[p] = PagesIn(Base, sz[p]) \cup PagesIn(stack_head[p], USERTOP)
  BY <1>1 DEF StackInv, PagesInv
<1>4. PGSIZE <= USERTOP /\ Base \in 0..USERTOP /\ Base < stack_head[p]
  BY <1>1, <1>2, Constants DEF Base
<1>5. Base < sz[p]
  <2>1. Base \in PagesIn(Base, sz[p]) \/ Base \in PagesIn(stack_head[p], USERTOP)
    BY <1>1, <1>3
  <2> QED BY <1>1, <1>4, <2>1, PageSet, Constants, SMTT(30)
<1> QED BY <1>1, <1>2, <1>3, <1>4, <1>5

-----------------------------------------------------------------------------
(* growproc() with n > 0 and with n <= 0.                                  *)
LEMMA SbrkStep ==
  ASSUME StackInv, NEW p \in Procs, NEW n \in Increments, sbrk(p, n)
  PROVE  StackInv'
<1> DEFINE new == uint(sz[p] + n)
<1>0. Runs(p) /\ ~(Gap(p, n) < 5 * PGSIZE) /\ UNCHANGED <<state, stack_head, panicked>>
  BY DEF sbrk
<1>1. /\ state[p] = "user" /\ panicked = "no" /\ free \in 0..NFRAMES
      /\ sz[p] \in 0..USERTOP /\ stack_head[p] \in 0..USERTOP
      /\ stack_head[p] % PGSIZE = 0 /\ stack_head[p] - sz[p] > 4 * PGSIZE
      /\ PGSIZE <= USERTOP /\ Base < sz[p] /\ Base \in 0..USERTOP
      /\ pages[p] \in SUBSET PagesIn(0, USERTOP)
      /\ pages[p] = PagesIn(Base, sz[p]) \cup PagesIn(stack_head[p], USERTOP)
  BY <1>0, Running
<1>2. state' = [state EXCEPT ![p] = "user"] /\ stack_head' = [stack_head EXCEPT ![p] = stack_head[p]]
      /\ panicked' \in {"no", "memory"}
  BY <1>0, <1>1 DEF StackInv, TypeOK
<1>3. new \in Nat /\ (new <= USERTOP => new = sz[p] + n /\ Gap(p, n) = stack_head[p] - new)
  <2>1. PICK x \in Int : x = sz[p] + n /\ -INT_MAX-1 <= x /\ x <= INT_MAX + USERTOP
    BY <1>1, Constants
  <2>2. CASE x >= 0
    <3>1. uint(x) = x
      <4>1. x \in 0..UINTS-1
        BY <2>1, <2>2, Constants DEF UINTS
      <4> QED BY <4>1, Wrapped
    <3>2. x <= USERTOP => int(stack_head[p] - sz[p] - n) = stack_head[p] - x
      <4> SUFFICES ASSUME x <= USERTOP PROVE int(stack_head[p] - sz[p] - n) = stack_head[p] - x
        OBVIOUS
      <4>1. stack_head[p] - sz[p] - n = stack_head[p] - x
        BY <1>1, <2>1, Constants
      <4>2. stack_head[p] - x \in -INT_MAX-1..INT_MAX
        BY <1>1, <2>2, Constants
      <4> QED BY <4>1, <4>2, Wrapped
    <3> QED BY <2>1, <2>2, <3>1, <3>2 DEF Gap
  <2>3. CASE x < 0
    <3>1. -UINTS <= x
      BY <2>1, Constants DEF UINTS
    <3>2. uint(x) = x + UINTS
      BY <2>3, <3>1, Wrapped
    <3>3. x + UINTS \in Nat /\ x + UINTS > USERTOP
      BY <2>1, Constants DEF UINTS
    <3>4. new = x + UINTS
      BY <2>1, <3>2
    <3> HIDE DEF new
    <3> QED BY <3>3, <3>4, Constants
  <2> QED BY <2>1, <2>2, <2>3
<1>4. ASSUME SetPages(p, pages[p]), sz' = [sz EXCEPT ![p] = sz[p]] PROVE StackInv'
  <2>1. Cardinality(pages[p] \ pages[p]) <= free
    <3>1. Cardinality(pages[p] \ pages[p]) = 0
      BY NothingNew
    <3> QED BY <1>1, <3>1, Constants
  <2>2. Fits("user", sz[p], stack_head[p], pages[p])
    BY <1>1 DEF Fits
  <2> QED BY <1>1, <1>2, <1>4, <2>1, <2>2, Updated
<1> HIDE DEF new
<1>5. CASE n > 0
  <2>1. /\ SetPages(p, Allocated(p, sz[p], new))
        /\ sz' = [sz EXCEPT ![p] = IF allocuvm(sz[p], new) = 0 THEN sz[p] ELSE allocuvm(sz[p], new)]
    BY <1>5 DEF sbrk, new
  <2>2. CASE new > USERTOP \/ new < sz[p] \/ Cardinality(Fresh(sz[p], new)) > free
    <3>1. Allocated(p, sz[p], new) = pages[p] /\ allocuvm(sz[p], new) \in {0, sz[p]}
      BY <2>2 DEF Allocated, allocuvm
    <3> QED BY <1>4, <2>1, <3>1
  <2>3. CASE ~(new > USERTOP \/ new < sz[p] \/ Cardinality(Fresh(sz[p], new)) > free)
    <3> DEFINE S == pages[p] \cup Fresh(sz[p], new)
    <3>1. Allocated(p, sz[p], new) = S /\ allocuvm(sz[p], new) = new
      BY <2>3 DEF Allocated, allocuvm
    <3>2. new \in 0..USERTOP /\ sz[p] <= new /\ new > 0
      BY <1>1, <1>3, <2>3, Constants DEF Base
    <3>3. sz' = [sz EXCEPT ![p] = new]
      <4>1. (IF allocuvm(sz[p], new) = 0 THEN sz[p] ELSE allocuvm(sz[p], new)) = new
        BY <3>1, <3>2
      <4> QED BY <2>1, <4>1
    <3>4. stack_head[p] - new > 4 * PGSIZE
      BY <1>0, <1>1, <1>3, <3>2, Constants
    <3>5. Fresh(sz[p], new) \subseteq PagesIn(0, USERTOP)
      BY <1>1, <3>2, RoundedUp, PageSet DEF Fresh
    <3>6. Cardinality(S \ pages[p]) <= free
      <4>1. S \ pages[p] \subseteq Fresh(sz[p], new)
        OBVIOUS
      <4>2. IsFiniteSet(Fresh(sz[p], new)) /\ Cardinality(Fresh(sz[p], new)) \in Nat
        BY <3>5, FiniteMemory
      <4>3. Cardinality(S \ pages[p]) <= Cardinality(Fresh(sz[p], new)) /\ Cardinality(S \ pages[p]) \in Nat
        BY <3>5, <4>1, <4>2, FS_Subset, FiniteMemory
      <4> QED BY <1>1, <2>3, <4>2, <4>3, Constants
    <3>7. S = PagesIn(Base, new) \cup PagesIn(stack_head[p], USERTOP)
      <4>1. \A x : x \in Fresh(sz[p], new) <=> x \in Nat /\ x % PGSIZE = 0 /\ sz[p] <= x /\ x < new
        BY <1>1, <3>2, RoundedUp, PageSet, NoneBetween DEF Fresh
      <4>2. \A x : x \in PagesIn(Base, new) <=> x \in PagesIn(Base, sz[p]) \/ x \in Fresh(sz[p], new)
        BY <1>1, <3>2, <4>1, PageSet, Constants
      <4> QED BY <1>1, <4>2
    <3>8. Fits("user", new, stack_head[p], S)
      BY <1>1, <3>4, <3>7 DEF Fits
    <3>9. S \in SUBSET PagesIn(0, USERTOP)
      BY <1>1, <3>5
    <3>10. SetPages(p, S)
      BY <2>1, <3>1
    <3> HIDE DEF S
    <3> QED BY <1>1, <1>2, <3>2, <3>3, <3>6, <3>8, <3>9, <3>10, Updated
  <2> QED BY <2>2, <2>3
<1>6. CASE ~(n > 0)
  <2>1. /\ SetPages(p, Deallocated(p, sz[p], new))
        /\ sz' = [sz EXCEPT ![p] = IF deallocuvm(sz[p], new) = 0 THEN sz[p] ELSE deallocuvm(sz[p], new)]
    BY <1>6 DEF sbrk, new
  <2>2. CASE new >= sz[p]
    <3>1. Deallocated(p, sz[p], new) = pages[p] /\ deallocuvm(sz[p], new) = sz[p]
      BY <2>2 DEF Deallocated, deallocuvm
    <3> QED BY <1>4, <2>1, <3>1
  <2>3. CASE ~(new >= sz[p])
    <3> DEFINE S == pages[p] \ PagesIn(PGROUNDUP(new), sz[p])
               z == IF new = 0 THEN sz[p] ELSE new
    <3>1. SetPages(p, S) /\ sz' = [sz EXCEPT ![p] = z]
      BY <2>1, <2>3 DEF Deallocated, deallocuvm
    <3>2. new \in 0..USERTOP /\ z \in 0..USERTOP /\ z <= sz[p] /\ new < sz[p]
      BY <1>1, <1>3, <2>3, Constants
    <3>3. Cardinality(S \ pages[p]) <= free
      <4>1. Cardinality(S \ pages[p]) = 0
        BY NothingNew
      <4> QED BY <1>1, <4>1, Constants
    <3>4. \A x : x \in PagesIn(PGROUNDUP(new), sz[p]) <=> x \in Nat /\ x % PGSIZE = 0 /\ new <= x /\ x < sz[p]
      BY <1>1, <3>2, RoundedUp, PageSet, NoneBetween
    <3>5. Base \in S => z = new /\ S = PagesIn(Base, new) \cup PagesIn(stack_head[p], USERTOP)
      <4> SUFFICES ASSUME Base \in S
                   PROVE  z = new /\ S = PagesIn(Base, new) \cup PagesIn(stack_head[p], USERTOP)
        OBVIOUS
      <4>1. Base < new
        BY <1>1, <3>2, <3>4, BasePage, Constants
      <4>2. \A x : x \in PagesIn(Base, new) <=>
                     x \in PagesIn(Base, sz[p]) /\ x \notin PagesIn(PGROUNDUP(new), sz[p])
        <5>1. \A x : x \in PagesIn(Base, new) <=> x \in Nat /\ x % PGSIZE = 0 /\ Base <= x /\ x < new
          BY <1>1, <3>2, PageSet
        <5>2. \A x : x \in PagesIn(Base, sz[p]) <=> x \in Nat /\ x % PGSIZE = 0 /\ Base <= x /\ x < sz[p]
          BY <1>1, PageSet
        <5>3. sz[p] \in Nat /\ new \in Nat /\ new < sz[p]
          BY <1>1, <3>2, Constants
        <5> QED BY <3>4, <5>1, <5>2, <5>3
      <4>3. \A x \in PagesIn(stack_head[p], USERTOP) : x \notin PagesIn(PGROUNDUP(new), sz[p])
        BY <1>1, <3>4, PageSet, Constants
      <4> QED BY <1>1, <4>1, <4>2, <4>3, BasePage
    <3>6. stack_head[p] - z > 4 * PGSIZE
      BY <1>1, <3>2, Constants
    <3>7. Fits("user", z, stack_head[p], S)
      BY <1>1, <3>5, <3>6 DEF Fits
    <3>8. S \in SUBSET PagesIn(0, USERTOP)
      BY <1>1
    <3> HIDE DEF S, z
    <3> QED BY <1>1, <1>2, <3>1, <3>2, <3>3, <3>7, <3>8, Updated
  <2> QED BY <2>2, <2>3
<1> QED BY <1>5, <1>6

(* The page just below the stack; growstack() is asked for it at any       *)
(* address that is not refused.                                            *)
LEMMA GrowStep ==
  ASSUME StackInv, NEW p \in Procs, Runs(p), NEW a \in 0..USERTOP, growstack(p, a)
  PROVE  StackInv'
<1>1. /\ state[p] = "user" /\ panicked = "no" /\ free \in 0..NFRAMES
      /\ sz[p] \in 0..USERTOP /\ stack_head[p] \in 0..USERTOP
      /\ stack_head[p] % PGSIZE = 0 /\ stack_head[p] - sz[p] > 4 * PGSIZE
      /\ PGSIZE <= USERTOP /\ Base < sz[p] /\ Base \in 0..USERTOP
      /\ pages[p] \in SUBSET PagesIn(0, USERTOP)
      /\ pages[p] = PagesIn(Base, sz[p]) \cup PagesIn(stack_head[p], USERTOP)
  BY Running
<1>2. PICK h \in 0..USERTOP : h = stack_head[p] - PGSIZE
  BY <1>1, Constants
<1>3. uint(stack_head[p] - PGSIZE) = h /\ uint(stack_head[p] - sz[p]) = stack_head[p] - sz[p]
  <2>1. h \in 0..UINTS-1 /\ stack_head[p] - sz[p] \in 0..UINTS-1
    BY <1>1, <1>2, Constants DEF UINTS
  <2> QED BY <1>2, <2>1, Wrapped
<1>4. /\ stack_head[p] - sz[p] > 5 * PGSIZE
      /\ allocuvm(h, stack_head[p]) # 0
      /\ SetPages(p, Allocated(p, h, stack_head[p]))
      /\ stack_head' = [stack_head EXCEPT ![p] = h]
      /\ UNCHANGED <<state, sz, panicked>>
  BY <1>3 DEF growstack, Room
<1> DEFINE S == pages[p] \cup Fresh(h, stack_head[p])
<1>5. Cardinality(Fresh(h, stack_head[p])) <= free /\ Allocated(p, h, stack_head[p]) = S
  <2>1. h < stack_head[p] /\ ~(stack_head[p] > USERTOP) /\ ~(stack_head[p] < h)
    BY <1>1, <1>2, Constants
  <2>2. ~(Cardinality(Fresh(h, stack_head[p])) > free)
    BY <1>4, <2>1 DEF allocuvm
  <2>3. Cardinality(Fresh(h, stack_head[p])) \in Nat
    <3>1. Fresh(h, stack_head[p]) \subseteq PagesIn(0, USERTOP)
      BY <1>1, RoundedUp, PageSet DEF Fresh
    <3> QED BY <3>1, FiniteMemory
  <2> QED BY <1>1, <2>1, <2>2, <2>3, Constants DEF Allocated
<1>6. \A x : x \in Fresh(h, stack_head[p]) <=> x \in Nat /\ x % PGSIZE = 0 /\ h <= x /\ x < stack_head[p]
  BY <1>1, RoundedUp, PageSet, NoneBetween DEF Fresh
<1>7. Fresh(h, stack_head[p]) \subseteq PagesIn(0, USERTOP)
  BY <1>1, RoundedUp, PageSet DEF Fresh
<1>8. Cardinality(S \ pages[p]) <= free
  <2>1. S \ pages[p] \subseteq Fresh(h, stack_head[p])
    OBVIOUS
  <2>2. IsFiniteSet(Fresh(h, stack_head[p])) /\ Cardinality(Fresh(h, stack_head[p])) \in Nat
    BY <1>7, FiniteMemory
  <2>3. Cardinality(S \ pages[p]) <= Cardinality(Fresh(h, stack_head[p])) /\ Cardinality(S \ pages[p]) \in Nat
    BY <1>7, <2>1, <2>2, FS_Subset, FiniteMemory
  <2> QED BY <1>1, <1>5, <2>2, <2>3, Constants
<1>9. S = PagesIn(Base, sz[p]) \cup PagesIn(h, USERTOP)
  <2>1. \A x : x \in PagesIn(h, USERTOP) <=> x \in Nat /\ x % PGSIZE = 0 /\ h <= x /\ x < USERTOP
    BY PageSet, Constants
  <2>2. \A x : x \in PagesIn(stack_head[p], USERTOP) <=> x \in Nat /\ x % PGSIZE = 0 /\ stack_head[p] <= x /\ x < USERTOP
    BY <1>1, PageSet, Constants
  <2>3. h \in Nat /\ stack_head[p] \in Nat /\ h <= stack_head[p] /\ stack_head[p] <= USERTOP
    BY <1>1, <1>2, Constants
  <2>4. \A x : x \in PagesIn(h, USERTOP) <=> x \in PagesIn(stack_head[p], USERTOP) \/ x \in Fresh(h, stack_head[p])
    BY <1>6, <2>1, <2>2, <2>3, Constants
  <2> QED BY <1>1, <2>4
<1>10. h % PGSIZE = 0 /\ h - sz[p] > 4 * PGSIZE
  BY <1>1, <1>2, <1>4, PageBelow, Constants
<1>11. Fits("user", sz[p], h, S)
  BY <1>9, <1>10 DEF Fits
<1>12. S \in SUBSET PagesIn(0, USERTOP)
  BY <1>1, <1>7
<1>13. SetPages(p, S)
  BY <1>4, <1>5
<1>14. state' = [state EXCEPT ![p] = "user"] /\ sz' = [sz EXCEPT ![p] = sz[p]] /\ panicked' \in {"no", "memory"}
  BY <1>1, <1>4 DEF StackInv, TypeOK
<1> HIDE DEF S
<1> QED BY <1>1, <1>4, <1>8, <1>11, <1>12, <1>13, <1>14, Updated

(* An argument that passes checkbounds() lies on pages that are there.     *)
LEMMA FetchStep ==
  ASSUME StackInv, NEW p \in Procs, NEW a \in 0..USERTOP, fetchint(p, a)
  PROVE  StackInv'
<1>1. /\ state[p] = "user" /\ panicked = "no" /\ free \in 0..NFRAMES
      /\ sz[p] \in 0..USERTOP /\ stack_head[p] \in 0..USERTOP
      /\ stack_head[p] % PGSIZE = 0 /\ stack_head[p] - sz[p] > 4 * PGSIZE
      /\ PGSIZE <= USERTOP /\ Base < sz[p] /\ Base \in 0..USERTOP
      /\ pages[p] \in SUBSET PagesIn(0, USERTOP)
      /\ pages[p] = PagesIn(Base, sz[p]) \cup PagesIn(stack_head[p], USERTOP)
  BY Running DEF fetchint
<1>2. /\ a <= USERTOP /\ a + WORD <= USERTOP /\ Base <= a
      /\ ~(a >= sz[p] /\ a < stack_head[p])
      /\ ~(a + WORD > sz[p] /\ a + WORD < stack_head[p])
  <2>1. int(a) = a /\ int(a + WORD) = a + WORD /\ uint(a + WORD) = a + WORD
    <3>1. a \in -INT_MAX-1..INT_MAX /\ a + WORD \in -INT_MAX-1..INT_MAX /\ a + WORD \in 0..UINTS-1
      BY <1>1, Constants DEF UINTS
    <3> QED BY <3>1, Wrapped
  <2>2. checkbounds(p, a, WORD)
    BY DEF fetchint
  <2> QED BY <1>1, <2>1, <2>2, Constants DEF checkbounds
<1>3. ASSUME NEW x \in a..(a + WORD - 1) PROVE ~Unmapped(p, x)
  <2>1. /\ x \in Nat /\ x < USERTOP
        /\ (Base <= x /\ x < sz[p]) \/ stack_head[p] <= x
    BY <1>1, <1>2, Constants
  <2>2. PICK y \in Nat : y % PGSIZE = 0 /\ y <= x /\ x < y + PGSIZE
    BY <2>1, PageOf
  <2>3. y \in pages[p]
    <3>1. CASE Base <= x /\ x < sz[p]
      <4>1. Base <= y
        <5>1. y < Base => y + PGSIZE <= Base
          BY <2>2, BasePage, NextPage
        <5> QED BY <2>1, <2>2, <3>1, <5>1, BasePage, Constants
      <4> QED BY <1>1, <2>1, <2>2, <3>1, <4>1, PageSet, Constants
    <3>2. CASE stack_head[p] <= x
      <4>1. stack_head[p] <= y
        BY <1>1, <2>1, <2>2, <3>2, NextPage, Constants
      <4> QED BY <1>1, <2>1, <2>2, <3>2, <4>1, PageSet, Constants
    <3> QED BY <2>1, <3>1, <3>2
  <2> QED BY <2>2, <2>3 DEF Unmapped
<1>4. panicked' = "no" /\ UNCHANGED <<state, sz, stack_head, pages, free>>
  BY <1>3 DEF fetchint
<1>5. TypeOK'
  BY <1>4 DEF StackInv, TypeOK
<1> QED BY <1>4, <1>5, Untouched

(* copyuvm() finds every page it walks over.                               *)
LEMMA ForkStep ==
  ASSUME StackInv, NEW p \in Procs, NEW c \in Procs, fork(p, c)
  PROVE  StackInv'
<1>1. /\ state[p] = "user" /\ panicked = "no" /\ free \in 0..NFRAMES
      /\ sz[p] \in 0..USERTOP /\ stack_head[p] \in 0..USERTOP
      /\ stack_head[p] % PGSIZE = 0 /\ stack_head[p] - sz[p] > 4 * PGSIZE
      /\ PGSIZE <= USERTOP /\ Base < sz[p] /\ Base \in 0..USERTOP
      /\ pages[p] \in SUBSET PagesIn(0, USERTOP)
      /\ pages[p] = PagesIn(Base, sz[p]) \cup PagesIn(stack_head[p], USERTOP)
  BY Running DEF fork
<1>2. Copied(p) = pages[p]
  BY <1>1 DEF Copied
<1>3. /\ panicked' = "no" /\ Cardinality(Copied(p)) <= free /\ SetPages(c, pages[p])
      /\ state' = [state EXCEPT ![c] = "user"] /\ sz' = [sz EXCEPT ![c] = sz[p]]
      /\ stack_head' = [stack_head EXCEPT ![c] = stack_head[p]] /\ state[c] = "unused"
  BY <1>2 DEF fork
<1>4. Cardinality(pages[p] \ pages[c]) <= free
  <2>1. pages[c] = {}
    BY <1>3 DEF StackInv, SpaceInv
  <2>2. pages[p] \ pages[c] = pages[p]
    BY <2>1
  <2> QED BY <1>2, <1>3, <2>2
<1>5. Fits("user", sz[p], stack_head[p], pages[p])
  BY <1>1 DEF Fits
<1> QED BY <1>1, <1>3, <1>4, <1>5, Updated

(* The image and a page of stack, as userinit() and exec() lay them out.   *)
LEMMA FreshLayout ==
  ASSUME NEW m \in Images
  PROVE  /\ Base + m \in 0..USERTOP /\ USERTOP - PGSIZE \in 0..USERTOP
         /\ PagesIn(Base, Base + m) \cup {USERTOP - PGSIZE} \in SUBSET PagesIn(0, USERTOP)
         /\ Fits("user", Base + m, USERTOP - PGSIZE, PagesIn(Base, Base + m) \cup {USERTOP - PGSIZE})
<1>1. Base + m \in 0..USERTOP /\ USERTOP - PGSIZE \in 0..USERTOP /\ USERTOP - PGSIZE - (Base + m) > 4 * PGSIZE
  BY Constants, BasePage
<1>2. (USERTOP - PGSIZE) % PGSIZE = 0
  BY <1>1, PageBelow, Constants
<1>3. PagesIn(USERTOP - PGSIZE, USERTOP) = {USERTOP - PGSIZE}
  <2>1. \A x : x \in PagesIn(USERTOP - PGSIZE, USERTOP) <=>
                 x \in Nat /\ x % PGSIZE = 0 /\ USERTOP - PGSIZE <= x /\ x < USERTOP
    BY <1>1, PageSet, Constants
  <2>2. ASSUME NEW x \in Nat, x % PGSIZE = 0, USERTOP - PGSIZE <= x, x < USERTOP
        PROVE  x = USERTOP - PGSIZE
    <3>1. x + PGSIZE <= USERTOP
      BY <2>2, NextPage, Constants
    <3> QED BY <2>2, <3>1, Constants
  <2> QED BY <1>1, <1>2, <2>1, <2>2, Constants
<1>4. /\ PagesIn(Base, Base + m) \subseteq PagesIn(0, USERTOP)
      /\ PagesIn(USERTOP - PGSIZE, USERTOP) \subseteq PagesIn(0, USERTOP)
  BY <1>1, BasePage, PageSet, Constants
<1> QED BY <1>1, <1>2, <1>3, <1>4 DEF Fits

(* exec() builds the new address space before it frees the old one.        *)
LEMMA ExecStep ==
  ASSUME StackInv, NEW p \in Procs, NEW m \in Images, exec(p, m)
  PROVE  StackInv'
<1>0. Runs(p) /\ UNCHANGED state
  BY DEF exec
<1>1. state[p] = "user" /\ panicked = "no" /\ free \in 0..NFRAMES
  BY <1>0, Running
<1>2. CASE Cardinality(ImagePages(m)) = free
  <2>1. UNCHANGED <<sz, stack_head, pages, free>> /\ panicked' = "memory"
    BY <1>2 DEF exec
  <2>2. TypeOK'
    BY <1>0, <2>1 DEF StackInv, TypeOK
  <2> QED BY <1>0, <2>1, <2>2, Untouched
<1>3. CASE Cardinality(ImagePages(m)) # free
  <2> DEFINE S == ImagePages(m) \cup {USERTOP - PGSIZE}
  <2>1. /\ SetPages(p, S) /\ sz' = [sz EXCEPT ![p] = Base + m] /\ panicked' = "no"
        /\ stack_head' = [stack_head EXCEPT ![p] = USERTOP - PGSIZE]
        /\ Cardinality(ImagePages(m)) <= free
    BY <1>3 DEF exec
  <2>2. /\ S \in SUBSET PagesIn(0, USERTOP) /\ Fits("user", Base + m, USERTOP - PGSIZE, S)
        /\ Base + m \in 0..USERTOP /\ USERTOP - PGSIZE \in 0..USERTOP
    BY FreshLayout DEF ImagePages
  <2>3. Cardinality(S \ pages[p]) <= free
    <3>1. IsFiniteSet(ImagePages(m)) /\ Cardinality(ImagePages(m)) \in Nat
      BY <2>2, FiniteMemory
    <3>2. Cardinality(S) <= Cardinality(ImagePages(m)) + 1
      <4>1. PICK I : I = ImagePages(m)
        OBVIOUS
      <4>2. IsFiniteSet(I) /\ Cardinality(I) \in Nat
        BY <3>1, <4>1
      <4>3. Cardinality(I \cup {USERTOP - PGSIZE}) =
              IF USERTOP - PGSIZE \in I THEN Cardinality(I) ELSE Cardinality(I) + 1
        BY <4>2, FS_AddElement
      <4>4. Cardinality(I \cup {USERTOP - PGSIZE}) <= Cardinality(I) + 1
        BY <4>2, <4>3
      <4> QED BY <4>1, <4>4
    <3>3. IsFiniteSet(S) /\ Cardinality(S) \in Nat
      BY <2>2, FiniteMemory
    <3>4. S \ pages[p] \in SUBSET S
      OBVIOUS
    <3>5. Cardinality(S \ pages[p]) <= Cardinality(S) /\ Cardinality(S \ pages[p]) \in Nat
      <4>1. S \ pages[p] \subseteq PagesIn(0, USERTOP)
        BY <2>2
      <4> HIDE DEF S
      <4> QED BY <3>3, <3>4, <4>1, FS_Subset, FiniteMemory
    <3> QED BY <1>1, <1>3, <2>1, <3>1, <3>2, <3>3, <3>5, Constants
  <2>4. state' = [state EXCEPT ![p] = "user"]
    BY <1>0, <1>1 DEF StackInv, TypeOK
  <2> HIDE DEF S
  <2> QED BY <2>1, <2>2, <2>3, <2>4, Updated
<1> QED BY <1>2, <1>3

(* wait() gives back all frames of a zombie.                               *)
LEMMA WaitStep ==
  ASSUME StackInv, NEW p \in Procs, wait(p)
  PROVE  StackInv'
<1>1. pages[p] \in SUBSET PagesIn(0, USERTOP) /\ free \in 0..NFRAMES
  BY DEF StackInv, TypeOK
<1>2. pages[p] \ PagesIn(0, USERTOP) = {}
  BY <1>1
<1>3. /\ SetPages(p, {}) /\ state' = [state EXCEPT ![p] = "unused"] /\ sz' = [sz EXCEPT ![p] = 0]
      /\ stack_head' = [stack_head EXCEPT ![p] = 0] /\ panicked' = "no"
  BY <1>2 DEF wait
<1>4. Cardinality({} \ pages[p]) <= free
  <2>1. Cardinality({} \ pages[p]) = 0
    BY NothingNew
  <2> QED BY <1>1, <2>1, Constants
<1>5. Fits("unused", 0, 0, {}) /\ 0 \in 0..USERTOP /\ {} \in SUBSET PagesIn(0, USERTOP)
  BY Constants DEF Fits
<1> QED BY <1>3, <1>4, <1>5, Updated

(* Every system call, page fault and instruction keeps the invariant.      *)
LEMMA StackStep == StackInv /\ [Next]_vars => StackInv'
<1> SUFFICES ASSUME StackInv, [Next]_vars PROVE StackInv'
  OBVIOUS
<1>1. CASE UNCHANGED vars
  BY <1>1, Untouched DEF vars, StackInv, TypeOK
<1>2. ASSUME NEW p \in Procs, Die(p), UNCHANGED <<sz, stack_head, pages, free, panicked>> PROVE StackInv'
  <2>1. TypeOK' /\ \A q \in Procs : state'[q] \in {state[q], "zombie"}
    BY <1>2 DEF Die, StackInv, TypeOK
  <2>2. panicked' # "page"
    BY <1>2 DEF StackInv
  <2> QED BY <1>2, <2>1, <2>2, Untouched
<1>3. ASSUME NEW p \in Procs, exit(p) PROVE StackInv'
  BY <1>2, <1>3 DEF exit
<1>4. ASSUME NEW p \in Procs, NEW a \in 0..USERTOP, PageFault(p, a) PROVE StackInv'
  BY <1>2, <1>4, GrowStep DEF PageFault
<1> QED BY <1>1, <1>3, <1>4, WaitStep, ForkStep, SbrkStep, FetchStep, ExecStep DEF Next

(* The first process has its pages and the rest of the frames is free.     *)
LEMMA StackInit == Init => StackInv
<1> SUFFICES ASSUME Init PROVE StackInv
  OBVIOUS
<1>1. PICK p \in Procs, m \in Images :
        LET mine == PagesIn(Base, Base + m) \cup {USERTOP - PGSIZE}
        IN /\ state = [q \in Procs |-> IF q = p THEN "user" ELSE "unused"]
           /\ sz = [q \in Procs |-> IF q = p THEN Base + m ELSE 0]
           /\ stack_head = [q \in Procs |-> IF q = p THEN USERTOP - PGSIZE ELSE 0]
           /\ pages = [q \in Procs |-> IF q = p THEN mine ELSE {}]
           /\ free = NFRAMES - Cardinality(mine)
           /\ free >= 0
           /\ panicked = "no"
  BY DEF Init
<1> DEFINE mine == PagesIn(Base, Base + m) \cup {USERTOP - PGSIZE}
<1>2. /\ mine \in SUBSET PagesIn(0, USERTOP) /\ Fits("user", Base + m, USERTOP - PGSIZE, mine)
      /\ Base + m \in 0..USERTOP /\ USERTOP - PGSIZE \in 0..USERTOP /\ 0 \in 0..USERTOP
  BY FreshLayout, Constants
<1>3. /\ state = [q \in Procs |-> IF q = p THEN "user" ELSE "unused"]
      /\ sz = [q \in Procs |-> IF q = p THEN Base + m ELSE 0]
      /\ stack_head = [q \in Procs |-> IF q = p THEN USERTOP - PGSIZE ELSE 0]
      /\ pages = [q \in Procs |-> IF q = p THEN mine ELSE {}]
      /\ free = NFRAMES - Cardinality(mine) /\ free >= 0 /\ panicked = "no"
  BY <1>1
<1> HIDE DEF mine
<1>4. IsFiniteSet(mine) /\ Cardinality(mine) \in Nat
  BY <1>2, FiniteMemory
<1>5. TypeOK
  <2>1. free \in 0..NFRAMES
    BY <1>3, <1>4, Constants
  <2> QED BY <1>2, <1>3, <2>1 DEF TypeOK
<1>6. SpaceInv /\ PagesInv
  BY <1>2, <1>3 DEF SpaceInv, PagesInv, Fits
<1>7. FramesInv
  <2>1. Mapped = {p} \X mine
    BY <1>3 DEF Mapped
  <2>2. Cardinality(Mapped) = Cardinality(mine)
    BY <1>4, <2>1, PairedWith
  <2> QED BY <1>3, <1>4, <2>2, Constants DEF FramesInv
<1> QED BY <1>3, <1>5, <1>6, <1>7 DEF StackInv

-----------------------------------------------------------------------------
(* growproc() and growstack() measure the gap at different moments, with   *)
(* unsigned arithmetic that may wrap; four pages remain all the same.      *)
THEOREM GapKeptCorrect == Spec => []GapKept
<1>1. StackInv => GapKept
  BY DEF StackInv, SpaceInv, GapKept
<1> QED BY <1>1, StackInit, StackStep, PTL DEF Spec

(* What copyuvm() and checkbounds() take sz and stack_head to say is true  *)
(* after any sequence of growproc(), page faults, fork(), exec(), exit()   *)
(* and wait(), and every frame is either free or on one page.              *)
THEOREM LayoutExactCorrect == Spec => []LayoutExact
<1>1. StackInv => LayoutExact
  BY DEF StackInv, PagesInv, FramesInv, LayoutExact, Runs
<1> QED BY <1>1, StackInit, StackStep, PTL DEF Spec

-----------------------------------------------------------------------------
(* While the server initializes a segment, the segment is not ready.       *)
ServerInv ==
  /\ spc # "off" => name # NoSeg
  /\ spc \in {"mutex", "init"} => ~ready[name]

(* Who has mapped an undisturbed segment has mapped a ready one, so that   *)
(* the server does not touch it; a loop over the slots starts at the first. *)
ClientInv ==
  \A c \in Clients :
    /\ cpc[c] \notin Over => cseg[c] # NoSeg /\ (~disturbed[cseg[c]] => ready[cseg[c]])
    /\ cpc[c] \notin Critical => ci[c] = 1
    /\ cpc[c] = "write" => ci[c] \in Slots

(* A pid is written once, and the handler's loop has not passed it.  This  *)
(* holds of disturbed segments, too.                                       *)
PidInv ==
  \A c \in Clients : \A g \in Segs : \A i \in Slots : pid[g][i] = c =>
    /\ cseg[c] = g
    /\ cpc[c] \notin {"new", "lock", "scan", "write", "exit_unlock", "left"}
    /\ cpc[c] = "exit_scan" => ci[c] <= i
    /\ \A j \in Slots : pid[g][j] = c => i = j

LockInv ==
  /\ \A c \in Clients : cpc[c] \in Critical /\ ~disturbed[cseg[c]] => locked[cseg[c]]
  /\ MutualExclusion

(* What a client has read under the mutex is still so: the slots it has    *)
(* passed are taken, the one it is going to write is free, the one it has  *)
(* written is its own.                                                     *)
ScanInv ==
  \A c \in Clients :
    /\ cpc[c] = "scan" /\ ~disturbed[cseg[c]] =>
         \A i \in Slots : i < ci[c] => pid[cseg[c]][i] # NoPid
    /\ cpc[c] = "write" /\ ~disturbed[cseg[c]] => pid[cseg[c]][ci[c]] = NoPid
    /\ cpc[c] \in Registered /\ ~disturbed[cseg[c]] => \E i \in Slots : pid[cseg[c]][i] = c

ShmInv == ShmTypeOK /\ ServerInv /\ ClientInv /\ PidInv /\ LockInv /\ ScanInv

-----------------------------------------------------------------------------
(* The clients, slots and segments, and the pids that mean no client.      *)
LEMMA ShmConstants ==
  /\ IsFiniteSet(Clients) /\ Zero \notin Clients /\ NoPid \notin Clients
  /\ maxClient \in Nat /\ maxClient > 0 /\ MaxSegs \in Nat /\ MaxSegs > 0
BY ShmStatsAssumption DEF ShmStatsAssumption

(* No segment and no client: the invariant holds.                          *)
LEMMA ShmInvInit == ShmInit => ShmInv
<1> SUFFICES ASSUME ShmInit PROVE ShmInv
  OBVIOUS
<1>1. ShmTypeOK
  BY ShmConstants DEF ShmInit, ShmTypeOK, Critical, Registered, Over, Segs, Slots, NoSeg
<1>2. ServerInv /\ ClientInv
  BY DEF ShmInit, ServerInv, ClientInv, Critical, Over
<1>3. PidInv
  BY ShmConstants DEF ShmInit, PidInv
<1>4. LockInv /\ ScanInv
  BY DEF ShmInit, LockInv, ScanInv, MutualExclusion, Critical, Registered
<1> QED BY <1>1, <1>2, <1>3, <1>4 DEF ShmInv

(* ServerOpen changes ready and disturbed only: of the segment it opens,   *)
(* which is disturbed now if somebody uses it.                             *)
LEMMA OpenStep == ShmInv /\ ServerOpen => ShmInv'
<1> SUFFICES ASSUME ShmInv, ServerOpen PROVE ShmInv'
  OBVIOUS
<1>0. ShmTypeOK /\ ServerInv /\ ClientInv /\ PidInv /\ LockInv /\ ScanInv
  BY DEF ShmInv
<1>1. UNCHANGED <<pid, locked, si, cpc, cseg, ci>> /\ spc' = "mutex"
  BY DEF ServerOpen, clients, segments
<1>2. name' \in Segs /\ created' \in 0..MaxSegs
  BY <1>0, ShmConstants DEF ServerOpen, ShmTypeOK, Segs, NoSeg
<1>3. /\ ready' = [ready EXCEPT ![name'] = FALSE]
      /\ disturbed' = [disturbed EXCEPT ![name'] = disturbed[name'] \/ Users(name') # {}]
  BY DEF ServerOpen
<1>4. ShmTypeOK'
  <2>1. (disturbed[name'] \/ Users(name') # {}) \in BOOLEAN
    BY <1>0, <1>2 DEF ShmTypeOK
  <2>2. ready' \in [Segs -> BOOLEAN] /\ disturbed' \in [Segs -> BOOLEAN]
    BY <1>0, <1>2, <1>3, <2>1 DEF ShmTypeOK
  <2> QED BY <1>0, <1>1, <1>2, <2>2 DEF ShmTypeOK
<1>5. ServerInv'
  BY <1>0, <1>1, <1>2, <1>3 DEF ServerInv, ShmTypeOK, Segs, NoSeg
<1>6. \A g \in Segs : ~disturbed'[g] => ~disturbed[g] /\ (g = name' => Users(g) = {}) /\ (g # name' => ready'[g] = ready[g])
  BY <1>0, <1>2, <1>3 DEF ShmTypeOK
<1>7. \A c \in Clients : cpc[c] \notin Over => cseg[c] \in Segs /\ c \in Users(cseg[c])
  BY <1>0 DEF ShmTypeOK, ClientInv, Users, NoSeg
<1>8. ClientInv'
  BY <1>0, <1>1, <1>6, <1>7 DEF ClientInv
<1>9. PidInv'
  BY <1>0, <1>1 DEF PidInv
<1>10. LockInv' /\ ScanInv'
  BY <1>0, <1>1, <1>6, <1>7 DEF LockInv, MutualExclusion, ScanInv, Critical, Registered, Over
<1> QED BY <1>4, <1>5, <1>8, <1>9, <1>10 DEF ShmInv

(* The server writes to a segment that is not ready: none that an          *)
(* undisturbed client uses.                                                *)
LEMMA ServerStep == ShmInv /\ (ServerMutex \/ ServerSlot \/ ServerExit) => ShmInv'
<1> SUFFICES ASSUME ShmInv, ServerMutex \/ ServerSlot \/ ServerExit PROVE ShmInv'
  OBVIOUS
<1>0. ShmTypeOK /\ ServerInv /\ ClientInv /\ PidInv /\ LockInv /\ ScanInv
  BY DEF ShmInv
<1>1. UNCHANGED <<created, cpc, cseg, ci, disturbed>>
  BY DEF ServerMutex, ServerSlot, ServerExit, clients, history
<1>2. \A c \in Clients : cpc[c] \notin Over =>
        /\ cseg[c] \in Segs
        /\ spc \in {"mutex", "init"} /\ ~disturbed[cseg[c]] => cseg[c] # name
  BY <1>0 DEF ShmTypeOK, ServerInv, ClientInv, NoSeg
<1>3. CASE ServerMutex
  <2>1. /\ name \in Segs /\ locked' = [locked EXCEPT ![name] = FALSE] /\ spc = "mutex" /\ spc' = "init"
        /\ UNCHANGED <<name, si, pid, ready>>
    BY <1>0, <1>3 DEF ServerMutex, ServerInv, ShmTypeOK, history
  <2>2. ShmTypeOK'
    BY <1>0, <1>1, <2>1 DEF ShmTypeOK
  <2>3. ServerInv' /\ ClientInv' /\ PidInv' /\ ScanInv'
    BY <1>0, <1>1, <2>1 DEF ServerInv, ClientInv, PidInv, ScanInv
  <2>4. LockInv'
    BY <1>0, <1>1, <1>2, <2>1 DEF LockInv, MutualExclusion, ShmTypeOK, Critical, Over
  <2> QED BY <2>2, <2>3, <2>4 DEF ShmInv
<1>4. CASE ServerSlot /\ si <= maxClient
  <2>1. /\ name \in Segs /\ si \in Slots /\ pid' = [pid EXCEPT ![name][si] = NoPid] /\ spc = "init"
        /\ UNCHANGED <<name, locked, spc, ready>> /\ si' \in 1..maxClient+1
    BY <1>0, <1>4, ShmConstants DEF ServerSlot, ServerInv, ShmTypeOK, Slots, history, NextSlot
  <2>2. ShmTypeOK'
    BY <1>0, <1>1, <2>1 DEF ShmTypeOK
  <2>3. ServerInv' /\ ClientInv' /\ LockInv'
    BY <1>0, <1>1, <2>1 DEF ServerInv, ClientInv, LockInv, MutualExclusion
  <2>4. \A g \in Segs : \A i \in Slots : pid'[g][i] = IF g = name /\ i = si THEN NoPid ELSE pid[g][i]
    BY <1>0, <2>1 DEF ShmTypeOK
  <2>5. PidInv'
    BY <1>0, <1>1, <2>4, ShmConstants DEF PidInv
  <2>6. \A g \in Segs : g # name => pid'[g] = pid[g]
    BY <1>0, <2>1 DEF ShmTypeOK
  <2>7. ScanInv'
    BY <1>0, <1>1, <1>2, <2>1, <2>6 DEF ScanInv, Critical, Registered, Over
  <2> QED BY <2>2, <2>3, <2>5, <2>7 DEF ShmInv
<1>5. CASE ServerSlot /\ ~(si <= maxClient)
  <2>1. /\ name \in Segs /\ ready' = [ready EXCEPT ![name] = TRUE] /\ spc' = "serving" /\ si' = 1
        /\ UNCHANGED <<name, locked, pid>>
    BY <1>0, <1>5 DEF ServerSlot, ServerInv, ShmTypeOK
  <2>2. ShmTypeOK'
    BY <1>0, <1>1, <2>1, ShmConstants DEF ShmTypeOK
  <2>3. ServerInv' /\ PidInv' /\ LockInv' /\ ScanInv'
    BY <1>0, <1>1, <2>1 DEF ServerInv, PidInv, LockInv, MutualExclusion, ScanInv, ShmTypeOK, Segs,
         NoSeg
  <2>4. ClientInv'
    BY <1>0, <1>1, <1>2, <2>1 DEF ClientInv, ShmTypeOK
  <2> QED BY <2>2, <2>3, <2>4 DEF ShmInv
<1>6. CASE ServerExit
  <2>1. /\ name' \in Segs \cup {NoSeg} /\ spc' = "off" /\ si' = 1
        /\ UNCHANGED <<locked, pid, ready>>
    BY <1>0, <1>6 DEF ServerExit, ShmTypeOK, segments, history
  <2>2. ShmTypeOK'
    BY <1>0, <1>1, <2>1, ShmConstants DEF ShmTypeOK
  <2> QED BY <1>0, <1>1, <2>1, <2>2 DEF ShmInv, ServerInv, ClientInv, PidInv, LockInv,
          MutualExclusion, ScanInv
<1> QED BY <1>3, <1>4, <1>5, <1>6

-----------------------------------------------------------------------------
(* A client that maps an undisturbed segment maps a ready one.             *)
LEMMA ClientOpenStep ==
  ASSUME ShmInv, NEW c \in Clients, ClientOpen(c)
  PROVE  ShmInv'
<1>0. ShmTypeOK /\ ServerInv /\ ClientInv /\ PidInv /\ LockInv /\ ScanInv
  BY DEF ShmInv
<1>1. cpc[c] = "new" /\ UNCHANGED <<name, created, spc, si, ci, pid, locked, ready>>
  BY DEF ClientOpen, server, segments
<1>2. CASE name = NoSeg
  <2>1. cpc' = [cpc EXCEPT ![c] = "left"] /\ UNCHANGED <<cseg, disturbed>>
    BY <1>2 DEF ClientOpen, Goto
  <2>2. ShmTypeOK'
    BY <1>0, <1>1, <2>1 DEF ShmTypeOK, Over
  <2>3. ServerInv' /\ ClientInv'
    BY <1>0, <1>1, <2>1 DEF ShmTypeOK, ServerInv, ClientInv, Over, Critical
  <2>4. PidInv'
    BY <1>0, <1>1, <2>1 DEF ShmTypeOK, PidInv
  <2>5. LockInv' /\ ScanInv'
    BY <1>0, <1>1, <2>1 DEF ShmTypeOK, LockInv, MutualExclusion, ScanInv, Critical, Registered
  <2> QED BY <2>2, <2>3, <2>4, <2>5 DEF ShmInv
<1>3. CASE name # NoSeg
  <2>1. /\ cpc' = [cpc EXCEPT ![c] = "lock"] /\ cseg' = [cseg EXCEPT ![c] = name] /\ name \in Segs
        /\ disturbed' = [disturbed EXCEPT ![name] = disturbed[name] \/ ~ready[name]]
    BY <1>0, <1>3 DEF ClientOpen, Goto, ShmTypeOK
  <2>2. (disturbed[name] \/ ~ready[name]) \in BOOLEAN
    BY <1>0, <2>1 DEF ShmTypeOK
  <2>3. ShmTypeOK'
    BY <1>0, <1>1, <2>1, <2>2 DEF ShmTypeOK
  <2>4. \A g \in Segs : ~disturbed'[g] => ~disturbed[g] /\ (g = name => ready[g])
    BY <1>0, <2>1 DEF ShmTypeOK
  <2>5. \A d \in Clients : cpc[d] \notin Over => cseg[d] \in Segs
    BY <1>0 DEF ShmTypeOK, ClientInv, NoSeg
  <2>6. ServerInv' /\ ClientInv'
    BY <1>0, <1>1, <2>1, <2>4, <2>5 DEF ShmTypeOK, ServerInv, ClientInv, Over, Critical, Segs, NoSeg
  <2>7. PidInv'
    BY <1>0, <1>1, <2>1 DEF ShmTypeOK, PidInv
  <2>8. LockInv' /\ ScanInv'
    BY <1>0, <1>1, <2>1, <2>4, <2>5 DEF ShmTypeOK, LockInv, MutualExclusion, ScanInv, Critical,
         Registered, Over
  <2> QED BY <2>3, <2>6, <2>7, <2>8 DEF ShmInv
<1> QED BY <1>2, <1>3

(* The mutex of an undisturbed segment is free only while none of its      *)
(* clients is in its critical section.                                     *)
LEMMA LockStep ==
  ASSUME ShmInv, NEW c \in Clients, Lock(c, "lock", "scan") \/ Lock(c, "exit_lock", "exit_scan")
  PROVE  ShmInv'
<1>0. ShmTypeOK /\ ServerInv /\ ClientInv /\ PidInv /\ LockInv /\ ScanInv
  BY DEF ShmInv
<1>1. PICK to \in {"scan", "exit_scan"} :
        /\ \/ to = "scan" /\ cpc[c] = "lock"
           \/ to = "exit_scan" /\ cpc[c] = "exit_lock"
        /\ cpc' = [cpc EXCEPT ![c] = to] /\ ~locked[cseg[c]]
        /\ locked' = [locked EXCEPT ![cseg[c]] = TRUE]
        /\ UNCHANGED <<name, created, spc, si, cseg, ci, pid, ready, disturbed>>
  <2>1. CASE Lock(c, "lock", "scan")
    BY <2>1 DEF Lock, Goto, Acquirable, server, history
  <2>2. CASE Lock(c, "exit_lock", "exit_scan")
    BY <2>2 DEF Lock, Goto, Acquirable, server, history
  <2> QED BY <2>1, <2>2
<1>2. cseg[c] \in Segs /\ ci[c] = 1
  BY <1>0, <1>1 DEF ShmTypeOK, ClientInv, Over, Critical, NoSeg
<1>3. ShmTypeOK'
  BY <1>0, <1>1, <1>2 DEF ShmTypeOK, Critical
<1>4. ServerInv' /\ ClientInv'
  BY <1>0, <1>1 DEF ShmTypeOK, ServerInv, ClientInv, Over, Critical
<1>5. PidInv'
  <2>1. \A i \in Slots : 1 <= i
    BY ShmConstants DEF Slots
  <2> QED BY <1>0, <1>1, <1>2, <2>1 DEF ShmTypeOK, PidInv
<1>6. LockInv'
  BY <1>0, <1>1, <1>2 DEF ShmTypeOK, LockInv, MutualExclusion, Critical
<1>7. ScanInv'
  <2>1. \A i \in Slots : ~ (i < 1)
    BY ShmConstants DEF Slots
  <2> QED BY <1>0, <1>1, <1>2, <2>1 DEF ShmTypeOK, ScanInv, Registered
<1> QED BY <1>3, <1>4, <1>5, <1>6, <1>7 DEF ShmInv

(* Leaving the critical section unlocks the mutex; the others are outside. *)
LEMMA UnlockStep ==
  ASSUME ShmInv, NEW c \in Clients,
         Unlock(c, "unlock", "loop") \/ Unlock(c, "exit_unlock", "left") \/ ClientRefused(c)
  PROVE  ShmInv'
<1>0. ShmTypeOK /\ ServerInv /\ ClientInv /\ PidInv /\ LockInv /\ ScanInv
  BY DEF ShmInv
<1>1. PICK to \in {"loop", "left"} :
        /\ \/ to = "loop" /\ cpc[c] = "unlock"
           \/ to = "left" /\ cpc[c] \in {"exit_unlock", "scan"}
        /\ cpc' = [cpc EXCEPT ![c] = to] /\ ci' = [ci EXCEPT ![c] = 1]
        /\ locked' = [locked EXCEPT ![cseg[c]] = FALSE]
        /\ UNCHANGED <<name, created, spc, si, cseg, pid, ready, disturbed>>
  <2>1. CASE Unlock(c, "unlock", "loop")
    BY <2>1 DEF Unlock, Goto, server, history
  <2>2. CASE Unlock(c, "exit_unlock", "left") \/ ClientRefused(c)
    BY <2>2 DEF Unlock, ClientRefused, AfterRefusal, Goto, server, history
  <2> QED BY <2>1, <2>2
<1>2. cseg[c] \in Segs /\ cpc[c] \in Critical
  BY <1>0, <1>1 DEF ShmTypeOK, ClientInv, Over, Critical, NoSeg
<1>3. ShmTypeOK'
  BY <1>0, <1>1, <1>2, ShmConstants DEF ShmTypeOK, Registered, Over
<1>4. ServerInv' /\ ClientInv'
  BY <1>0, <1>1 DEF ShmTypeOK, ServerInv, ClientInv, Over, Critical
<1>5. PidInv'
  BY <1>0, <1>1 DEF ShmTypeOK, PidInv
<1>6. LockInv'
  BY <1>0, <1>1, <1>2 DEF ShmTypeOK, LockInv, MutualExclusion, Critical
<1>7. ScanInv'
  BY <1>0, <1>1 DEF ShmTypeOK, ScanInv, Registered
<1> QED BY <1>3, <1>4, <1>5, <1>6, <1>7 DEF ShmInv

(* One slot visited, by main() or by the handler, and passed or found free. *)
LEMMA VisitStep ==
  ASSUME ShmInv, NEW c \in Clients,
         Scan(c) \/ (ExitScan(c) /\ ~(ci[c] <= maxClient /\ Slot(c) = c))
  PROVE  ShmInv'
<1>0. ShmTypeOK /\ ServerInv /\ ClientInv /\ PidInv /\ LockInv /\ ScanInv
  BY DEF ShmInv
<1>1. /\ UNCHANGED <<name, created, spc, si, cseg, pid, locked, ready, disturbed>>
      /\ \/ cpc[c] = "scan" /\ ci[c] <= maxClient /\ pid[cseg[c]][ci[c]] = NoPid
            /\ cpc' = [cpc EXCEPT ![c] = "write"] /\ ci' = ci
         \/ cpc[c] = "exit_scan" /\ ci[c] > maxClient
            /\ cpc' = [cpc EXCEPT ![c] = "exit_unlock"] /\ ci' = ci
         \/ cpc[c] = "scan" /\ ci[c] <= maxClient /\ pid[cseg[c]][ci[c]] # NoPid
            /\ cpc' = cpc /\ ci' = [ci EXCEPT ![c] = ci[c] + 1]
         \/ cpc[c] = "exit_scan" /\ ci[c] <= maxClient /\ pid[cseg[c]][ci[c]] # c
            /\ cpc' = cpc /\ ci' = [ci EXCEPT ![c] = ci[c] + 1]
  BY DEF Scan, ExitScan, Slot, Vacant, NextSlot, Goto, server, segments, history
<1>2. cseg[c] \in Segs /\ ci[c] \in 1..maxClient+1 /\ \A i \in Slots : i <= maxClient /\ i \in Nat
  BY <1>0, <1>1, ShmConstants DEF ShmTypeOK, ClientInv, Over, Critical, NoSeg, Slots
<1>3. CASE ci' = ci
  <2>1. PICK to \in {"write", "exit_unlock"} :
        /\ cpc' = [cpc EXCEPT ![c] = to]
        /\ \/ to = "write" /\ cpc[c] = "scan" /\ ci[c] \in Slots /\ pid[cseg[c]][ci[c]] = NoPid
           \/ to = "exit_unlock" /\ cpc[c] = "exit_scan" /\ ci[c] > maxClient
    <3>1. ci[c] # ci[c] + 1 /\ (ci[c] <= maxClient => ci[c] \in Slots)
      BY <1>2, ShmConstants DEF Slots
    <3>2. ci' # [ci EXCEPT ![c] = ci[c] + 1]
      BY <1>0, <1>3, <3>1 DEF ShmTypeOK
    <3>3. CASE cpc[c] = "scan"
      BY <1>1, <3>1, <3>2, <3>3
    <3>4. CASE cpc[c] = "exit_scan"
      BY <1>1, <3>2, <3>4
    <3> QED BY <1>1, <3>3, <3>4
  <2>2. ShmTypeOK'
    BY <1>0, <1>1, <1>3, <2>1 DEF ShmTypeOK, Critical
  <2>3. ServerInv' /\ ClientInv'
    BY <1>0, <1>1, <1>3, <2>1 DEF ShmTypeOK, ServerInv, ClientInv, Over, Critical
  <2>4. PidInv'
    <3>1. to = "exit_unlock" => \A i \in Slots : ~ (ci[c] <= i)
      BY <1>2, <2>1, ShmConstants
    <3> QED BY <1>0, <1>1, <1>3, <2>1, <3>1 DEF ShmTypeOK, PidInv
  <2>5. LockInv' /\ ScanInv'
    BY <1>0, <1>1, <1>3, <2>1 DEF ShmTypeOK, LockInv, MutualExclusion, ScanInv, Critical, Registered
  <2> QED BY <2>2, <2>3, <2>4, <2>5 DEF ShmInv
<1>4. CASE ci' # ci
  <2>1. /\ \/ cpc[c] = "scan" /\ pid[cseg[c]][ci[c]] # NoPid
           \/ cpc[c] = "exit_scan" /\ pid[cseg[c]][ci[c]] # c
        /\ cpc' = cpc /\ ci' = [ci EXCEPT ![c] = ci[c] + 1] /\ ci[c] <= maxClient
    BY <1>1, <1>4
  <2>0. ci[c] + 1 \in 1..maxClient+1
    BY <1>2, <2>1, ShmConstants
  <2>2. ShmTypeOK'
    BY <1>0, <1>1, <2>0, <2>1 DEF ShmTypeOK
  <2>3. ServerInv' /\ ClientInv'
    BY <1>0, <1>1, <2>1 DEF ShmTypeOK, ServerInv, ClientInv, Over, Critical
  <2>4. PidInv'
    <3>1. \A i \in Slots : ci[c] <= i /\ i # ci[c] => ci[c] + 1 <= i
      BY <1>2
    <3>2. cpc[c] = "exit_scan" => \A g \in Segs : \A i \in Slots : pid[g][i] = c => ci[c] + 1 <= i
      BY <1>0, <2>1, <3>1 DEF PidInv
    <3> QED BY <1>0, <1>1, <2>1, <3>2 DEF ShmTypeOK, PidInv
  <2>5. LockInv'
    BY <1>0, <1>1, <2>1 DEF LockInv, MutualExclusion
  <2>6. ScanInv'
    <3>1. \A i \in Slots : i < ci[c] + 1 => i < ci[c] \/ i = ci[c]
      BY <1>2
    <3>2. cpc[c] = "scan" /\ ~disturbed[cseg[c]] =>
            \A i \in Slots : i < ci[c] + 1 => pid[cseg[c]][i] # NoPid
      BY <1>0, <2>1, <3>1 DEF ScanInv
    <3> QED BY <1>0, <1>1, <2>1, <3>2 DEF ShmTypeOK, ScanInv
  <2> QED BY <2>2, <2>3, <2>4, <2>5, <2>6 DEF ShmInv
<1> QED BY <1>3, <1>4

(* The pid written or erased under the mutex: of an undisturbed segment,   *)
(* nobody else is between reading its slots and acting on what he read.    *)
LEMMA SlotStep ==
  ASSUME ShmInv, NEW c \in Clients,
         Write(c) \/ (ExitScan(c) /\ ci[c] <= maxClient /\ Slot(c) = c)
  PROVE  ShmInv'
<1>0. ShmTypeOK /\ ServerInv /\ ClientInv /\ PidInv /\ LockInv /\ ScanInv
  BY DEF ShmInv
<1>1. PICK g \in Segs, k \in Slots : g = cseg[c] /\ k = ci[c]
  <2>1. cpc[c] \in {"write", "exit_scan"}
    BY DEF Write, ExitScan
  <2>2. cseg[c] \in Segs
    BY <1>0, <2>1 DEF ShmTypeOK, ClientInv, Over, NoSeg
  <2>3. ci[c] \in Slots
    BY <1>0, ShmConstants DEF ShmTypeOK, ClientInv, Slots, Write, ExitScan
  <2> QED BY <2>2, <2>3
<1>2. PICK to \in {"unlock", "exit_unlock"}, v \in {c, NoPid} :
        /\ cpc' = [cpc EXCEPT ![c] = to] /\ pid' = [pid EXCEPT ![g][k] = v]
        /\ UNCHANGED <<name, created, spc, si, cseg, ci, locked, ready, disturbed>>
        /\ \/ to = "unlock" /\ v = c /\ cpc[c] = "write"
           \/ to = "exit_unlock" /\ v = NoPid /\ cpc[c] = "exit_scan" /\ pid[g][k] = c
  <2>1. CASE Write(c)
    BY <1>1, <2>1 DEF Write, Goto, server, history
  <2>2. CASE ExitScan(c) /\ ci[c] <= maxClient /\ Slot(c) = c
    <3>1. ~ (ci[c] > maxClient)
      BY <1>1, <2>2, ShmConstants DEF Slots
    <3>2. /\ cpc[c] = "exit_scan" /\ cpc' = [cpc EXCEPT ![c] = "exit_unlock"]
          /\ pid' = [pid EXCEPT ![cseg[c]][ci[c]] = NoPid] /\ pid[cseg[c]][ci[c]] = c
          /\ UNCHANGED <<name, created, spc, si, cseg, ci, locked, ready, disturbed>>
      BY <2>2, <3>1 DEF ExitScan, Slot, Emptied, Goto, server, history
    <3> QED BY <1>1, <3>2
  <2> QED BY <2>1, <2>2
<1>3. ShmTypeOK'
  BY <1>0, <1>2 DEF ShmTypeOK, Critical
<1>4. ServerInv' /\ ClientInv'
  BY <1>0, <1>2 DEF ShmTypeOK, ServerInv, ClientInv, Over, Critical
<1>5. \A h \in Segs : \A i \in Slots : pid'[h][i] = IF h = g /\ i = k THEN v ELSE pid[h][i]
  BY <1>0, <1>2 DEF ShmTypeOK
<1>6. PidInv'
  <2>1. \A d \in Clients : d # c => cpc'[d] = cpc[d]
    BY <1>0, <1>2 DEF ShmTypeOK
  <2>2. cpc'[c] = to
    BY <1>0, <1>2 DEF ShmTypeOK
  <2>3. CASE to = "unlock"
    <3>1. \A h \in Segs : \A i \in Slots : pid[h][i] # c
      BY <1>0, <1>2, <2>3 DEF PidInv
    <3> QED BY <1>0, <1>1, <1>2, <1>5, <2>1, <2>2, <2>3, <3>1 DEF PidInv
  <2>4. CASE to = "exit_unlock"
    <3>1. \A h \in Segs : \A i \in Slots : pid'[h][i] # c
      BY <1>0, <1>2, <1>5, <2>4, ShmConstants DEF PidInv
    <3> QED BY <1>0, <1>2, <1>5, <2>1, <2>4, <3>1, ShmConstants DEF PidInv
  <2> QED BY <2>3, <2>4
<1>7. LockInv'
  BY <1>0, <1>2 DEF ShmTypeOK, LockInv, MutualExclusion, Critical
<1>8. ASSUME NEW d \in Clients, d # c, cseg[d] = g, ~disturbed[g] PROVE cpc[d] \notin Critical
  BY <1>0, <1>1, <1>2, <1>8 DEF LockInv, MutualExclusion, Critical
<1>9. ScanInv'
  <2> SUFFICES ASSUME NEW d \in Clients, ~disturbed[cseg[d]]
               PROVE  /\ cpc'[d] = "scan" => \A i \in Slots : i < ci[d] => pid'[cseg[d]][i] # NoPid
                      /\ cpc'[d] = "write" => pid'[cseg[d]][ci[d]] = NoPid
                      /\ cpc'[d] \in Registered => \E i \in Slots : pid'[cseg[d]][i] = d
    BY <1>2 DEF ScanInv
  <2>1. CASE d = c
    <3>1. cpc'[d] = to
      BY <1>0, <1>2, <2>1 DEF ShmTypeOK
    <3> QED BY <1>1, <1>2, <1>5, <2>1, <3>1 DEF Registered
  <2>2. CASE d # c /\ (cseg[d] # g \/ cseg[d] \notin Segs)
    <3>1. cpc'[d] = cpc[d] /\ (cpc[d] \notin Over => pid'[cseg[d]] = pid[cseg[d]])
      BY <1>0, <1>2, <2>2 DEF ShmTypeOK, ClientInv, NoSeg
    <3> QED BY <1>0, <2>2, <3>1 DEF ScanInv, Registered, Over
  <2>3. CASE d # c /\ cseg[d] = g
    <3>1. cpc'[d] = cpc[d] /\ cpc[d] \notin Critical
      BY <1>0, <1>2, <1>8, <2>3 DEF ShmTypeOK
    <3>2. cpc[d] \in Registered => \E i \in Slots : pid'[g][i] = d
      <4> SUFFICES ASSUME cpc[d] \in Registered PROVE \E i \in Slots : pid'[g][i] = d
        OBVIOUS
      <4>1. PICK i \in Slots : pid[g][i] = d
        BY <1>0, <2>3 DEF ScanInv
      <4>2. i # k
        BY <1>0, <1>1, <1>2, <2>3, <4>1, ShmConstants DEF ScanInv
      <4> QED BY <1>5, <4>1, <4>2
    <3> QED BY <2>3, <3>1, <3>2 DEF Critical
  <2> QED BY <2>1, <2>2, <2>3
<1> QED BY <1>3, <1>4, <1>6, <1>7, <1>9 DEF ShmInv

(* A signal moves no slot, and who is killed leaves mutex and slot behind. *)
LEMMA SignalStep ==
  ASSUME ShmInv, NEW c \in Clients, Signal(c) \/ ClientDie(c)
  PROVE  ShmInv'
<1>0. ShmTypeOK /\ ServerInv /\ ClientInv /\ PidInv /\ LockInv /\ ScanInv
  BY DEF ShmInv
<1>1. PICK to \in {"exit_lock", "dead"} :
        /\ cpc' = [cpc EXCEPT ![c] = to] /\ (to = "exit_lock" => cpc[c] = "loop")
        /\ ci' = [ci EXCEPT ![c] = 1]
        /\ UNCHANGED <<name, created, spc, si, cseg, pid, locked, ready, disturbed>>
  <2>1. CASE Signal(c)
    <3>1. ci[c] = 1
      BY <1>0, <2>1 DEF Signal, ClientInv, Critical
    <3> QED BY <1>0, <2>1, <3>1 DEF Signal, Goto, ShmTypeOK, server, segments, history
  <2>2. CASE ClientDie(c)
    BY <2>2 DEF ClientDie, Goto, server, segments, history
  <2> QED BY <2>1, <2>2
<1>3. ShmTypeOK'
  BY <1>0, <1>1, ShmConstants DEF ShmTypeOK, Registered, Over
<1>4. ServerInv' /\ ClientInv'
  BY <1>0, <1>1 DEF ShmTypeOK, ServerInv, ClientInv, Over, Critical
<1>5. PidInv'
  BY <1>0, <1>1 DEF ShmTypeOK, PidInv
<1>6. LockInv' /\ ScanInv'
  BY <1>0, <1>1 DEF ShmTypeOK, LockInv, MutualExclusion, ScanInv, Critical, Registered
<1> QED BY <1>3, <1>4, <1>5, <1>6 DEF ShmInv

(* Every step of the server, of a client and of its handler, and every     *)
(* death, keeps the invariant.                                             *)
LEMMA ShmStep == ShmInv /\ [ShmNext]_shmVars => ShmInv'
<1> SUFFICES ASSUME ShmInv, [ShmNext]_shmVars PROVE ShmInv'
  OBVIOUS
<1>1. CASE UNCHANGED shmVars
  <2>1. UNCHANGED <<name, created, spc, si, cpc, cseg, ci, pid, locked, ready, disturbed>>
    BY <1>1 DEF shmVars, server, clients, segments, history
  <2> QED BY <2>1 DEF ShmInv, ShmTypeOK, ServerInv, ClientInv, PidInv, LockInv, MutualExclusion,
          ScanInv
<1>2. ASSUME NEW c \in Clients, ClientOpen(c) \/ ClientStep(c) \/ Signal(c) \/ ClientDie(c)
      PROVE  ShmInv'
  BY <1>2, ClientOpenStep, LockStep, UnlockStep, VisitStep, SlotStep, SignalStep DEF ClientStep
<1> QED BY <1>1, <1>2, OpenStep, ServerStep DEF ShmNext

-----------------------------------------------------------------------------
(* The client's scan and its handler: under the mutex of a segment that    *)
(* was initialized before anybody mapped it, every registered client has   *)
(* one slot and who left has none.                                         *)
THEOREM OwnSlotCorrect == ShmSpec => []OwnSlot
<1>1. ShmInv => OwnSlot
  <2> SUFFICES ASSUME ShmInv PROVE OwnSlot
    OBVIOUS
  <2>1. ShmTypeOK /\ MutualExclusion /\ PidInv /\ ScanInv
    BY DEF ShmInv, LockInv
  <2>2. ASSUME NEW c \in Clients, cseg[c] # NoSeg, ~disturbed[cseg[c]]
        PROVE  LET own == {i \in Slots : pid[cseg[c]][i] = c}
               IN /\ cpc[c] \in Registered => Cardinality(own) = 1
                  /\ cpc[c] = "left" => own = {}
    <3> DEFINE own == {i \in Slots : pid[cseg[c]][i] = c}
    <3>1. cseg[c] \in Segs
      BY <2>1, <2>2 DEF ShmTypeOK
    <3>2. ASSUME cpc[c] \in Registered PROVE Cardinality(own) = 1
      <4>1. PICK i \in Slots : pid[cseg[c]][i] = c
        BY <2>1, <2>2, <3>2 DEF ScanInv
      <4>2. own = {i}
        BY <2>1, <3>1, <4>1 DEF PidInv
      <4>3. Cardinality({i}) = 1
        BY FS_Singleton
      <4> HIDE DEF own
      <4> QED BY <4>2, <4>3
    <3>3. cpc[c] = "left" => own = {}
      BY <2>1, <3>1 DEF PidInv
    <3> QED BY <3>2, <3>3
  <2> QED BY <2>1, <2>2 DEF OwnSlot
<1> QED BY <1>1, ShmInvInit, ShmStep, PTL DEF ShmSpec

(* Slots may be freed while a client scans only by clients that hold the   *)
(* mutex, too: it has passed no slot that is free when it gives up.        *)
THEOREM RefusedCorrect == ShmSpec => RefusedOnlyIfFull
<1> DEFINE Full == \A c \in Clients :
             cpc[c] = "scan" /\ cpc'[c] = "left" /\ ~disturbed[cseg[c]] =>
               \A i \in Slots : pid[cseg[c]][i] # NoPid
<1>1. ShmInv /\ [ShmNext]_shmVars => [Full]_shmVars
  <2> SUFFICES ASSUME ShmInv, [ShmNext]_shmVars,
                      NEW c \in Clients, cpc[c] = "scan", cpc'[c] = "left", ~disturbed[cseg[c]],
                      NEW i \in Slots
               PROVE  pid[cseg[c]][i] # NoPid
    OBVIOUS
  <2>0. ShmTypeOK /\ ScanInv
    BY DEF ShmInv
  <2>1. ClientRefused(c)
    BY <2>0 DEF ShmNext, shmVars, ServerOpen, ServerMutex, ServerSlot, ServerExit, server, clients,
         ClientOpen, ClientStep, Lock, Unlock, Scan, Write, ExitScan, ClientRefused, Signal, ClientDie, Goto, ShmTypeOK
  <2>2. i < ci[c]
    BY <2>0, <2>1, ShmConstants DEF ClientRefused, ShmTypeOK, Slots
  <2> QED BY <2>0, <2>2 DEF ScanInv
<1> QED BY <1>1, ShmInvInit, ShmStep, PTL DEF ShmSpec, RefusedOnlyIfFull
=============================================================================
