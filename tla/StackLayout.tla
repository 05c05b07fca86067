----------------------------- MODULE StackLayout -----------------------------
(***************************************************************************)
(* Address spaces of the xv6 with the stack at the top of user memory      *)
(* (Stack relocation of xv6/xv6/kernel: proc.c, vm.c, exec.c, syscall.c,   *)
(* trap.c).  The heap ends at sz and grows up, the stack begins at         *)
(* stack_head and grows down, a page at a time, when a page fault asks for *)
(* it.  Addresses are unsigned numbers that wrap, and int is their signed   *)
(* reading.  A system call is one step: no two processes   *)
(* share an address space in this kernel, only the frames of memory.       *)
(***************************************************************************)
EXTENDS Integers, FiniteSets

CONSTANTS Procs,
          INT_MAX,    \* 2^31 - 1 in the code
          PGSIZE, USERTOP,
          WORD,       \* bytes of an int
          Images,     \* memsz of the programs that can be exec'd
          Increments, \* arguments of sbrk()
          NFRAMES     \* pages of physical memory for users

UINTS == 2 * (INT_MAX + 1)    \* how many numbers an unsigned int has
Word == 0..UINTS-1
uint(x) == x % UINTS
int(x) == IF uint(x) <= INT_MAX THEN uint(x) ELSE uint(x) - UINTS
PGROUNDUP(a) == (uint(a + PGSIZE - 1) \div PGSIZE) * PGSIZE
Base == 2 * PGSIZE            \* where programs are loaded

(* The image of a program leaves five pages under its one page of stack:   *)
(* exec() does not look.                                                   *)
StackLayoutAssumption ==
  /\ IsFiniteSet(Procs)
  /\ INT_MAX \in Nat /\ PGSIZE \in Nat \ {0} /\ WORD \in 1..PGSIZE
  /\ NFRAMES \in Nat
  /\ USERTOP \in Nat /\ USERTOP % PGSIZE = 0 /\ 2 * USERTOP <= INT_MAX
  /\ Images \subseteq Nat \ {0}
  /\ \A m \in Images : Base + m + 6 * PGSIZE <= USERTOP
  /\ Increments \subseteq -INT_MAX-1..INT_MAX

ASSUME StackLayoutAssumption

VARIABLES state,             \* "unused", "user" or "zombie"
          sz, stack_head,
          pages,             \* addresses of the pages that are mapped
          free,              \* frames that kalloc() has left
          panicked           \* "no", or what panic() was about

vars == <<state, sz, stack_head, pages, free, panicked>>

(* Addresses of pages from a to b, as the loops for(; a < b; a += PGSIZE). *)
PagesIn(a, b) == {x \in Word : x % PGSIZE = 0 /\ a <= x /\ x < b}

(* A process whose code is mapped goes on; any other one faults at once.   *)
Runs(p) == state[p] = "user" /\ panicked = "no" /\ Base \in pages[p]

(* Some process runs that init has exec'd. *)
Init ==
  \E p \in Procs, m \in Images :
    LET mine == PagesIn(Base, Base + m) \cup {USERTOP - PGSIZE}
    IN /\ state = [q \in Procs |-> IF q = p THEN "user" ELSE "unused"]
       /\ sz = [q \in Procs |-> IF q = p THEN Base + m ELSE 0]
       /\ stack_head = [q \in Procs |-> IF q = p THEN USERTOP - PGSIZE ELSE 0]
       /\ pages = [q \in Procs |-> IF q = p THEN mine ELSE {}]
       /\ free = NFRAMES - Cardinality(mine)
       /\ free >= 0
       /\ panicked = "no"

-----------------------------------------------------------------------------
(* allocuvm(): the new size, or 0 if the pages are too high or too many;   *)
(* what it had mapped by then is unmapped again.                           *)
Fresh(old, new) == PagesIn(PGROUNDUP(old), new)
allocuvm(old, new) ==
  IF new > USERTOP THEN 0
  ELSE IF new < old THEN old
  ELSE IF Cardinality(Fresh(old, new)) > free THEN 0 ELSE new

(* The pages after it. *)
Allocated(p, old, new) ==
  IF new > USERTOP \/ new < old \/ Cardinality(Fresh(old, new)) > free
  THEN pages[p] ELSE pages[p] \cup Fresh(old, new)

(* deallocuvm(): the pages from new up, and the new size. *)
deallocuvm(old, new) == IF new >= old THEN old ELSE new
Deallocated(p, old, new) ==
  IF new >= old THEN pages[p] ELSE pages[p] \ PagesIn(PGROUNDUP(new), old)

(* Give process p the pages S and account for the frames. *)
SetPages(p, S) ==
  /\ pages' = [pages EXCEPT ![p] = S]
  /\ free' = free + Cardinality(pages[p] \ S) - Cardinality(S \ pages[p])

(* The five pages that growproc() keeps free. *)
Gap_Old(p, n) == int(stack_head[p] - sz[p])
Gap(p, n) == int(stack_head[p] - sz[p] - n)

(* sbrk(n): growproc().  To shrink to size 0 counts as a failure, after    *)
(* the pages are gone.                                                     *)
sbrk(p, n) ==
  /\ Runs(p) /\ ~(Gap(p, n) < 5 * PGSIZE)
  /\ LET new == uint(sz[p] + n)
         got == IF n > 0 THEN allocuvm(sz[p], new) ELSE deallocuvm(sz[p], new)
     IN /\ SetPages(p, IF n > 0 THEN Allocated(p, sz[p], new)
                       ELSE Deallocated(p, sz[p], new))
        /\ sz' = [sz EXCEPT ![p] = IF got = 0 THEN @ ELSE got]
  /\ UNCHANGED <<state, stack_head, panicked>>

(* growstack(), for a fault at address a.  The gap is measured before the  *)
(* stack takes a page of it, so four pages and a part can be left.         *)
Refused(p, a) ==
  \/ a < Base \/ a >= USERTOP \/ a < uint(stack_head[p] - PGSIZE)
  \/ a < sz[p] + 5 * PGSIZE /\ a > sz[p]
Room_Always(p) == TRUE
Room(p) == uint(stack_head[p] - sz[p]) > 5 * PGSIZE

growstack(p, a) ==
  /\ ~Refused(p, a) /\ Room(p)
  /\ allocuvm(uint(stack_head[p] - PGSIZE), stack_head[p]) # 0
  /\ SetPages(p, Allocated(p, uint(stack_head[p] - PGSIZE), stack_head[p]))
  /\ stack_head' = [stack_head EXCEPT ![p] = uint(@ - PGSIZE)]
  /\ UNCHANGED <<state, sz, panicked>>

CanGrow(p, a) ==
  ~Refused(p, a) /\ Room(p) /\ allocuvm(uint(stack_head[p] - PGSIZE), stack_head[p]) # 0

Die(p) == state' = [state EXCEPT ![p] = "zombie"]

(* trap(): a page fault in user mode grows the stack or ends the process.  *)
Unmapped(p, a) == \A x \in pages[p] : ~(x <= a /\ a < x + PGSIZE)
PageFault(p, a) ==
  /\ state[p] = "user" /\ panicked = "no" /\ Unmapped(p, a)
  /\ \/ Runs(p) /\ growstack(p, a)
     \/ /\ ~CanGrow(p, a) /\ Die(p)
        /\ UNCHANGED <<sz, stack_head, pages, free, panicked>>

(* fetchint() of a system call's argument at a: checkbounds(), and then    *)
(* the kernel reads; a page that is missing here would end in a fault in   *)
(* the kernel, over and over.                                              *)
checkbounds(p, addr, size) ==
  ~ \/ int(addr) > USERTOP \/ int(addr + size) > USERTOP
    \/ int(addr) < Base \/ int(addr + size) < Base
    \/ addr >= sz[p] /\ addr < stack_head[p]
    \/ uint(addr + size) > sz[p] /\ uint(addr + size) < stack_head[p]
fetchint(p, a) ==
  /\ Runs(p) /\ checkbounds(p, a, WORD)
  /\ panicked' = IF \E x \in a..(a + WORD - 1) : Unmapped(p, x) THEN "page" ELSE "no"
  /\ UNCHANGED <<state, sz, stack_head, pages, free>>

-----------------------------------------------------------------------------
(* copyuvm() walks these pages and panics if one is not there. *)
Copied_NoStack(p) == PagesIn(Base, sz[p])
Copied(p) == PagesIn(Base, sz[p]) \cup PagesIn(stack_head[p], USERTOP)

fork(p, c) ==
  /\ Runs(p) /\ state[c] = "unused"
  /\ panicked' = IF Copied(p) \subseteq pages[p] THEN "no" ELSE "page"
  /\ Cardinality(Copied(p)) <= free
  /\ SetPages(c, Copied(p))
  /\ state' = [state EXCEPT ![c] = "user"]
  /\ sz' = [sz EXCEPT ![c] = sz[p]]
  /\ stack_head' = [stack_head EXCEPT ![c] = stack_head[p]]

(* exec(): a new image beside the old one; if there is no room it fails,   *)
(* except that no room for the stack's page is a panic.                    *)
ImagePages(m) == PagesIn(Base, Base + m)
exec(p, m) ==
  /\ Runs(p)
  /\ Cardinality(ImagePages(m)) <= free
  /\ panicked' = IF Cardinality(ImagePages(m)) = free THEN "memory" ELSE "no"
  /\ IF Cardinality(ImagePages(m)) = free
     THEN UNCHANGED <<sz, stack_head, pages, free>>
     ELSE /\ SetPages(p, ImagePages(m) \cup {USERTOP - PGSIZE})
          /\ sz' = [sz EXCEPT ![p] = Base + m]
          /\ stack_head' = [stack_head EXCEPT ![p] = USERTOP - PGSIZE]
  /\ UNCHANGED state

exit(p) ==
  /\ Runs(p) /\ Die(p)
  /\ UNCHANGED <<sz, stack_head, pages, free, panicked>>

(* The parent's wait(): freevm().  What sz and stack_head an unused slot   *)
(* keeps is never read: fork() sets both.                                  *)
wait(p) ==
  /\ state[p] = "zombie" /\ panicked = "no"
  /\ SetPages(p, pages[p] \ PagesIn(0, USERTOP))
  /\ state' = [state EXCEPT ![p] = "unused"]
  /\ sz' = [sz EXCEPT ![p] = 0] /\ stack_head' = [stack_head EXCEPT ![p] = 0]
  /\ UNCHANGED panicked

Next ==
  \E p \in Procs :
    \/ exit(p) \/ wait(p)
    \/ \E c \in Procs : fork(p, c)
    \/ \E n \in Increments : sbrk(p, n)
    \/ \E a \in 0..USERTOP : PageFault(p, a) \/ fetchint(p, a)
    \/ \E m \in Images : exec(p, m)

Spec == Init /\ [][Next]_vars

-----------------------------------------------------------------------------
TypeOK ==
  /\ state \in [Procs -> {"unused", "user", "zombie"}]
  /\ sz \in [Procs -> 0..USERTOP] /\ stack_head \in [Procs -> 0..USERTOP]
  /\ pages \in [Procs -> SUBSET PagesIn(0, USERTOP)]
  /\ free \in 0..NFRAMES /\ panicked \in {"no", "memory", "page"}

Mapped == UNION {{p} \X pages[p] : p \in Procs}

(* The two numbers sz and stack_head say exactly which pages a running     *)
(* process has, whatever sbrk(), page faults, fork() and exec() did and    *)
(* wherever they ran out of frames; so fork() finds every page it copies,  *)
(* an argument that passes checkbounds() can be read, and no frame is lost *)
(* or freed twice (allocuvm(), deallocuvm(), copyuvm(), freevm()).         *)
LayoutExact ==
  /\ TypeOK
  /\ \A p \in Procs : Runs(p) =>
       pages[p] = PagesIn(Base, sz[p]) \cup PagesIn(stack_head[p], USERTOP)
  /\ free + Cardinality(Mapped) = NFRAMES
  /\ panicked # "page"

(* Heap and stack never meet: more than four pages lie between them after  *)
(* any sequence of growproc(), with increments of either sign and of any   *)
(* size, and growstack(), in the parent and in its children.               *)
GapKept ==
  \A p \in Procs : state[p] = "user" => stack_head[p] - sz[p] > 4 * PGSIZE
=============================================================================
