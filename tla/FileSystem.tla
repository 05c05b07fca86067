------------------------------ MODULE FileSystem ------------------------------
(***************************************************************************)
(* The names and inodes of the xv6 file system (Project4-2/kernel: fs.c,   *)
(* sysfile.c, file.c): processes that create, open, link, unlink and close *)
(* files and make and remove directories at the same time.  A step goes    *)
(* from one access to icache or to the disk to the next; the disk is       *)
(* written through, so that every state is one that a crash can leave, and *)
(* the machine may stop once and start again from there.                   *)
(*                                                                         *)
(* The cached copy of a locked inode and its disk copy are one here: the   *)
(* code writes each change back before it unlocks.  Left out: data blocks, *)
(* "." and ".." as parts of a path, the current directory, and the panics  *)
(* of full tables.  A process has one descriptor.  MaxCrashes is a bound.  *)
(***************************************************************************)
EXTENDS Integers, Sequences, FiniteSets

CONSTANTS Procs,      \* the processes
          NINODES,    \* bound: number of inodes on the disk
          Names,      \* the names of directory entries
          Calls,      \* the system calls made: [call, path, new]
          MaxCrashes

CallNames == {"create", "mkdir", "open", "link", "unlink"}

Nobody == "nobody"   \* no process

FileSystemAssumption ==
  /\ IsFiniteSet(Procs) /\ Nobody \notin Procs /\ IsFiniteSet(Names)
  /\ NINODES \in Nat \ {0} /\ MaxCrashes \in Nat
  /\ Calls \subseteq [call : CallNames, path : Seq(Names) \ {<<>>},
                      new : Seq(Names) \ {<<>>}]

ASSUME FileSystemAssumption

Inodes == 1..NINODES
ROOTINO == 1
None == 0            \* no inode

VARIABLES type, nlink, entry,    \* the disk: inodes and directories,
          dots,                  \* what "." and ".." of them stand for
          ref, busy, valid,      \* icache; busy is I_BUSY with its owner
          file,                  \* the inode of the file each process has open
          loc,                   \* where each process is in its call
          strays,                \* inodes entered into a removed directory
          crashes,               \* how often the machine has stopped, and
          damaged                \* inodes with too many links since

disk == <<type, nlink, entry, dots>>
icache == <<ref, busy, valid>>
past == <<crashes, damaged>>
vars == <<disk, icache, file, loc, strays, past>>

NoEntries == [n \in Names |-> None]

(* A process that runs no call.  cur, dp and ip are the inodes it holds a  *)
(* reference to, and rel what it has still to unlock and to put.           *)
Idle == [pc |-> "idle", call |-> "open", rest |-> <<>>, new |-> <<>>,
         cur |-> None, dp |-> None, ip |-> None, rel |-> <<>>]

Releases == [do : {"unlock", "put", "trunc", "free", "done"}, ino : Inodes]
PCs == {"idle", "walk", "walked", "nowhere", "got", "create", "found",
        "found_locked", "c_lock", "c_init", "c_dots", "c_dot", "c_dotdot", "c_link",
        "opened", "link", "link_dir", "bad", "bad_locked", "unlink", "u_lock",
        "u_check", "u_parent", "u_child"}

TypeOK ==
  /\ type \in [Inodes -> {"free", "file", "dir"}]
  /\ nlink \in [Inodes -> Nat]
  /\ entry \in [Inodes -> [Names -> Inodes \cup {None}]]
  /\ dots \in [Inodes -> Seq(Inodes)] /\ \A i \in Inodes : Len(dots[i]) <= 2
  /\ ref \in [Inodes -> Nat]
  /\ busy \in [Inodes -> Procs \cup {Nobody}]
  /\ valid \in [Inodes -> BOOLEAN]
  /\ file \in [Procs -> Inodes \cup {None}]
  /\ \A p \in Procs :
       /\ loc[p].pc \in PCs /\ loc[p].call \in CallNames
       /\ {loc[p].cur, loc[p].dp, loc[p].ip} \subseteq Inodes \cup {None}
       /\ \A k \in 1..Len(loc[p].rel) : loc[p].rel[k] \in Releases
  /\ strays \subseteq Inodes /\ crashes \in 0..MaxCrashes /\ damaged \subseteq Inodes

(* mkfs: an empty root directory. *)
Init ==
  /\ type = [i \in Inodes |-> IF i = ROOTINO THEN "dir" ELSE "free"]
  /\ nlink = [i \in Inodes |-> IF i = ROOTINO THEN 1 ELSE 0]
  /\ entry = [i \in Inodes |-> NoEntries]
  /\ dots = [i \in Inodes |-> IF i = ROOTINO THEN <<ROOTINO, ROOTINO>> ELSE <<>>]
  /\ ref = [i \in Inodes |-> 0]
  /\ busy = [i \in Inodes |-> Nobody]
  /\ valid = [i \in Inodes |-> FALSE]
  /\ file = [p \in Procs |-> None]
  /\ loc = [p \in Procs |-> Idle]
  /\ strays = {} /\ crashes = 0 /\ damaged = {}

At(p, label) == loc[p].pc = label /\ loc[p].rel = <<>>

-----------------------------------------------------------------------------
(* iget(): one more reference.  An inode without references is not valid:  *)
(* iget() clears the flags of the entry it takes for it.                   *)
iget(i) ==
  /\ ref' = [ref EXCEPT ![i] = @ + 1]
  /\ UNCHANGED valid

(* ilock(): sleeps while the inode is busy. *)
ilock(p, i) ==
  /\ busy[i] = Nobody
  /\ busy' = [busy EXCEPT ![i] = p]
  /\ valid' = [valid EXCEPT ![i] = TRUE]

unlock_Forgotten(i) == <<>>
unlock(i) == <<[do |-> "unlock", ino |-> i]>>
put(i) == <<[do |-> "put", ino |-> i]>>
unlockput_Kept(i) == unlock(i)
unlockput(i) == unlock(i) \o put(i)

LastReference(i) == ref[i] = 1 /\ valid[i] /\ nlink[i] = 0

itrunc(i) == [entry EXCEPT ![i] = NoEntries]

(* iunlock() and iput(), one critical section or disk write at a time: the *)
(* last iput() of an unlinked inode truncates it, frees it, and uncaches   *)
(* it.                                                                     *)
Release(p) ==
  /\ loc[p].rel # <<>>
  /\ LET do == Head(loc[p].rel).do
         i == Head(loc[p].rel).ino
         then(r) == loc' = [loc EXCEPT ![p].rel = r]
         rest == Tail(loc[p].rel)
     IN \/ /\ do = "unlock"
           /\ busy' = [busy EXCEPT ![i] = Nobody]
           /\ then(rest)
           /\ UNCHANGED <<disk, ref, valid>>
        \/ /\ do = "put" /\ ~LastReference(i)
           /\ ref' = [ref EXCEPT ![i] = @ - 1]
           /\ valid' = [valid EXCEPT ![i] = @ /\ ref[i] > 1]
           /\ then(rest)
           /\ UNCHANGED <<disk, busy>>
        \/ /\ do = "put" /\ LastReference(i)
           /\ busy' = [busy EXCEPT ![i] = p]
           /\ then(<<[do |-> "trunc", ino |-> i]>> \o rest)
           /\ UNCHANGED <<disk, ref, valid>>
        \/ /\ do = "trunc"
           /\ entry' = itrunc(i) /\ dots' = [dots EXCEPT ![i] = <<>>]
           /\ then(<<[do |-> "free", ino |-> i]>> \o rest)
           /\ UNCHANGED <<type, nlink, icache>>
        \/ /\ do = "free"
           /\ type' = [type EXCEPT ![i] = "free"]
           /\ then(<<[do |-> "done", ino |-> i]>> \o rest)
           /\ UNCHANGED <<nlink, entry, dots, icache>>
        \/ /\ do = "done"
           /\ busy' = [busy EXCEPT ![i] = Nobody]
           /\ valid' = [valid EXCEPT ![i] = FALSE]
           /\ ref' = [ref EXCEPT ![i] = @ - 1]
           /\ then(rest)
           /\ UNCHANGED disk
  /\ UNCHANGED <<file, strays>>

-----------------------------------------------------------------------------
(* A call begins with namex(), which starts at the root.  Bounds: the      *)
(* inodes that calls may still allocate are counted, so that none meets a  *)
(* full disk, after an entry was lost in a removed directory no more are   *)
(* made, and after a crash one call runs at a time.                        *)
Creating == {p \in Procs : loc[p].pc # "idle" /\ loc[p].call \in {"create", "mkdir"}}
Start(p, c) ==
  /\ At(p, "idle")
  /\ c.call \in {"create", "mkdir"} =>
       Cardinality(Creating) < Cardinality({i \in Inodes : type[i] = "free"})
  /\ strays = {} \/ c.call \in {"open", "unlink"}
  /\ crashes = 0 \/ \A q \in Procs \ {p} : loc[q] = Idle
  /\ iget(ROOTINO)
  /\ loc' = [loc EXCEPT ![p] = [Idle EXCEPT !.pc = "walk", !.call = c.call,
                 !.rest = c.path, !.new = c.new, !.cur = ROOTINO]]
  /\ UNCHANGED <<disk, busy, file, strays>>

dirlookup(dp, name) == entry[dp][name]

WantsParent(p) == loc[p].call \in {"create", "mkdir", "unlink"} \/ loc[p].ip # None

WalkLock(p) ==
  /\ At(p, "walk")
  /\ ilock(p, loc[p].cur)
  /\ loc' = [loc EXCEPT ![p].pc = "walked"]
  /\ UNCHANGED <<disk, ref, file, strays>>

(* One step of the path, under the lock of the directory. *)
Walk(p) ==
  /\ At(p, "walked")
  /\ LET i == loc[p].cur
         next == dirlookup(i, Head(loc[p].rest))
         early == WantsParent(p) /\ Len(loc[p].rest) = 1
     IN \/ /\ type[i] = "dir" /\ early
           /\ loc' = [loc EXCEPT ![p].pc = "got", ![p].rel = unlock(i)]
           /\ UNCHANGED icache
        \/ /\ type[i] # "dir" \/ (~early /\ next = None)
           /\ loc' = [loc EXCEPT ![p].pc = "nowhere", ![p].cur = None,
                                 ![p].rel = unlockput(i)]
           /\ UNCHANGED icache
        \/ /\ type[i] = "dir" /\ ~early /\ next # None
           /\ iget(next)
           /\ loc' = [loc EXCEPT ![p].pc = IF Len(loc[p].rest) = 1 THEN "got" ELSE "walk",
                                 ![p].cur = next, ![p].rest = Tail(@),
                                 ![p].rel = unlockput(i)]
           /\ UNCHANGED busy
  /\ UNCHANGED <<disk, file, strays>>

(* namex() found nothing: the call fails. *)
Nowhere(p) ==
  /\ At(p, "nowhere")
  /\ loc' = [loc EXCEPT ![p] = IF @.ip = None THEN Idle ELSE [@ EXCEPT !.pc = "bad"]]
  /\ UNCHANGED <<disk, icache, file, strays>>

(* The caller of namex() locks what it got. *)
GotLock(p) ==
  /\ At(p, "got")
  /\ ilock(p, loc[p].cur)
  /\ LET l == [loc[p] EXCEPT !.cur = None]
         i == loc[p].cur
     IN loc' = [loc EXCEPT ![p] =
          CASE l.call \in {"create", "mkdir"} -> [l EXCEPT !.pc = "create", !.dp = i]
            [] l.call = "unlink" -> [l EXCEPT !.pc = "unlink", !.dp = i]
            [] l.call = "open" -> [l EXCEPT !.pc = "opened", !.ip = i]
            [] l.call = "link" /\ l.ip = None -> [l EXCEPT !.pc = "link", !.ip = i]
            [] OTHER -> [l EXCEPT !.pc = "link_dir", !.dp = i]]
  /\ UNCHANGED <<disk, ref, file, strays>>

Name(p) == Head(loc[p].rest)

(* The call is over but for what is still to be released. *)
Return(p, r) == loc' = [loc EXCEPT ![p] = [Idle EXCEPT !.rel = r]]

-----------------------------------------------------------------------------
(* create(): the name exists already ... *)
CreateFound(p) ==
  /\ At(p, "create")
  /\ LET i == dirlookup(loc[p].dp, Name(p))
     IN /\ i # None
        /\ iget(i)
        /\ loc' = [loc EXCEPT ![p].pc = "found", ![p].ip = i, ![p].dp = None,
                              ![p].rel = unlockput(loc[p].dp)]
  /\ UNCHANGED <<disk, busy, file, strays>>

FoundLock(p) ==
  /\ At(p, "found")
  /\ ilock(p, loc[p].ip)
  /\ loc' = [loc EXCEPT ![p].pc = "found_locked"]
  /\ UNCHANGED <<disk, ref, file, strays>>

Found(p) ==
  /\ At(p, "found_locked")
  /\ IF loc[p].call = "create" /\ type[loc[p].ip] = "file"
       THEN loc' = [loc EXCEPT ![p].pc = "opened"]
       ELSE Return(p, unlockput(loc[p].ip))
  /\ UNCHANGED <<disk, icache, file, strays>>

(* ... or it does not: ialloc() the first free inode, lock it, set it up,  *)
(* and enter it into the directory.                                        *)
CreateAlloc(p) ==
  /\ At(p, "create")
  /\ dirlookup(loc[p].dp, Name(p)) = None
  /\ \E i \in Inodes :
       /\ type[i] = "free" /\ \A j \in Inodes : type[j] = "free" => i <= j
       /\ type' = [type EXCEPT ![i] = IF loc[p].call = "mkdir" THEN "dir" ELSE "file"]
       /\ nlink' = [nlink EXCEPT ![i] = 0]
       /\ iget(i)
       /\ loc' = [loc EXCEPT ![p].pc = "c_lock", ![p].ip = i]
  /\ UNCHANGED <<entry, dots, busy, file, strays>>

CreateLock(p) ==
  /\ At(p, "c_lock")
  /\ ilock(p, loc[p].ip)
  /\ loc' = [loc EXCEPT ![p].pc = "c_init"]
  /\ UNCHANGED <<disk, ref, file, strays>>

CreateInit(p) ==
  /\ At(p, "c_init")
  /\ nlink' = [nlink EXCEPT ![loc[p].ip] = 1]
  /\ loc' = [loc EXCEPT ![p].pc = IF loc[p].call = "mkdir" THEN "c_dots" ELSE "c_link"]
  /\ UNCHANGED <<type, entry, dots, icache, file, strays>>

(* A directory: one link more to its parent, then "." and "..". *)
CreateDots(p) ==
  /\ At(p, "c_dots")
  /\ nlink' = [nlink EXCEPT ![loc[p].dp] = @ + 1]
  /\ loc' = [loc EXCEPT ![p].pc = "c_dot"]
  /\ UNCHANGED <<type, entry, dots, icache, file, strays>>

CreateDot(p) ==
  /\ loc[p].pc \in {"c_dot", "c_dotdot"} /\ loc[p].rel = <<>>
  /\ LET first == loc[p].pc = "c_dot"
     IN /\ dots' = [dots EXCEPT ![loc[p].ip] =
                               Append(@, IF first THEN loc[p].ip ELSE loc[p].dp)]
        /\ loc' = [loc EXCEPT ![p].pc = IF first THEN "c_dotdot" ELSE "c_link"]
  /\ UNCHANGED <<type, nlink, entry, icache, file, strays>>

(* dirlink() of the inode in hand, which the directory's lock makes one    *)
(* step; a directory that was removed meanwhile takes entries as well.     *)
Enter(p) ==
  /\ entry' = [entry EXCEPT ![loc[p].dp][Name(p)] = loc[p].ip]
  /\ strays' = IF \E d \in Inodes : \E n \in Names : entry[d][n] = loc[p].dp
                    \/ loc[p].dp = ROOTINO
                 THEN strays ELSE strays \cup {loc[p].dp, loc[p].ip}

CreateLink(p) ==
  /\ At(p, "c_link")
  /\ Enter(p)
  /\ IF loc[p].call = "create"
       THEN loc' = [loc EXCEPT ![p].pc = "opened", ![p].dp = None,
                               ![p].rel = unlockput(loc[p].dp)]
       ELSE Return(p, unlockput(loc[p].dp) \o unlockput(loc[p].ip))
  /\ UNCHANGED <<type, nlink, dots, icache, file>>

(* sys_open(): the file takes the reference, or no file is free. *)
Opened(p) ==
  /\ At(p, "opened")
  /\ IF file[p] = None
       THEN /\ file' = [file EXCEPT ![p] = loc[p].ip]
            /\ Return(p, unlock(loc[p].ip))
       ELSE /\ Return(p, unlockput(loc[p].ip))
            /\ UNCHANGED file
  /\ UNCHANGED <<disk, icache, strays>>

Close(p) ==
  /\ At(p, "idle") /\ file[p] # None
  /\ file' = [file EXCEPT ![p] = None]
  /\ Return(p, put(file[p]))
  /\ UNCHANGED <<disk, icache, strays>>

-----------------------------------------------------------------------------
(* sys_link(): count the new link first, then look for its directory. *)
LinkCounted_Not(i) == nlink
LinkCounted(i) == [nlink EXCEPT ![i] = @ + 1]

Link(p) ==
  /\ At(p, "link")
  /\ IF type[loc[p].ip] = "dir"
       THEN Return(p, unlockput(loc[p].ip)) /\ UNCHANGED <<nlink, ref, valid>>
       ELSE /\ nlink' = LinkCounted(loc[p].ip)
            /\ iget(ROOTINO)
            /\ loc' = [loc EXCEPT ![p].pc = "walk", ![p].cur = ROOTINO,
                         ![p].rest = loc[p].new, ![p].rel = unlock(loc[p].ip)]
  /\ UNCHANGED <<type, entry, dots, busy, file, strays>>

LinkExists(p) ==
  /\ At(p, "link_dir")
  /\ LET i == dirlookup(loc[p].dp, Name(p))
     IN /\ i # None
        /\ iget(i)
        /\ loc' = [loc EXCEPT ![p].pc = "bad", ![p].dp = None,
                              ![p].rel = put(i) \o unlockput(loc[p].dp)]
  /\ UNCHANGED <<disk, busy, file, strays>>

LinkEnter(p) ==
  /\ At(p, "link_dir")
  /\ dirlookup(loc[p].dp, Name(p)) = None
  /\ Enter(p)
  /\ Return(p, unlockput(loc[p].dp) \o put(loc[p].ip))
  /\ UNCHANGED <<type, nlink, dots, icache, file>>

BadLock(p) ==
  /\ At(p, "bad")
  /\ ilock(p, loc[p].ip)
  /\ loc' = [loc EXCEPT ![p].pc = "bad_locked"]
  /\ UNCHANGED <<disk, ref, file, strays>>

BackOut_Not(i) == nlink
BackOut(i) == [nlink EXCEPT ![i] = @ - 1]

Bad(p) ==
  /\ At(p, "bad_locked")
  /\ nlink' = BackOut(loc[p].ip)
  /\ Return(p, unlockput(loc[p].ip))
  /\ UNCHANGED <<type, entry, dots, icache, file, strays>>

-----------------------------------------------------------------------------
(* sys_unlink(): with the directory locked, lock what the name stands for, *)
(* clear the entry, and only then count the links down.                    *)
UnlinkLookup(p) ==
  /\ At(p, "unlink")
  /\ LET i == dirlookup(loc[p].dp, Name(p))
     IN IF i = None
          THEN Return(p, unlockput(loc[p].dp)) /\ UNCHANGED <<ref, valid>>
          ELSE /\ iget(i)
               /\ loc' = [loc EXCEPT ![p].pc = "u_lock", ![p].ip = i]
  /\ UNCHANGED <<disk, busy, file, strays>>

UnlinkLock(p) ==
  /\ At(p, "u_lock")
  /\ ilock(p, loc[p].ip)
  /\ loc' = [loc EXCEPT ![p].pc = "u_check"]
  /\ UNCHANGED <<disk, ref, file, strays>>

isdirempty(i) == entry[i] = NoEntries

UnlinkClear(p) ==
  /\ At(p, "u_check")
  /\ IF type[loc[p].ip] = "dir" /\ ~isdirempty(loc[p].ip)
       THEN Return(p, unlockput(loc[p].ip) \o unlockput(loc[p].dp)) /\ UNCHANGED entry
       ELSE /\ entry' = [entry EXCEPT ![loc[p].dp][Name(p)] = None]
            /\ loc' = [loc EXCEPT ![p].pc = "u_parent"]
  /\ UNCHANGED <<type, nlink, dots, icache, file, strays>>

UnlinkParent(p) ==
  /\ At(p, "u_parent")
  /\ nlink' = IF type[loc[p].ip] = "dir" THEN [nlink EXCEPT ![loc[p].dp] = @ - 1]
                                         ELSE nlink
  /\ loc' = [loc EXCEPT ![p].pc = "u_child", ![p].dp = None,
                        ![p].rel = unlockput(loc[p].dp)]
  /\ UNCHANGED <<type, entry, dots, icache, file, strays>>

UnlinkChild(p) ==
  /\ At(p, "u_child")
  /\ nlink' = [nlink EXCEPT ![loc[p].ip] = @ - 1]
  /\ Return(p, unlockput(loc[p].ip))
  /\ UNCHANGED <<type, entry, dots, icache, file, strays>>

-----------------------------------------------------------------------------
CallStep(p) ==
  \/ Release(p) \/ WalkLock(p) \/ Walk(p) \/ Nowhere(p) \/ GotLock(p)
  \/ CreateFound(p) \/ FoundLock(p) \/ Found(p) \/ CreateAlloc(p) \/ CreateLock(p)
  \/ CreateInit(p) \/ CreateDots(p) \/ CreateDot(p) \/ CreateLink(p) \/ Opened(p)
  \/ Link(p) \/ LinkExists(p) \/ LinkEnter(p) \/ BadLock(p) \/ Bad(p)
  \/ UnlinkLookup(p) \/ UnlinkLock(p) \/ UnlinkClear(p) \/ UnlinkParent(p)
  \/ UnlinkChild(p)

Links(i) == {dn \in Inodes \X Names : type[dn[1]] = "dir" /\ entry[dn[1]][dn[2]] = i}
Subdirs(i) == {n \in Names : entry[i][n] # None /\ type[entry[i][n]] = "dir"}

(* Names and links agree (the root's ".." is the link that is not counted). *)
Exact(i) ==
  /\ type[i] # "free" => Links(i) # {} \/ i = ROOTINO
  /\ type[i] = "file" => nlink[i] = Cardinality(Links(i))
  /\ type[i] = "dir" => nlink[i] = 1 + Cardinality(Subdirs(i))

(* The machine stops and starts again: of all this the disk is left.       *)
Crash ==
  /\ crashes < MaxCrashes
  /\ crashes' = crashes + 1
  /\ damaged' = {i \in Inodes : ~Exact(i)}
  /\ ref' = [i \in Inodes |-> 0]
  /\ busy' = [i \in Inodes |-> Nobody]
  /\ valid' = [i \in Inodes |-> FALSE]
  /\ file' = [p \in Procs |-> None]
  /\ loc' = [p \in Procs |-> Idle]
  /\ UNCHANGED <<disk, strays>>

Next ==
  \/ /\ \E p \in Procs : CallStep(p) \/ Close(p) \/ \E c \in Calls : Start(p, c)
     /\ UNCHANGED past
  \/ Crash

Spec == Init /\ [][Next]_vars

(* The scheduler's round robin runs a process that stays runnable.  (Who   *)
(* gets a contended inode next is up to the order of the process table.)   *)
FairSpec == Spec /\ \A p \in Procs : WF_vars(CallStep(p) /\ UNCHANGED past)

-----------------------------------------------------------------------------
(* The references to an inode that somebody has to put. *)
Held(i) ==
  Cardinality({pv \in Procs \X {"cur", "dp", "ip"} : loc[pv[1]][pv[2]] = i})
  + Cardinality(UNION {{<<p, k>> : k \in {k \in 1..Len(loc[p].rel) :
        loc[p].rel[k].ino = i /\ loc[p].rel[k].do # "unlock"}} : p \in Procs})
  + Cardinality({p \in Procs : file[p] = i})

(* No panic of ilock(), iput() or unlink(): nobody locks a free inode, the *)
(* last reference is not put while the inode is busy, and what is unlinked *)
(* has a link.                                                             *)
NoPanic ==
  /\ \A i \in Inodes : busy[i] # Nobody /\ type[i] = "free" =>
       loc[busy[i]].rel # <<>> /\ Head(loc[busy[i]].rel) = [do |-> "done", ino |-> i]
  /\ \A p \in Procs : loc[p].rel # <<>> /\ Head(loc[p].rel).do = "put" =>
       LET i == Head(loc[p].rel).ino IN LastReference(i) => busy[i] = Nobody
  /\ \A p \in Procs : loc[p].pc = "u_check" => nlink[loc[p].ip] >= 1

(* ip->ref counts the references to a cached inode, those of open files    *)
(* and those that running calls hold or are about to put, so that no panic *)
(* is reached.                                                             *)
RefExact == TypeOK /\ NoPanic /\ \A i \in Inodes : ref[i] = Held(i)

(* Whenever the machine stops, no name stands for a free inode, and an     *)
(* inode has at least as many links counted as names: the order of the     *)
(* writes in link(), unlink() and create().  This stays so when the system *)
(* goes on with the disk that a crash left.                                *)
CrashSafe ==
  \A i \in Inodes \ {ROOTINO} :
    /\ Links(i) # {} => type[i] # "free"
    /\ nlink[i] >= Cardinality(Links(i))

(* With no call running the counts are exact and nothing is left behind:   *)
(* every inode has a name or is open.  A crash damages what it caught in   *)
(* the middle of a call, and later calls damage nothing more.              *)
Quiet == \A p \in Procs : loc[p] = Idle
NothingLost ==
  Quiet => \A i \in Inodes \ ({ROOTINO} \cup strays \cup damaged) :
    /\ type[i] = "file" => nlink[i] = Cardinality(Links(i))
    /\ type[i] = "dir" /\ Links(i) # {} => nlink[i] = 1 + Cardinality(Subdirs(i))
    /\ type[i] # "free" => Links(i) # {} \/ \E p \in Procs : file[p] = i
    /\ busy[i] = Nobody

(* Calls never wait for each other's inodes for ever, and a call that no   *)
(* other call runs beside does not wait at all.                            *)
Alone(p) == loc[p] # Idle /\ \A q \in Procs \ {p} : loc[q] = Idle
CallsEnd == /\ []<>(\E p \in Procs : loc[p] = Idle)
            /\ \A p \in Procs : Alone(p) ~> ~Alone(p)
=============================================================================
