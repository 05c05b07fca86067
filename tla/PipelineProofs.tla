--------------------------- MODULE PipelineProofs ---------------------------
(***************************************************************************)
(* Pipes, descriptors and the shell, for any number of processes, files,   *)
(* pipes, bytes and events and any commands: file references and the pages *)
(* of pipes are exact, and nobody sleeps for what is there. The invariant  *)
(* has four parts. ProcInv says which calls of sh.c may be left to a       *)
(* process given the descriptors that are open: so a close() or a dup()    *)
(* never fails, and the new descriptor is the one that runcmd() counts on. *)
(* FileInv is the count of references. PipeInv makes one file or one       *)
(* closing process of every open end, between the steps of a close as      *)
(* well. Standing is the cause of every sleep.                             *)
(***************************************************************************)
EXTENDS Pipeline, SequenceTheorems, FiniteSetTheorems, WellFoundedInduction, TLAPS

(* The operations of a call, and the calls that a process may have left to *)
(* make.                                                                   *)
Ops == {"exit", "close", "dup", "fork", "run", "write", "read", "wait", "pipe", "open"}
Calls == [op : Ops, fd : Fds \cup {NoFd, P0, P1}, cmd : Cmds \cup {NoCmd}]

(* The descriptors that are open before a pipe() of the shell, and after   *)
(* it.                                                                     *)
Std == {0, 1, 2}
Both == {0, 1, 2, 3, 4}

(* What runcmd() still does for a PIPE command once both children are      *)
(* there.                                                                  *)
PipeTail == <<Close(P0), Close(P1), Do("wait"), Do("wait"), Do("exit")>>

(* Calls left to a process that has descriptors 0, 1 and 2 open: what      *)
(* runcmd() and the programs do, a step after the other.                   *)
Plain(t) ==
  \/ t = <<>>
  \/ t = <<Do("write"), Do("exit")>> \/ t = <<Do("read"), Do("exit")>>
  \/ t = <<Do("wait")>> \/ t = <<Do("wait"), Do("exit")>>
  \/ t = <<Do("wait"), Do("wait"), Do("exit")>>
  \/ \E c \in Cmds :
       \/ t = <<Fork(NoFd, c), Do("wait")>> \/ t = <<Fork(NoFd, c), Do("exit")>>
       \/ t = <<Do("wait"), Run(c)>>
       \/ \E f \in {0, 1} : t = <<Close(f), Call("open", f, NoCmd), Run(c)>>
  \/ \E c, d \in Cmds :
       \/ t = <<Fork(NoFd, c), Do("wait"), Run(d)>>
       \/ t = <<Do("pipe"), Fork(1, c), Fork(0, d), Close(P0), Close(P1),
                Do("wait"), Do("wait"), Do("exit")>>

(* Calls left while both ends of a pipe are open: of the shell between     *)
(* pipe() and close(), and of a child before it has taken its end.         *)
Piped(t) ==
  \/ t = PipeTail
  \/ \E c, d \in Cmds :
       t = <<Fork(1, c), Fork(0, d), Close(P0), Close(P1), Do("wait"), Do("wait"), Do("exit")>>
  \/ \E d \in Cmds :
       t = <<Fork(0, d), Close(P0), Close(P1), Do("wait"), Do("wait"), Do("exit")>>
  \/ \E f \in {0, 1}, c \in Cmds : t = ForkChild(f, c)
  \/ \E c \in Cmds : t = <<Close(P0), Close(P1), Run(c)>>

(* The calls t that may be left to a process whose open descriptors are S  *)
(* and whose p[0] and p[1] are e. It relates sh.c to the descriptors: a    *)
(* close() and a dup() find theirs open, and read() and write() find 0 and *)
(* 1.                                                                      *)
Task(t, S, e) ==
  \/ t = <<Do("exit")>>
  \/ S = Std /\ Plain(t)
  \/ \E f \in {0, 1}, c \in Cmds : S = Std \ {f} /\ t = <<Call("open", f, NoCmd), Run(c)>>
  \/ /\ e = <<3, 4>>
     /\ \/ S = Both /\ Piped(t)
        \/ \E f \in {0, 1}, c \in Cmds :
             S = Both \ {f} /\ t = <<Dup(IF f = 0 THEN P0 ELSE P1), Close(P0), Close(P1), Run(c)>>
        \/ /\ S = Both \ {3}
           /\ \/ t = <<Close(P1), Do("wait"), Do("wait"), Do("exit")>>
              \/ \E c \in Cmds : t = <<Close(P1), Run(c)>>

(* The descriptors of a process that are open.                             *)
Open(o) == {f \in Fds : o[f] # NoFile}

(* What a process may sleep on, what it may still do after the unlock in   *)
(* fileclose() or pipeclose(), and its record.                             *)
Chans == {NoChan} \cup {nread(k) : k \in Pipes} \cup {nwrite(k) : k \in Pipes}
         \cup {child(p) : p \in Procs}
Pends == [what : {"none", "close", "kfree"}, pipe : Pipes \cup {NoPipe}, writable : BOOLEAN]
Records ==
  [state : {"UNUSED", "LIVE", "ZOMBIE"}, parent : Procs \cup {init}, killed : BOOLEAN,
   chan : Chans, ofile : [Fds -> Files \cup {NoFile}], p : (Fds \cup {NoFd}) \X (Fds \cup {NoFd}),
   todo : Seq(Calls), pc : {"user", "in", "doze"}, left : 0..BYTES, pend : Pends]

(* No descriptor is open.                                                  *)
NoFiles == [f \in Fds |-> NoFile]

(* A process that has exited, or a slot that is not in use.                *)
Idle(r) == r.ofile = NoFiles /\ r.chan = NoChan /\ r.pend = NoPend /\ r.pc = "user"

(* sleep() is called from wait(), piperead() and pipewrite(), on their     *)
(* channels.                                                               *)
Sleeps(r, q) ==
  \/ r.chan = NoChan
  \/ r.chan = child(q) /\ Head(r.todo).op = "wait"
  \/ Head(r.todo).op = "read" /\ \E k \in Pipes : r.chan = nread(k)
  \/ Head(r.todo).op = "write" /\ \E k \in Pipes : r.chan = nwrite(k)

(* The record r of the process in slot q by itself: what is left to do     *)
(* fits what is open, and it is inside of a call only where the call can   *)
(* sleep.                                                                  *)
Sane(r, q) ==
  /\ r.state # "LIVE" => Idle(r)
  /\ r.state = "LIVE" /\ (r.killed => r.pc # "user") => Task(r.todo, Open(r.ofile), r.p)
  /\ r.pc # "user" => /\ r.todo # <<>> /\ r.pend = NoPend
                      /\ Head(r.todo).op \in (IF r.pc = "in" THEN {"read", "write", "wait"}
                                                         ELSE {"read", "write"})
  /\ r.chan # NoChan => r.pc = "in"
  /\ Sleeps(r, q)
  /\ r.pend = NoPend \/ (r.pend.what # "none" /\ r.pend.pipe \in Pipes)

(* Every process is so.                                                    *)
ProcInv == proc \in [Procs -> Records] /\ \A q \in Procs : Sane(proc[q], q)

(* Entries of the table of files, and pages of pipes.                      *)
FileRecs == [ref : Nat, type : {"NONE", "INODE", "PIPE"}, readable : BOOLEAN,
             writable : BOOLEAN, pipe : Pipes \cup {NoPipe}]
PageRecs == [used : BOOLEAN, n : 0..PIPESIZE, readopen : BOOLEAN, writeopen : BOOLEAN, cut : BOOLEAN]

(* The console's references by init.                                       *)
Extra(f) == IF f = console THEN 3 ELSE 0

(* filealloc(), filedup() and fileclose() count: the references to a file  *)
(* are its descriptors, and one without references is free.                *)
FileInv ==
  /\ file \in [Files -> FileRecs]
  /\ \A f \in Files :
       /\ file[f].ref = Cardinality(Holders(f)) + Extra(f)
       /\ file[f].ref = 0 <=> file[f].type = "NONE"
       /\ IF file[f].type = "PIPE" THEN file[f].pipe \in Pipes ELSE file[f].pipe = NoPipe
  /\ file[console].type = "INODE"

(* A file is the end of a pipe; a process is about to run pipeclose() on   *)
(* it; the end is open; a process is about to free the page.               *)
IsEnd(f, k, w) == file[f].type = "PIPE" /\ file[f].pipe = k /\ file[f].writable = w
Closes(p, k, w) == proc[p].pend = [what |-> "close", pipe |-> k, writable |-> w]
IsOpen(k, w) == IF w THEN pipe[k].writeopen ELSE pipe[k].readopen
Frees(p, k) == proc[p].pend.what = "kfree" /\ proc[p].pend.pipe = k

(* Each end of a pipe that is open is one file, or one process on its way  *)
(* into pipeclose(), never both; the page is freed by the one process that *)
(* found both ends closed.                                                 *)
PipeInv ==
  /\ pipe \in [Pipes -> PageRecs]
  /\ \A k \in Pipes :
       /\ ~pipe[k].used => pipe[k] = NoPage
       /\ \A w \in BOOLEAN :
            /\ \A f \in Files : IsEnd(f, k, w) => IsOpen(k, w) /\ \A g \in Files : IsEnd(g, k, w) => f = g
            /\ \A p \in Procs : Closes(p, k, w) => IsOpen(k, w) /\ \A q \in Procs : Closes(q, k, w) => p = q
            /\ \A f \in Files, p \in Procs : ~(IsEnd(f, k, w) /\ Closes(p, k, w))
            /\ IsOpen(k, w) => EndOpen(k, w)
       /\ \A p, q \in Procs : Frees(p, k) /\ Frees(q, k) => p = q
       /\ (pipe[k].used /\ ~pipe[k].readopen /\ ~pipe[k].writeopen) <=> \E p \in Procs : Frees(p, k)

(* Why a reader sleeps, and a writer: pipe.c:104 and :84.                  *)
Empty(k) == pipe[k].writeopen /\ (pipe[k].n = 0 \/ pipe[k].cut)
Full(k) == pipe[k].readopen /\ pipe[k].n = PIPESIZE

(* Who was woken, or has not slept yet, still has the pipe in front of it  *)
(* that it read or wrote.                                                  *)
Dozing(q) == proc[q].pc = "doze" =>
  LET f == proc[q].ofile[IF Next1(q).op = "read" THEN 0 ELSE 1]
  IN /\ file[f].type = "PIPE"
     /\ Next1(q).op = "read" => Empty(file[f].pipe)
     /\ Next1(q).op = "write" => Full(file[f].pipe)

(* Who sleeps in piperead(), pipewrite() or wait() has cause to.           *)
Reading(q) == \A k \in Pipes : proc[q].chan = nread(k) =>
  /\ file[proc[q].ofile[0]].type = "PIPE" /\ file[proc[q].ofile[0]].pipe = k
  /\ Empty(k)
Writing(q) == \A k \in Pipes : proc[q].chan = nwrite(k) =>
  /\ file[proc[q].ofile[1]].type = "PIPE" /\ file[proc[q].ofile[1]].pipe = k
  /\ Full(k)
Waiting(q) == proc[q].chan = child(q) => Zombies(q) = {} /\ Children(q) # {}
Standing(q) == Dozing(q) /\ Reading(q) /\ Writing(q) /\ Waiting(q)

(* The inductive invariant.                                                *)
Inv == ProcInv /\ FileInv /\ PipeInv /\ \A q \in Procs : Standing(q)
-----------------------------------------------------------------------------
(* The sizes, as far as the proofs use them.                               *)
LEMMA Constants ==
  /\ NPROC \in Nat /\ NPROC >= 1 /\ NFILE \in Nat /\ NFILE >= 1 /\ NOFILE \in Nat /\ NOFILE >= 5
  /\ NPIPE \in Nat /\ PIPESIZE \in Nat /\ PIPESIZE > 0 /\ BYTES \in Nat /\ BYTES > 0
  /\ \A c \in Cmds : Parsed(c)
  /\ Commands \subseteq Cmds /\ Killable \subseteq Procs
  /\ Std \subseteq Fds /\ Both \subseteq Fds /\ NoFd \notin Fds /\ P0 \notin Fds /\ P1 \notin Fds
  /\ shell \in Procs /\ console \in Files /\ init \notin Procs /\ NoFile \notin Files /\ NoPipe \notin Pipes
BY PipelineAssumption
   DEF PipelineAssumption, Procs, Files, Pipes, Fds, Std, Both, NoFd, P0, P1, shell, console, init, NoFile, NoPipe

(* fdalloc() and filealloc() take the first that is free: there is one.    *)
LEMMA MinOf ==
  ASSUME NEW S \in SUBSET Nat, S # {}
  PROVE  Min(S) \in S /\ \A y \in S : Min(S) <= y
<1> DEFINE R == {ss \in Nat \X Nat : ss[1] < ss[2]}
<1>1. IsWellFoundedOn(R, Nat)
  BY NatLessThanWellFounded DEF OpToRel
<1>2. PICK x \in S : \A y \in S : ~ (<<y, x>> \in R)
  <2> HIDE DEF R
  <2> QED BY <1>1, WFMin
<1>3. \A y \in S : y < x => <<y, x>> \in R
  OBVIOUS
<1>4. \A y \in S : x <= y
  <2>1. \A y \in S : ~ (y < x)
    BY <1>2, <1>3
  <2> QED BY <2>1
<1> QED BY <1>4 DEF Min

(* The first call of a short list of calls, and the ones after it.         *)
LEMMA Tuple1 == ASSUME NEW a PROVE Head(<<a>>) = a /\ Tail(<<a>>) = <<>> /\ <<a>> # <<>> OBVIOUS

(* The same for two calls.                                                 *)
LEMMA Tuple2 == ASSUME NEW a, NEW b
                PROVE  Head(<<a, b>>) = a /\ Tail(<<a, b>>) = <<b>> /\ <<a, b>> # <<>>
OBVIOUS

(* For three.                                                              *)
LEMMA Tuple3 == ASSUME NEW a, NEW b, NEW c
                PROVE  Head(<<a, b, c>>) = a /\ Tail(<<a, b, c>>) = <<b, c>> /\ <<a, b, c>> # <<>>
OBVIOUS

(* For four.                                                               *)
LEMMA Tuple4 == ASSUME NEW a, NEW b, NEW c, NEW d
                PROVE  /\ Head(<<a, b, c, d>>) = a /\ Tail(<<a, b, c, d>>) = <<b, c, d>>
                       /\ <<a, b, c, d>> # <<>>
OBVIOUS

(* For five.                                                               *)
LEMMA Tuple5 == ASSUME NEW a, NEW b, NEW c, NEW d, NEW e
                PROVE  /\ Head(<<a, b, c, d, e>>) = a /\ Tail(<<a, b, c, d, e>>) = <<b, c, d, e>>
                       /\ <<a, b, c, d, e>> # <<>>
OBVIOUS

(* For six.                                                                *)
LEMMA Tuple6 == ASSUME NEW a, NEW b, NEW c, NEW d, NEW e, NEW f
                PROVE  /\ Head(<<a, b, c, d, e, f>>) = a /\ Tail(<<a, b, c, d, e, f>>) = <<b, c, d, e, f>>
                       /\ <<a, b, c, d, e, f>> # <<>>
OBVIOUS

(* For seven.                                                              *)
LEMMA Tuple7 == ASSUME NEW a, NEW b, NEW c, NEW d, NEW e, NEW f, NEW g
                PROVE  /\ Head(<<a, b, c, d, e, f, g>>) = a
                       /\ Tail(<<a, b, c, d, e, f, g>>) = <<b, c, d, e, f, g>>
                       /\ <<a, b, c, d, e, f, g>> # <<>>
OBVIOUS

(* For eight, the longest list of runcmd().                                *)
LEMMA Tuple8 == ASSUME NEW a, NEW b, NEW c, NEW d, NEW e, NEW f, NEW g, NEW h
                PROVE  /\ Head(<<a, b, c, d, e, f, g, h>>) = a
                       /\ Tail(<<a, b, c, d, e, f, g, h>>) = <<b, c, d, e, f, g, h>>
                       /\ <<a, b, c, d, e, f, g, h>> # <<>>
OBVIOUS

(* runcmd() calls itself for the commands inside of a command.             *)
LEMMA Onwards ==
  /\ \A c : Onward(<<Run(c)>>) = runcmd(c)
  /\ \A t : t = <<>> \/ Head(t).op # "run" => Onward(t) = t
<1>1. \A c : Onward(<<Run(c)>>) = runcmd(c)
  <2> TAKE c
  <2>1. Head(<<Run(c)>>) = Run(c) /\ <<Run(c)>> # <<>>
    BY Tuple1
  <2> QED BY <2>1 DEF Onward, Run, Call
<1> QED BY <1>1 DEF Onward

(* What runcmd() does for any command fits descriptors 0, 1 and 2.         *)
LEMMA RunTask ==
  ASSUME NEW c \in Cmds, NEW e
  PROVE  Task(runcmd(c), Std, e)
<1>1. CASE \E prog \in {"writer", "reader", "fails"} : c = EXEC(prog)
  BY <1>1 DEF EXEC, runcmd, Program, Task, Plain
<1>2. CASE \E d \in Cmds : c = REDIR(0, d) \/ c = REDIR(1, d)
  <2>1. PICK d \in Cmds, f \in {0, 1} : c = REDIR(f, d)
    BY <1>2
  <2>2. runcmd(c) = <<Close(f), Call("open", f, NoCmd), Run(d)>>
    BY <2>1 DEF REDIR, runcmd
  <2>3. Plain(runcmd(c))
    BY <2>2 DEF Plain
  <2> QED BY <2>3 DEF Task
<1>3. CASE \E d \in Cmds : c = BACK(d)
  <2>1. PICK d \in Cmds : c = BACK(d)
    BY <1>3
  <2>2. runcmd(c) = <<Fork(NoFd, d), Do("exit")>>
    BY <2>1 DEF BACK, runcmd
  <2>3. Plain(runcmd(c))
    BY <2>2 DEF Plain
  <2> QED BY <2>3 DEF Task
<1>4. CASE \E d, x \in Cmds : c = LIST(d, x)
  <2>1. PICK d \in Cmds, x \in Cmds : c = LIST(d, x)
    BY <1>4
  <2>2. runcmd(c) = <<Fork(NoFd, d), Do("wait"), Run(x)>>
    BY <2>1 DEF LIST, runcmd
  <2>3. Plain(runcmd(c))
    BY <2>2 DEF Plain
  <2> QED BY <2>3 DEF Task
<1>5. CASE \E d, x \in Cmds : c = PIPE(d, x)
  <2>1. PICK d \in Cmds, x \in Cmds : c = PIPE(d, x)
    BY <1>5
  <2>2. runcmd(c) = <<Do("pipe"), Fork(1, d), Fork(0, x), Close(P0), Close(P1),
                      Do("wait"), Do("wait"), Do("exit")>>
    BY <2>1 DEF PIPE, runcmd
  <2>3. Plain(runcmd(c))
    BY <2>2 DEF Plain
  <2> QED BY <2>3 DEF Task
<1> QED BY <1>1, <1>2, <1>3, <1>4, <1>5, Constants DEF Parsed
-----------------------------------------------------------------------------
(* The descriptor that a call names, which may be p[0] or p[1].            *)
FdOf(f, e) == IF f = P0 THEN e[1] ELSE IF f = P1 THEN e[2] ELSE f

(* The first call of t can be made with S open, and leaves calls that fit  *)
(* what is open after it.                                                  *)
Leads(t, S, e) ==
  LET op == Head(t).op
      f == FdOf(Head(t).fd, e)
      then(T, x) == Task(Onward(Tail(t)), T, x)
  IN /\ op \in Ops \ {"run"}
     /\ op = "exit" => t = <<Do("exit")>>
     /\ op \in {"read", "write"} => S = Std
     /\ op \in {"read", "write", "wait"} => then(S, e)
     /\ op = "close" => f \in S /\ then(S \ {f}, e)
     /\ op = "open" => f = Head(t).fd /\ f \in {0, 1} /\ S = Std \ {f} /\ then(Std, e)
     /\ op = "dup" => f \in S /\ (S = Both \ {0} \/ S = Both \ {1}) /\ then(Both, e)
     /\ op = "fork" => then(S, e) /\ Task(Onward(ForkChild(Head(t).fd, Head(t).cmd)), S, e)
     /\ op = "pipe" => S = Std /\ then(Both, <<3, 4>>)

(* The fields of a call.                                                   *)
LEMMA Ends ==
  /\ \A op : Do(op).op = op
  /\ \A f : Close(f).op = "close" /\ Close(f).fd = f
  /\ \A f : Dup(f).op = "dup" /\ Dup(f).fd = f
  /\ \A f, c : Fork(f, c).op = "fork" /\ Fork(f, c).fd = f /\ Fork(f, c).cmd = c
  /\ \A f : Call("open", f, NoCmd).op = "open" /\ Call("open", f, NoCmd).fd = f
  /\ \A e : FdOf(0, e) = 0 /\ FdOf(1, e) = 1 /\ FdOf(P0, e) = e[1] /\ FdOf(P1, e) = e[2]
  /\ P0 # P1 /\ P0 # 0 /\ P1 # 0 /\ P0 # 1 /\ P1 # 1 /\ NoFd \notin {0, 1}
BY Constants DEF Do, Close, Dup, Fork, Call, FdOf, P0, P1, NoFd

(* The operation of a fork() and of a dup().                               *)
LEMMA ForkOp ==
  ASSUME NEW y, NEW f, NEW c
  PROVE  /\ y = Fork(f, c) => y.op = "fork" /\ y.fd = f /\ y.cmd = c
         /\ y = Dup(f) => y.op = "dup" /\ y.fd = f
BY DEF Fork, Dup, Call

(* What the child of a fork() has to do fits what it inherits.             *)
LEMMA ChildTask ==
  ASSUME NEW c \in Cmds, NEW S, NEW e
  PROVE  /\ S = Std => Task(Onward(ForkChild(NoFd, c)), S, e)
         /\ S = Both /\ e = <<3, 4>> => \A f \in {0, 1} : Task(Onward(ForkChild(f, c)), S, e)
<1>1. S = Std => Task(Onward(ForkChild(NoFd, c)), S, e)
  BY RunTask, Onwards DEF ForkChild
<1>2. ASSUME S = Both, e = <<3, 4>>, NEW f \in {0, 1} PROVE Task(Onward(ForkChild(f, c)), S, e)
  <2>1. ForkChild(f, c) = <<Close(f), Dup(IF f = 0 THEN P0 ELSE P1), Close(P0), Close(P1), Run(c)>>
    BY Ends DEF ForkChild
  <2>2. Onward(ForkChild(f, c)) = ForkChild(f, c)
    BY <2>1, Onwards, Ends, Tuple5
  <2> QED BY <1>2, <2>2 DEF Task, Piped
<1> QED BY <1>1, <1>2

(* Every call with 0, 1 and 2 open leads to a task.                        *)
LEMMA PlainLeads ==
  ASSUME NEW t, NEW e, Plain(t), t # <<>>
  PROVE  Leads(t, Std, e)
<1> USE DEF Ops
<1>1. ASSUME t = <<Do("write"), Do("exit")>> \/ t = <<Do("read"), Do("exit")>>
      PROVE  Leads(t, Std, e)
  <2>1. Onward(<<Do("exit")>>) = <<Do("exit")>>
    BY Onwards, Ends, Tuple1
  <2>2. Task(<<Do("exit")>>, Std, e)
    BY DEF Task
  <2>3. Tail(t) = <<Do("exit")>> /\ Head(t).op \in {"write", "read"}
    <3>1. PICK op \in {"write", "read"} : t = <<Do(op), Do("exit")>>
      BY <1>1
    <3>2. Head(t) = Do(op) /\ Tail(t) = <<Do("exit")>>
      BY <3>1, Tuple2
    <3> QED BY <3>2, Ends
  <2> QED BY <2>1, <2>2, <2>3 DEF Leads
<1>2. ASSUME t = <<Do("wait")>>
      PROVE  Leads(t, Std, e)
  <2>1. Onward(<<>>) = <<>>
    BY Onwards
  <2>2. Task(<<>>, Std, e)
    BY DEF Task, Plain
  <2> QED BY <1>2, <2>1, <2>2, Ends, Tuple1 DEF Leads
<1>3. ASSUME t = <<Do("wait"), Do("exit")>>
      PROVE  Leads(t, Std, e)
  <2>1. Onward(<<Do("exit")>>) = <<Do("exit")>>
    BY Onwards, Ends, Tuple1
  <2>2. Task(<<Do("exit")>>, Std, e)
    BY DEF Task
  <2> QED BY <1>3, <2>1, <2>2, Ends, Tuple2 DEF Leads
<1>4. ASSUME t = <<Do("wait"), Do("wait"), Do("exit")>>
      PROVE  Leads(t, Std, e)
  <2>1. Onward(<<Do("wait"), Do("exit")>>) = <<Do("wait"), Do("exit")>>
    BY Onwards, Ends, Tuple2
  <2>2. Task(<<Do("wait"), Do("exit")>>, Std, e)
    BY DEF Task, Plain
  <2> QED BY <1>4, <2>1, <2>2, Ends, Tuple3 DEF Leads
<1>5. ASSUME NEW c \in Cmds, NEW op \in {"wait", "exit"}, t = <<Fork(NoFd, c), Do(op)>>
      PROVE  Leads(t, Std, e)
  <2>1. Onward(<<Do(op)>>) = <<Do(op)>>
    BY Onwards, Ends, Tuple1
  <2>2. Task(<<Do(op)>>, Std, e)
    BY DEF Task, Plain
  <2>3. Task(Onward(ForkChild(NoFd, c)), Std, e)
    BY ChildTask
  <2>4. Head(t) = Fork(NoFd, c) /\ Tail(t) = <<Do(op)>>
    BY <1>5, Tuple2 DEF Fork
  <2>5. Head(t).op = "fork" /\ Head(t).fd = NoFd /\ Head(t).cmd = c
    BY <2>4, Ends
  <2> QED BY <2>1, <2>2, <2>3, <2>4, <2>5 DEF Leads
<1>6. ASSUME NEW c \in Cmds, t = <<Do("wait"), Run(c)>>
      PROVE  Leads(t, Std, e)
  <2>1. Task(Onward(<<Run(c)>>), Std, e)
    BY Onwards, RunTask
  <2> QED BY <1>6, <2>1, Ends, Tuple2 DEF Leads
<1>7. ASSUME NEW c \in Cmds, NEW f \in {0, 1}, t = <<Close(f), Call("open", f, NoCmd), Run(c)>>
      PROVE  Leads(t, Std, e)
  <2>1. Head(t) = Close(f) /\ Tail(t) = <<Call("open", f, NoCmd), Run(c)>>
    BY <1>7, Tuple3
  <2>2. Onward(Tail(t)) = Tail(t)
    <3>1. Head(Tail(t)) = Call("open", f, NoCmd)
      BY <2>1, Tuple2
    <3> QED BY <3>1, Ends, Onwards
  <2>3. Task(Tail(t), Std \ {f}, e)
    BY <2>1 DEF Task
  <2>4. FdOf(Head(t).fd, e) = f /\ f \in Std /\ Head(t).op = "close"
    BY <2>1, Ends DEF Std
  <2> QED BY <2>2, <2>3, <2>4 DEF Leads
<1>8. ASSUME NEW c \in Cmds, NEW d \in Cmds, t = <<Fork(NoFd, c), Do("wait"), Run(d)>>
      PROVE  Leads(t, Std, e)
  <2>1. Head(t) = Fork(NoFd, c) /\ Tail(t) = <<Do("wait"), Run(d)>>
    BY <1>8, Tuple3
  <2>2. Onward(Tail(t)) = Tail(t)
    <3>1. Head(Tail(t)) = Do("wait")
      BY <2>1, Tuple2
    <3>2. Head(Tail(t)).op = "wait"
      BY <3>1, Ends
    <3> QED BY <3>2, Onwards
  <2>3. Task(Tail(t), Std, e) /\ Task(Onward(ForkChild(NoFd, c)), Std, e)
    BY <2>1, ChildTask DEF Task, Plain
  <2>4. Head(t).op = "fork" /\ Head(t).fd = NoFd /\ Head(t).cmd = c
    BY <2>1, Ends
  <2> QED BY <2>2, <2>3, <2>4 DEF Leads
<1>9. ASSUME NEW c \in Cmds, NEW d \in Cmds,
             t = <<Do("pipe"), Fork(1, c), Fork(0, d), Close(P0), Close(P1),
                   Do("wait"), Do("wait"), Do("exit")>>
      PROVE  Leads(t, Std, e)
  <2>1. /\ Head(t) = Do("pipe")
        /\ Tail(t) = <<Fork(1, c), Fork(0, d), Close(P0), Close(P1), Do("wait"), Do("wait"), Do("exit")>>
    BY <1>9, Tuple8
  <2>2. Onward(Tail(t)) = Tail(t)
    <3>1. Head(<<Fork(1, c), Fork(0, d), Close(P0), Close(P1), Do("wait"), Do("wait"), Do("exit")>>)
          = Fork(1, c)
      BY Tuple7
    <3>2. Head(Tail(t)) = Fork(1, c)
      BY <2>1, <3>1, Zenon
    <3>3. Head(Tail(t)).op = "fork"
      BY <3>2, ForkOp
    <3> QED BY <3>3, Onwards
  <2>3. Task(Tail(t), Both, <<3, 4>>)
    BY <2>1 DEF Task, Piped
  <2>4. Head(t).op = "pipe"
    BY <2>1, Ends
  <2> QED BY <2>2, <2>3, <2>4 DEF Leads
<1> QED BY <1>1, <1>2, <1>3, <1>4, <1>5, <1>6, <1>7, <1>8, <1>9 DEF Plain
-----------------------------------------------------------------------------
(* The same for the calls while the ends of a pipe are open. *)
LEMMA BothLeads ==
  ASSUME NEW t, NEW S, NEW x, x = <<3, 4>>, S = Both, Piped(t)
  PROVE  Leads(t, S, x)
<1> USE DEF Ops
<1>0. FdOf(P0, x) = 3 /\ 3 \in S /\ x[1] = 3 /\ x[2] = 4
  BY Ends DEF Both
<1>1. ASSUME t = PipeTail PROVE Leads(t, S, x)
  <2>1. Head(t) = Close(P0) /\ Tail(t) = <<Close(P1), Do("wait"), Do("wait"), Do("exit")>>
    BY <1>1, Tuple5 DEF PipeTail
  <2>2. Head(<<Close(P1), Do("wait"), Do("wait"), Do("exit")>>) = Close(P1)
    BY Tuple4
  <2>3. Head(Tail(t)) = Close(P1)
    BY <2>1, <2>2, Zenon
  <2>4. Head(Tail(t)).op = "close"
    BY <2>3, Ends
  <2>5. Onward(Tail(t)) = Tail(t)
    BY <2>4, Onwards
  <2>6. Task(Tail(t), S \ {3}, x)
    BY <2>1 DEF Task, Piped
  <2>7. Head(t).op = "close" /\ Head(t).fd = P0
    BY <2>1, Ends
  <2> QED BY <1>0, <2>5, <2>6, <2>7 DEF Leads
<1>2. ASSUME NEW c \in Cmds, NEW d \in Cmds,
             t = <<Fork(1, c), Fork(0, d), Close(P0), Close(P1), Do("wait"), Do("wait"), Do("exit")>>
      PROVE  Leads(t, S, x)
  <2>1. /\ Head(t) = Fork(1, c)
        /\ Tail(t) = <<Fork(0, d), Close(P0), Close(P1), Do("wait"), Do("wait"), Do("exit")>>
    BY <1>2, Tuple7
  <2>2. Head(<<Fork(0, d), Close(P0), Close(P1), Do("wait"), Do("wait"), Do("exit")>>) = Fork(0, d)
    BY Tuple6
  <2>3. Head(Tail(t)) = Fork(0, d)
    BY <2>1, <2>2, Zenon
  <2>4. Head(Tail(t)).op = "fork"
    BY <2>3, ForkOp
  <2>5. Onward(Tail(t)) = Tail(t)
    BY <2>4, Onwards
  <2>6. Task(Tail(t), S, x)
    BY <2>1 DEF Task, Piped
  <2>7. Head(t).op = "fork" /\ Head(t).fd = 1 /\ Head(t).cmd = c
    BY <2>1, Ends
  <2>8. Task(Onward(ForkChild(1, c)), S, x)
    BY ChildTask
  <2> QED BY <2>5, <2>6, <2>7, <2>8 DEF Leads
<1>3. ASSUME NEW d \in Cmds,
             t = <<Fork(0, d), Close(P0), Close(P1), Do("wait"), Do("wait"), Do("exit")>>
      PROVE  Leads(t, S, x)
  <2>1. Head(t) = Fork(0, d) /\ Tail(t) = PipeTail
    BY <1>3, Tuple6 DEF PipeTail
  <2>2. Head(PipeTail) = Close(P0)
    BY Tuple5 DEF PipeTail
  <2>3. Head(Tail(t)) = Close(P0)
    BY <2>1, <2>2, Zenon
  <2>4. Head(Tail(t)).op = "close"
    BY <2>3, Ends
  <2>5. Onward(Tail(t)) = Tail(t)
    BY <2>4, Onwards
  <2>6. Task(Tail(t), S, x)
    BY <2>1 DEF Task, Piped
  <2>7. Head(t).op = "fork" /\ Head(t).fd = 0 /\ Head(t).cmd = d
    BY <2>1, Ends
  <2>8. Task(Onward(ForkChild(0, d)), S, x)
    BY ChildTask
  <2> QED BY <2>5, <2>6, <2>7, <2>8 DEF Leads
<1>4. ASSUME NEW f \in {0, 1}, NEW c \in Cmds, t = ForkChild(f, c) PROVE Leads(t, S, x)
  <2> DEFINE e == IF f = 0 THEN P0 ELSE P1
  <2>0. t = <<Close(f), Dup(e), Close(P0), Close(P1), Run(c)>>
    BY <1>4, Ends DEF ForkChild
  <2>1. Head(t) = Close(f) /\ Tail(t) = <<Dup(e), Close(P0), Close(P1), Run(c)>>
    BY <2>0, Tuple5
  <2>2. Head(<<Dup(e), Close(P0), Close(P1), Run(c)>>) = Dup(e)
    BY Tuple4
  <2>3. Head(Tail(t)) = Dup(e)
    BY <2>1, <2>2, Zenon
  <2>4. Head(Tail(t)).op = "dup"
    BY <2>3, ForkOp
  <2>5. Onward(Tail(t)) = Tail(t)
    BY <2>4, Onwards
  <2>6. Task(Tail(t), S \ {f}, x)
    BY <2>1 DEF Task, Piped
  <2>7. Head(t).op = "close" /\ FdOf(Head(t).fd, x) = f /\ f \in S
    BY <2>1, Ends DEF Both
  <2> QED BY <2>5, <2>6, <2>7 DEF Leads
<1>5. ASSUME NEW c \in Cmds, t = <<Close(P0), Close(P1), Run(c)>> PROVE Leads(t, S, x)
  <2>1. Head(t) = Close(P0) /\ Tail(t) = <<Close(P1), Run(c)>>
    BY <1>5, Tuple3
  <2>2. Head(<<Close(P1), Run(c)>>) = Close(P1)
    BY Tuple2
  <2>3. Head(Tail(t)) = Close(P1)
    BY <2>1, <2>2, Zenon
  <2>4. Head(Tail(t)).op = "close"
    BY <2>3, Ends
  <2>5. Onward(Tail(t)) = Tail(t)
    BY <2>4, Onwards
  <2>6. Task(Tail(t), S \ {3}, x)
    BY <2>1 DEF Task, Piped
  <2>7. Head(t).op = "close" /\ Head(t).fd = P0
    BY <2>1, Ends
  <2> QED BY <1>0, <2>5, <2>6, <2>7 DEF Leads
<1> QED BY <1>1, <1>2, <1>3, <1>4, <1>5 DEF Piped

(* And so every call of a task: sh.c closes, dups and reads only what is   *)
(* open.                                                                   *)
LEMMA TaskLeads ==
  ASSUME NEW t, NEW S, NEW x, Task(t, S, x), t # <<>>
  PROVE  Leads(t, S, x)
<1> USE DEF Ops
<1>1. ASSUME t = <<Do("exit")>> PROVE Leads(t, S, x)
  <2>1. Head(t) = Do("exit")
    BY <1>1, Tuple1
  <2>2. Head(t).op = "exit"
    BY <2>1, Ends
  <2> QED BY <1>1, <2>2 DEF Leads
<1>2. ASSUME S = Std, Plain(t) PROVE Leads(t, S, x)
  BY <1>2, PlainLeads
<1>3. ASSUME NEW f \in {0, 1}, NEW c \in Cmds, S = Std \ {f}, t = <<Call("open", f, NoCmd), Run(c)>>
      PROVE  Leads(t, S, x)
  <2>1. Head(t) = Call("open", f, NoCmd) /\ Tail(t) = <<Run(c)>>
    BY <1>3, Tuple2
  <2>2. Head(t).op = "open" /\ Head(t).fd = f /\ FdOf(Head(t).fd, x) = f
    BY <2>1, Ends
  <2>3. Task(Onward(Tail(t)), Std, x)
    BY <2>1, RunTask, Onwards
  <2> QED BY <1>3, <2>2, <2>3 DEF Leads
<1>4. ASSUME x = <<3, 4>>, NEW f \in {0, 1}, NEW c \in Cmds, S = Both \ {f},
             t = <<Dup(IF f = 0 THEN P0 ELSE P1), Close(P0), Close(P1), Run(c)>>
      PROVE  Leads(t, S, x)
  <2> DEFINE e == IF f = 0 THEN P0 ELSE P1
  <2>1. Head(t) = Dup(e) /\ Tail(t) = <<Close(P0), Close(P1), Run(c)>>
    BY <1>4, Tuple4
  <2>2. Head(<<Close(P0), Close(P1), Run(c)>>) = Close(P0)
    BY Tuple3
  <2>3. Head(Tail(t)) = Close(P0)
    BY <2>1, <2>2, Zenon
  <2>4. Head(Tail(t)).op = "close"
    BY <2>3, Ends
  <2>5. Onward(Tail(t)) = Tail(t)
    BY <2>4, Onwards
  <2>6. Task(Tail(t), Both, x)
    BY <1>4, <2>1 DEF Task, Piped
  <2>7. Head(t).op = "dup" /\ Head(t).fd = e
    BY <2>1, Ends
  <2>8. FdOf(e, x) \in {3, 4}
    BY <1>4, Ends
  <2>9. FdOf(e, x) \in S /\ (S = Both \ {0} \/ S = Both \ {1})
    BY <1>4, <2>8 DEF Both
  <2> QED BY <2>5, <2>6, <2>7, <2>9 DEF Leads
<1>5. ASSUME x = <<3, 4>>, S = Both \ {3},
             \/ t = <<Close(P1), Do("wait"), Do("wait"), Do("exit")>>
             \/ \E c \in Cmds : t = <<Close(P1), Run(c)>>
      PROVE  Leads(t, S, x)
  <2>1. FdOf(P1, x) = 4 /\ 4 \in S /\ S \ {4} = Std
    BY <1>5, Ends DEF Both, Std
  <2>2. ASSUME t = <<Close(P1), Do("wait"), Do("wait"), Do("exit")>>
        PROVE  Head(t) = Close(P1) /\ Task(Onward(Tail(t)), Std, x)
    <3>1. Head(t) = Close(P1) /\ Tail(t) = <<Do("wait"), Do("wait"), Do("exit")>>
      BY <2>2, Tuple4
    <3>2. Head(<<Do("wait"), Do("wait"), Do("exit")>>) = Do("wait")
      BY Tuple3
    <3>3. Head(Tail(t)) = Do("wait")
      BY <3>1, <3>2, Zenon
    <3>4. Head(Tail(t)).op = "wait"
      BY <3>3, Ends
    <3>5. Onward(Tail(t)) = Tail(t)
      BY <3>4, Onwards
    <3> QED BY <3>1, <3>5 DEF Task, Plain
  <2>3. ASSUME NEW c \in Cmds, t = <<Close(P1), Run(c)>>
        PROVE  Head(t) = Close(P1) /\ Task(Onward(Tail(t)), Std, x)
    <3>1. Head(t) = Close(P1) /\ Tail(t) = <<Run(c)>>
      BY <2>3, Tuple2
    <3> QED BY <3>1, RunTask, Onwards
  <2>4. Head(t) = Close(P1) /\ Task(Onward(Tail(t)), Std, x)
    BY <1>5, <2>2, <2>3
  <2>5. Head(t).op = "close" /\ Head(t).fd = P1
    BY <2>4, Ends
  <2> QED BY <2>1, <2>4, <2>5 DEF Leads
<1> QED BY <1>1, <1>2, <1>3, <1>4, <1>5, BothLeads DEF Task
-----------------------------------------------------------------------------
(* The calls of sh.c are calls.                                            *)
LEMMA CallTypes ==
  /\ \A op \in {"exit", "write", "read", "wait", "pipe"} : Do(op) \in Calls
  /\ \A f \in {0, 1, P0, P1} : Close(f) \in Calls
  /\ Dup(P0) \in Calls /\ Dup(P1) \in Calls
  /\ \A f \in {0, 1} : Call("open", f, NoCmd) \in Calls
  /\ \A c \in Cmds : Run(c) \in Calls /\ \A f \in {NoFd, 0, 1} : Fork(f, c) \in Calls
<1>1. 0 \in Fds /\ 1 \in Fds
  BY Constants DEF Std
<1> QED BY <1>1 DEF Do, Close, Dup, Call, Run, Fork, Calls, Ops

(* A task is a list of calls.                                              *)
LEMMA TaskType ==
  ASSUME NEW t, NEW S, NEW x, Task(t, S, x)
  PROVE  t \in Seq(Calls)
<1>1. ASSUME Plain(t) PROVE t \in Seq(Calls)
  <2>1. CASE t = <<>> \/ t = <<Do("wait")>>
    <3>1. <<>> \in Seq(Calls) /\ <<Do("wait")>> \in Seq(Calls)
      BY CallTypes
    <3> QED BY <2>1, <3>1
  <2>2. CASE \/ t = <<Do("write"), Do("exit")>> \/ t = <<Do("read"), Do("exit")>>
             \/ t = <<Do("wait"), Do("exit")>>
    <3>1. PICK op \in {"write", "read", "wait"} : t = <<Do(op), Do("exit")>>
      BY <2>2
    <3> QED BY <3>1, CallTypes
  <2>3. CASE t = <<Do("wait"), Do("wait"), Do("exit")>>
    BY <2>3, CallTypes
  <2>4. ASSUME NEW c \in Cmds, \/ t = <<Fork(NoFd, c), Do("wait")>> \/ t = <<Fork(NoFd, c), Do("exit")>>
                               \/ t = <<Do("wait"), Run(c)>>
        PROVE  t \in Seq(Calls)
    <3>1. PICK x1 \in Calls, x2 \in Calls : t = <<x1, x2>>
      BY <2>4, CallTypes
    <3> QED BY <3>1
  <2>5. ASSUME NEW c \in Cmds, NEW f \in {0, 1}, t = <<Close(f), Call("open", f, NoCmd), Run(c)>>
        PROVE  t \in Seq(Calls)
    BY <2>5, CallTypes
  <2>6. ASSUME NEW c \in Cmds, NEW d \in Cmds, t = <<Fork(NoFd, c), Do("wait"), Run(d)>>
        PROVE  t \in Seq(Calls)
    BY <2>6, CallTypes
  <2>7. ASSUME NEW c \in Cmds, NEW d \in Cmds,
               t = <<Do("pipe"), Fork(1, c), Fork(0, d), Close(P0), Close(P1),
                     Do("wait"), Do("wait"), Do("exit")>>
        PROVE  t \in Seq(Calls)
    BY <2>7, CallTypes
  <2> QED BY <1>1, <2>1, <2>2, <2>3, <2>4, <2>5, <2>6, <2>7 DEF Plain
<1>2. ASSUME Piped(t) PROVE t \in Seq(Calls)
  <2>1. CASE t = PipeTail
    BY <2>1, CallTypes DEF PipeTail
  <2>2. ASSUME NEW c \in Cmds, NEW d \in Cmds,
               t = <<Fork(1, c), Fork(0, d), Close(P0), Close(P1), Do("wait"), Do("wait"), Do("exit")>>
        PROVE  t \in Seq(Calls)
    BY <2>2, CallTypes
  <2>3. ASSUME NEW d \in Cmds,
               t = <<Fork(0, d), Close(P0), Close(P1), Do("wait"), Do("wait"), Do("exit")>>
        PROVE  t \in Seq(Calls)
    BY <2>3, CallTypes
  <2>4. ASSUME NEW f \in {0, 1}, NEW c \in Cmds, t = ForkChild(f, c)
        PROVE  t \in Seq(Calls)
    <3>1. t = <<Close(f), Dup(IF f = 0 THEN P0 ELSE P1), Close(P0), Close(P1), Run(c)>>
      BY <2>4, Ends DEF ForkChild
    <3> QED BY <3>1, CallTypes
  <2>5. ASSUME NEW c \in Cmds, t = <<Close(P0), Close(P1), Run(c)>>
        PROVE  t \in Seq(Calls)
    BY <2>5, CallTypes
  <2> QED BY <1>2, <2>1, <2>2, <2>3, <2>4, <2>5 DEF Piped
<1>3. ASSUME t = <<Do("exit")>> PROVE t \in Seq(Calls)
  BY <1>3, CallTypes
<1>4. ASSUME NEW f \in {0, 1}, NEW c \in Cmds, t = <<Call("open", f, NoCmd), Run(c)>>
      PROVE  t \in Seq(Calls)
  BY <1>4, CallTypes
<1>5. ASSUME NEW f \in {0, 1}, NEW c \in Cmds,
             t = <<Dup(IF f = 0 THEN P0 ELSE P1), Close(P0), Close(P1), Run(c)>>
      PROVE  t \in Seq(Calls)
  BY <1>5, CallTypes
<1>6. ASSUME \/ t = <<Close(P1), Do("wait"), Do("wait"), Do("exit")>>
             \/ \E c \in Cmds : t = <<Close(P1), Run(c)>>
      PROVE  t \in Seq(Calls)
  <2>1. CASE t = <<Close(P1), Do("wait"), Do("wait"), Do("exit")>>
    BY <2>1, CallTypes
  <2>2. CASE \E c \in Cmds : t = <<Close(P1), Run(c)>>
    BY <2>2, CallTypes
  <2> QED BY <1>6, <2>1, <2>2
<1> QED BY <1>1, <1>2, <1>3, <1>4, <1>5, <1>6 DEF Task
-----------------------------------------------------------------------------
(* A step of p leaves q as it is, but may wake it.                         *)
SameBut(q) ==
  /\ proc'[q].state = proc[q].state /\ proc'[q].killed = proc[q].killed
  /\ proc'[q].ofile = proc[q].ofile /\ proc'[q].p = proc[q].p
  /\ proc'[q].todo = proc[q].todo /\ proc'[q].pc = proc[q].pc /\ proc'[q].pend = proc[q].pend
  /\ proc'[q].chan \in {proc[q].chan, NoChan}

(* A step of p leaves all the others so.                                   *)
Frame(p) == proc' \in [Procs -> Records] /\ \A q \in Procs \ {p} : SameBut(q)
(* A slot that was not in use, and may now be. *)
Fresh(q) == /\ proc[q].state # "LIVE" /\ Sane(proc'[q], q)
            /\ proc'[q].chan = NoChan /\ proc'[q].pc = "user"

(* A step of p leaves the others so, but for slots that it takes.          *)
Framed(p) == proc' \in [Procs -> Records] /\ \A q \in Procs \ {p} : SameBut(q) \/ Fresh(q)

(* The files that others have open stay of their kind.                     *)
HeldKept(p) == \A q \in Procs \ {p}, d \in Fds : proc[q].ofile[d] # NoFile =>
  LET f == proc[q].ofile[d] IN file'[f].type = file[f].type /\ file'[f].pipe = file[f].pipe

(* A page changes only where nobody has its lock.                          *)
LocksKept == \A k \in Pipes : pipe'[k] = pipe[k] \/ Unlocked(k)

(* Who still sleeps at a pipe still has cause to: the wakeup was sent.     *)
Rouses(p) == \A k \in Pipes, q \in Procs \ {p} :
  /\ proc'[q].chan = nread(k) /\ Empty(k) => Empty(k)'
  /\ proc'[q].chan = nwrite(k) /\ Full(k) => Full(k)'

(* Who still sleeps in wait() has a child that lives, and none that is     *)
(* dead.                                                                   *)
KidsKept(p) == \A q \in Procs \ {p} :
  proc'[q].chan = child(q) => Zombies(q)' = {} /\ Children(q)' # {}

(* What the invariant says of one process.                                 *)
LEMMA Record ==
  ASSUME ProcInv, NEW p \in Procs
  PROVE  proc[p] \in Records /\ Sane(proc[p], p)
BY DEF ProcInv

(* No channel is two things.                                               *)
LEMMA Channels ==
  /\ \A k \in Pipes : nread(k) # NoChan /\ nwrite(k) # NoChan
  /\ \A k \in Pipes, l \in Pipes : nread(k) # nwrite(l) /\ (nread(k) = nread(l) => k = l)
                                   /\ (nwrite(k) = nwrite(l) => k = l)
  /\ \A p \in Procs : child(p) # NoChan
  /\ \A p \in Procs, q \in Procs \cup {init} : child(p) = child(q) => p = q
  /\ \A p \in Procs \cup {init}, k \in Pipes : child(p) # nread(k) /\ child(p) # nwrite(k)
<1>1. "none" # "nread" /\ "none" # "nwrite" /\ "nread" # "nwrite" /\ "proc" # "none" /\ "proc" # "nread" /\ "proc" # "nwrite"
  OBVIOUS
<1> QED BY <1>1 DEF nread, nwrite, child, NoChan

(* Who is inside of a call that reads or writes has descriptors 0 and 1 open. *)
LEMMA InsideOpen ==
  ASSUME NEW r \in Records, NEW q, Sane(r, q), r.pc # "user"
  PROVE  /\ r.state = "LIVE" /\ r.todo # <<>> /\ r.pend = NoPend
         /\ Task(r.todo, Open(r.ofile), r.p)
         /\ Head(r.todo).op \in {"read", "write"} => r.ofile[0] \in Files /\ r.ofile[1] \in Files
<1>1. r.state = "LIVE" /\ r.todo # <<>> /\ r.pend = NoPend
  BY DEF Sane, Idle
<1>2. Task(r.todo, Open(r.ofile), r.p)
  BY <1>1 DEF Sane
<1>3. Leads(r.todo, Open(r.ofile), r.p)
  BY <1>1, <1>2, TaskLeads
<1>4. ASSUME Head(r.todo).op \in {"read", "write"} PROVE r.ofile[0] \in Files /\ r.ofile[1] \in Files
  <2>1. Open(r.ofile) = Std
    BY <1>3, <1>4 DEF Leads
  <2>2. 0 \in Open(r.ofile) /\ 1 \in Open(r.ofile)
    BY <2>1 DEF Std
  <2>3. r.ofile \in [Fds -> Files \cup {NoFile}]
    BY DEF Records
  <2> QED BY <2>2, <2>3 DEF Open
<1> QED BY <1>1, <1>2, <1>4

(* Who is left as it is, or woken, is as sane as before.                   *)
LEMMA SaneSame ==
  ASSUME NEW q, Sane(proc[q], q), SameBut(q)
  PROVE  Sane(proc'[q], q)
BY DEF Sane, SameBut, Idle, Sleeps

(* The others still have cause to sleep after a step that keeps their      *)
(* files, pages and children, or wakes them.                               *)
LEMMA OthersStand ==
  ASSUME Inv, NEW p \in Procs, NEW q \in Procs \ {p}, SameBut(q), HeldKept(p), LocksKept, Rouses(p), KidsKept(p)
  PROVE  Standing(q)'
<1>1. SameBut(q) /\ proc[q] \in Records /\ Sane(proc[q], q) /\ Standing(q)
  BY DEF Inv, ProcInv
<1>2. ASSUME proc[q].pc # "user", Next1(q).op \in {"read", "write"}
      PROVE  /\ proc[q].ofile[0] \in Files /\ proc[q].ofile[1] \in Files
             /\ file'[proc[q].ofile[0]].type = file[proc[q].ofile[0]].type
             /\ file'[proc[q].ofile[0]].pipe = file[proc[q].ofile[0]].pipe
             /\ file'[proc[q].ofile[1]].type = file[proc[q].ofile[1]].type
             /\ file'[proc[q].ofile[1]].pipe = file[proc[q].ofile[1]].pipe
  <2>1. proc[q].ofile[0] \in Files /\ proc[q].ofile[1] \in Files
    BY <1>1, <1>2, InsideOpen DEF Next1
  <2>2. 0 \in Fds /\ 1 \in Fds /\ NoFile \notin Files
    BY Constants DEF Std
  <2> QED BY <2>1, <2>2 DEF HeldKept
<1>3. Next1(q)' = Next1(q)
  BY <1>1 DEF Next1, SameBut
<1>4. ASSUME proc'[q].pc = "doze" PROVE Dozing(q)'
  <2>1. proc[q].pc = "doze" /\ proc'[q].ofile = proc[q].ofile
    BY <1>1, <1>4 DEF SameBut
  <2>2. Next1(q).op \in {"read", "write"}
    BY <1>1, <2>1 DEF Sane, Next1
  <2> DEFINE f == proc[q].ofile[IF Next1(q).op = "read" THEN 0 ELSE 1]
  <2>3. f \in Files /\ file'[f].type = file[f].type /\ file'[f].pipe = file[f].pipe
    BY <1>2, <2>1, <2>2
  <2>4. file[f].type = "PIPE" /\ file[f].pipe \in Pipes
    BY <1>1, <2>1, <2>3 DEF Standing, Dozing, Inv, FileInv
  <2>5. pipe'[file[f].pipe] = pipe[file[f].pipe]
    BY <2>1, <2>4 DEF LocksKept, Unlocked
  <2> QED BY <1>1, <1>3, <2>1, <2>3, <2>4, <2>5 DEF Standing, Dozing, Empty, Full
<1>5. ASSUME NEW k \in Pipes, proc'[q].chan = nread(k)
      PROVE  /\ file'[proc'[q].ofile[0]].type = "PIPE" /\ file'[proc'[q].ofile[0]].pipe = k
             /\ Empty(k)'
  <2>1. proc[q].chan = nread(k) /\ proc'[q].ofile = proc[q].ofile
    BY <1>1, <1>5, Channels DEF SameBut
  <2>2. proc[q].pc = "in" /\ Next1(q).op = "read"
    BY <1>1, <2>1, Channels DEF Sane, Sleeps, Next1
  <2> QED BY <1>1, <1>2, <1>5, <2>1, <2>2 DEF Standing, Reading, Writing, Rouses
<1>6. ASSUME NEW k \in Pipes, proc'[q].chan = nwrite(k)
      PROVE  /\ file'[proc'[q].ofile[1]].type = "PIPE" /\ file'[proc'[q].ofile[1]].pipe = k
             /\ Full(k)'
  <2>1. proc[q].chan = nwrite(k) /\ proc'[q].ofile = proc[q].ofile
    BY <1>1, <1>6, Channels DEF SameBut
  <2>2. proc[q].pc = "in" /\ Next1(q).op = "write"
    BY <1>1, <2>1, Channels DEF Sane, Sleeps, Next1
  <2> QED BY <1>1, <1>2, <1>6, <2>1, <2>2 DEF Standing, Reading, Writing, Rouses
<1> QED BY <1>4, <1>5, <1>6 DEF Standing, Dozing, Reading, Writing, Waiting, KidsKept

(* Who is not in a call needs no cause.                                    *)
LEMMA UserStands ==
  ASSUME NEW p \in Procs, proc'[p].pc = "user", proc'[p].chan = NoChan
  PROVE  Standing(p)'
BY Channels DEF Standing, Dozing, Reading, Writing, Waiting

(* The invariant after a step, from what it keeps and what it does.        *)
LEMMA StepInv ==
  ASSUME Inv, NEW p \in Procs, Framed(p), HeldKept(p), LocksKept, Rouses(p), KidsKept(p),
         Sane(proc'[p], p), Standing(p)', FileInv', PipeInv'
  PROVE  Inv'
<1>1. ASSUME NEW q \in Procs \ {p} PROVE Standing(q)'
  <2>1. CASE SameBut(q)
    BY <2>1, OthersStand
  <2>2. CASE Fresh(q)
    BY <2>2, UserStands DEF Fresh
  <2> QED BY <2>1, <2>2 DEF Framed
<1>2. ASSUME NEW q \in Procs PROVE Sane(proc'[q], q)
  BY SaneSame DEF Inv, ProcInv, Framed, Fresh
<1> QED BY <1>1, <1>2 DEF Inv, ProcInv, Framed
-----------------------------------------------------------------------------
(* Finitely many descriptors name a file.                                  *)
LEMMA HoldersFinite ==
  ASSUME NEW f
  PROVE  IsFiniteSet(Holders(f)) /\ Cardinality(Holders(f)) \in Nat
         /\ (Cardinality(Holders(f)) = 0 <=> Holders(f) = {})
<1>1. IsFiniteSet(Procs) /\ IsFiniteSet(Fds)
  BY FS_Interval, Constants DEF Procs, Fds
<1>2. IsFiniteSet(Procs \X Fds)
  BY <1>1, FS_Product
<1>3. IsFiniteSet(Holders(f))
  BY <1>2, FS_Subset DEF Holders
<1> QED BY <1>3, FS_CardinalityType, FS_EmptySet

(* A step that changes no descriptor changes no holder.                    *)
LEMMA HoldersSame ==
  ASSUME \A q \in Procs : proc'[q].ofile = proc[q].ofile, NEW f
  PROVE  Holders(f)' = Holders(f)
BY DEF Holders

(* Such a step keeps the count of references.                              *)
LEMMA FilesSame ==
  ASSUME FileInv, file' = file, \A q \in Procs : proc'[q].ofile = proc[q].ofile
  PROVE  FileInv'
<1>1. \A f \in Files : Holders(f)' = Holders(f)
  BY HoldersSame
<1> QED BY <1>1 DEF FileInv

(* The pages stay as they are, but for the bytes in them. *)
OpenSame == pipe' \in [Pipes -> PageRecs] /\ \A k \in Pipes :
  /\ pipe'[k].used = pipe[k].used
  /\ pipe'[k].readopen = pipe[k].readopen /\ pipe'[k].writeopen = pipe[k].writeopen
  /\ ~pipe[k].used => pipe'[k] = pipe[k]

(* The files keep their ends.                                              *)
EndsSame == \A f \in Files :
  /\ file'[f].type = "PIPE" <=> file[f].type = "PIPE"
  /\ file[f].type = "PIPE" => file'[f].pipe = file[f].pipe /\ file'[f].writable = file[f].writable

(* The ends of pipes are as before if files, pages and processes are.      *)
LEMMA PipesSame ==
  ASSUME PipeInv, OpenSame, EndsSame, \A q \in Procs : proc'[q].pend = proc[q].pend
  PROVE  PipeInv'
<1>1. \A k \in Pipes, w \in BOOLEAN :
        /\ IsOpen(k, w)' = IsOpen(k, w)
        /\ \A f \in Files : IsEnd(f, k, w)' <=> IsEnd(f, k, w)
        /\ \A p \in Procs : Closes(p, k, w)' <=> Closes(p, k, w)
  BY DEF IsOpen, IsEnd, Closes, OpenSame, EndsSame
<1>2. \A k \in Pipes, p \in Procs : Frees(p, k)' <=> Frees(p, k)
  BY DEF Frees
<1>3. \A k \in Pipes, w \in BOOLEAN : EndOpen(k, w)' <=> EndOpen(k, w)
  BY DEF EndOpen, EndsSame
<1>4. \A k \in Pipes : /\ pipe'[k].used = pipe[k].used
                       /\ pipe'[k].readopen = pipe[k].readopen /\ pipe'[k].writeopen = pipe[k].writeopen
                       /\ ~pipe'[k].used => pipe'[k] = NoPage
  BY DEF OpenSame, PipeInv
<1>5. pipe' \in [Pipes -> PageRecs]
  BY DEF OpenSame
<1> QED BY <1>1, <1>2, <1>3, <1>4, <1>5 DEF PipeInv

(* A step that leaves the pages alone.                                     *)
LEMMA PageSame == PipeInv /\ UNCHANGED pipe => OpenSame /\ LocksKept
BY DEF PipeInv, OpenSame, LocksKept

(* A step that leaves the files alone.                                     *)
LEMMA FileSame == UNCHANGED file => EndsSame /\ \A p : HeldKept(p)
BY DEF EndsSame, HeldKept

(* A step that leaves the descriptors alone.                               *)
LEMMA ProcSame == ASSUME NEW p, Frame(p), proc'[p].ofile = proc[p].ofile, proc'[p].pend = proc[p].pend
                  PROVE  \A q \in Procs : proc'[q].ofile = proc[q].ofile /\ proc'[q].pend = proc[q].pend
BY DEF Frame, SameBut

(* A step that opens and closes nothing. *)
LEMMA QuietStep ==
  ASSUME Inv, NEW p \in Procs, Frame(p), file' = file, OpenSame, LocksKept, Rouses(p), KidsKept(p),
         proc'[p].ofile = proc[p].ofile, proc'[p].pend = proc[p].pend,
         Sane(proc'[p], p), Standing(p)'
  PROVE  Inv'
<1>1. FileInv'
  BY FilesSame, ProcSame DEF Inv
<1>2. PipeInv'
  BY PipesSame, ProcSame, FileSame DEF Inv
<1>3. HeldKept(p)
  BY FileSame
<1>4. Framed(p)
  BY DEF Frame, Framed
<1> QED BY <1>1, <1>2, <1>3, <1>4, StepInv

(* wakeup() *)
Woken(W, P, c) ==
  /\ W \in [Procs -> Records]
  /\ \A q \in Procs :
       /\ W[q].state = P[q].state /\ W[q].killed = P[q].killed
       /\ W[q].ofile = P[q].ofile /\ W[q].p = P[q].p
       /\ W[q].todo = P[q].todo /\ W[q].pc = P[q].pc
       /\ W[q].pend = P[q].pend /\ W[q].parent = P[q].parent
       /\ W[q].chan = IF P[q].chan = c THEN NoChan ELSE P[q].chan

(* wakeup(c) takes everybody off the channel c and does nothing else.      *)
LEMMA Wakes ==
  ASSUME NEW P \in [Procs -> Records], NEW c
  PROVE  Woken(wakeup(P, c), P, c)
<1>1. DOMAIN P = Procs
  OBVIOUS
<1>2. ASSUME NEW q \in Procs
      PROVE  /\ wakeup(P, c)[q] = IF P[q].chan = c THEN [P[q] EXCEPT !.chan = NoChan] ELSE P[q]
             /\ P[q] \in Records
  BY <1>1 DEF wakeup
<1>3. NoChan \in Chans
  BY DEF Chans
<1>4. ASSUME NEW q \in Procs
      PROVE  /\ wakeup(P, c)[q] \in Records
             /\ wakeup(P, c)[q].state = P[q].state /\ wakeup(P, c)[q].killed = P[q].killed
             /\ wakeup(P, c)[q].ofile = P[q].ofile /\ wakeup(P, c)[q].p = P[q].p
             /\ wakeup(P, c)[q].todo = P[q].todo /\ wakeup(P, c)[q].pc = P[q].pc
             /\ wakeup(P, c)[q].pend = P[q].pend /\ wakeup(P, c)[q].parent = P[q].parent
             /\ wakeup(P, c)[q].chan = IF P[q].chan = c THEN NoChan ELSE P[q].chan
  <2> DEFINE r == P[q]
  <2>1. r \in Records /\ wakeup(P, c)[q] = IF r.chan = c THEN [r EXCEPT !.chan = NoChan] ELSE r
    BY <1>2
  <2> HIDE DEF r
  <2>2. ASSUME r.chan = c PROVE wakeup(P, c)[q] = [r EXCEPT !.chan = NoChan]
    BY <2>1, <2>2
  <2>3. [r EXCEPT !.chan = NoChan] \in Records
    BY <2>1, <1>3 DEF Records
  <2>4. /\ [r EXCEPT !.chan = NoChan].state = r.state /\ [r EXCEPT !.chan = NoChan].killed = r.killed
        /\ [r EXCEPT !.chan = NoChan].ofile = r.ofile /\ [r EXCEPT !.chan = NoChan].p = r.p
        /\ [r EXCEPT !.chan = NoChan].todo = r.todo /\ [r EXCEPT !.chan = NoChan].pc = r.pc
        /\ [r EXCEPT !.chan = NoChan].pend = r.pend /\ [r EXCEPT !.chan = NoChan].parent = r.parent
        /\ [r EXCEPT !.chan = NoChan].chan = NoChan
    BY <2>1 DEF Records
  <2>5. CASE r.chan = c
    BY <2>2, <2>3, <2>4, <2>5 DEF r
  <2>6. CASE r.chan # c
    BY <2>1, <2>6 DEF r
  <2> QED BY <2>5, <2>6
<1>5. wakeup(P, c) = [q \in Procs |-> wakeup(P, c)[q]]
  BY <1>1 DEF wakeup
<1> QED BY <1>4, <1>5 DEF Woken
-----------------------------------------------------------------------------
(* What is known of a process at a call, and inside of one. *)
Ready(p) ==
  /\ proc[p] \in Records /\ proc[p].state = "LIVE" /\ proc[p].chan = NoChan /\ proc[p].pend = NoPend
  /\ proc[p].todo # <<>> /\ Task(proc[p].todo, Open(proc[p].ofile), proc[p].p)
  /\ Leads(proc[p].todo, Open(proc[p].ofile), proc[p].p)

(* A call that is about to be made is the first of a task.                 *)
LEMMA AtReady ==
  ASSUME Inv, NEW p \in Procs, NEW op, At(p, op)
  PROVE  Ready(p) /\ proc[p].pc = "user" /\ ~proc[p].killed /\ Head(proc[p].todo).op = op
<1>1. proc[p] \in Records /\ Sane(proc[p], p)
  BY DEF Inv, ProcInv
<1>2. /\ proc[p].state = "LIVE" /\ proc[p].chan = NoChan /\ proc[p].pend = NoPend
      /\ proc[p].pc = "user" /\ ~proc[p].killed /\ proc[p].todo # <<>> /\ Head(proc[p].todo).op = op
  BY DEF At, Live, Next1
<1>3. Task(proc[p].todo, Open(proc[p].ofile), proc[p].p)
  BY <1>1, <1>2 DEF Sane
<1> QED BY <1>1, <1>2, <1>3, TaskLeads DEF Ready

(* And so is one that sleeps or has slept.                                 *)
LEMMA InReady ==
  ASSUME Inv, NEW p \in Procs, NEW op, In(p, op)
  PROVE  Ready(p) /\ proc[p].pc = "in" /\ Head(proc[p].todo).op = op
<1>1. proc[p] \in Records /\ Sane(proc[p], p)
  BY DEF Inv, ProcInv
<1>2. /\ proc[p].state = "LIVE" /\ proc[p].chan = NoChan /\ proc[p].pend = NoPend
      /\ proc[p].pc = "in" /\ Head(proc[p].todo).op = op
  BY DEF In, Live, Next1
<1>3. Task(proc[p].todo, Open(proc[p].ofile), proc[p].p) /\ proc[p].todo # <<>>
  BY <1>1, <1>2 DEF Sane
<1> QED BY <1>1, <1>2, <1>3, TaskLeads DEF Ready

(* The step of a process changes its record, and may wake others. *)
Alike(p) == Frame(p) /\ \A q \in Procs \ {p} : proc'[q].parent = proc[q].parent

(* A step that sets the record of p.                                       *)
LEMMA Update ==
  ASSUME ProcInv, NEW p \in Procs, NEW r \in Records, proc' = [proc EXCEPT ![p] = r]
  PROVE  Alike(p) /\ proc'[p] = r /\ \A q \in Procs \ {p} : proc'[q] = proc[q]
<1>1. proc' \in [Procs -> Records] /\ proc'[p] = r /\ \A q \in Procs \ {p} : proc'[q] = proc[q]
  BY DEF ProcInv
<1> QED BY <1>1 DEF Alike, Frame, SameBut

(* A step that sets it and wakes the sleepers on a channel.                *)
LEMMA UpdateWake ==
  ASSUME ProcInv, NEW p \in Procs, NEW r \in Records, r.chan = NoChan, NEW c, c # NoChan,
         proc' = wakeup([proc EXCEPT ![p] = r], c)
  PROVE  /\ Alike(p) /\ \A q \in Procs : proc'[q].chan # c
         /\ proc'[p] \in Records
         /\ proc'[p].state = r.state /\ proc'[p].killed = r.killed /\ proc'[p].parent = r.parent
         /\ proc'[p].ofile = r.ofile /\ proc'[p].p = r.p /\ proc'[p].todo = r.todo
         /\ proc'[p].pc = r.pc /\ proc'[p].pend = r.pend /\ proc'[p].chan = NoChan
<1> DEFINE P == [proc EXCEPT ![p] = r]
<1>1. P \in [Procs -> Records] /\ P[p] = r /\ \A q \in Procs \ {p} : P[q] = proc[q]
  BY DEF ProcInv
<1>2. proc' = wakeup(P, c)
  OBVIOUS
<1> HIDE DEF P
<1>3. Woken(proc', P, c)
  BY <1>1, <1>2, Wakes
<1>4. ASSUME NEW q \in Procs \ {p} PROVE SameBut(q) /\ proc'[q].parent = proc[q].parent
  <2>1. P[q] = proc[q]
    BY <1>1
  <2>2. /\ proc'[q].state = P[q].state /\ proc'[q].killed = P[q].killed
        /\ proc'[q].ofile = P[q].ofile /\ proc'[q].p = P[q].p
        /\ proc'[q].todo = P[q].todo /\ proc'[q].pc = P[q].pc
        /\ proc'[q].pend = P[q].pend /\ proc'[q].parent = P[q].parent
    BY <1>3, Zenon DEF Woken
  <2>3. proc'[q].chan \in {P[q].chan, NoChan}
    BY <1>3 DEF Woken
  <2> QED BY <2>1, <2>2, <2>3 DEF SameBut
<1> QED BY <1>1, <1>3, <1>4 DEF Alike, Frame, Woken

(* Such steps leave the children of everybody alone.                       *)
LEMMA KidsSame ==
  ASSUME Inv, NEW p \in Procs, Alike(p), proc'[p].state = proc[p].state, proc'[p].parent = proc[p].parent
  PROVE  KidsKept(p) /\ \A q \in Procs : Zombies(q)' = Zombies(q) /\ Children(q)' = Children(q)
<1>1. \A q \in Procs : proc'[q].state = proc[q].state /\ proc'[q].parent = proc[q].parent
  BY DEF Alike, Frame, SameBut
<1>2. \A q \in Procs : Children(q)' = Children(q)
  BY <1>1 DEF Children
<1>3. \A q \in Procs : Zombies(q)' = Zombies(q)
  BY <1>1, <1>2 DEF Zombies, Children
<1>4. ASSUME NEW q \in Procs \ {p}, proc'[q].chan = child(q)
      PROVE  Zombies(q)' = {} /\ Children(q)' # {}
  <2>1. proc[q].chan = child(q)
    BY <1>4, Channels DEF Alike, Frame, SameBut
  <2> QED BY <1>2, <1>3, <2>1 DEF Inv, Standing, Waiting
<1> QED BY <1>2, <1>3, <1>4 DEF KidsKept

(* Nobody needs to be woken where no page changed.                         *)
LEMMA RousesNone == ASSUME NEW p, UNCHANGED pipe PROVE Rouses(p)
BY DEF Rouses, Empty, Full

(* The return of a call, as a record. *)
Returned(r) == [r EXCEPT !.todo = Onward(Tail(@)), !.pc = "user"]

(* Return() sets that record.                                              *)
LEMMA ReturnIs ==
  ASSUME NEW p \in Procs, NEW P \in [Procs -> Records]
  PROVE  Return(P, p) = [P EXCEPT ![p] = Returned(P[p])]
BY DEF Return, Returned

(* The record after a call is sane if what is left is a task.              *)
LEMMA Returning ==
  ASSUME NEW r \in Records, NEW q \in Procs, r.state = "LIVE", r.chan = NoChan,
         Task(Onward(Tail(r.todo)), Open(r.ofile), r.p),
         r.pend = NoPend \/ (r.pend.what # "none" /\ r.pend.pipe \in Pipes)
  PROVE  /\ Returned(r) \in Records /\ Sane(Returned(r), q)
         /\ Returned(r).state = "LIVE" /\ Returned(r).parent = r.parent /\ Returned(r).ofile = r.ofile
         /\ Returned(r).pend = r.pend /\ Returned(r).pc = "user" /\ Returned(r).chan = NoChan
         /\ Returned(r).killed = r.killed /\ Returned(r).p = r.p
         /\ Returned(r).todo = Onward(Tail(r.todo))
<1>1. Onward(Tail(r.todo)) \in Seq(Calls)
  BY TaskType
<1>2. Returned(r) \in Records
  BY <1>1 DEF Returned, Records
<1>3. /\ Returned(r).state = r.state /\ Returned(r).parent = r.parent /\ Returned(r).ofile = r.ofile
      /\ Returned(r).pend = r.pend /\ Returned(r).pc = "user" /\ Returned(r).chan = r.chan
      /\ Returned(r).killed = r.killed /\ Returned(r).p = r.p
      /\ Returned(r).todo = Onward(Tail(r.todo))
  BY DEF Returned, Records
<1>4. Sane(Returned(r), q)
  BY <1>3 DEF Sane, Sleeps
<1> QED BY <1>2, <1>3, <1>4
-----------------------------------------------------------------------------
(* Nothing is left to do only where 0, 1 and 2 are open: the shell's       *)
(* prompt.                                                                 *)
LEMMA NoTask == ASSUME NEW S, NEW x, Task(<<>>, S, x) PROVE S = Std
<1>1. \A y : <<y>> # <<>>
  BY Tuple1
<1>2. \A y, z : <<y, z>> # <<>>
  BY Tuple2
<1>3. ~Piped(<<>>)
  BY Tuple3, Tuple5, Tuple6, Tuple7, Ends DEF Piped, PipeTail, ForkChild
<1>4. \A y, z, u, v : <<y, z, u, v>> # <<>>
  BY Tuple4
<1> QED BY <1>1, <1>2, <1>3, <1>4 DEF Task

(* A step in which one record changes, and pipes, files and who is whose child do not. *)
LEMMA OneRecord ==
  ASSUME Inv, NEW p \in Procs, NEW r \in Records, proc' = [proc EXCEPT ![p] = r],
         r.state = proc[p].state, r.parent = proc[p].parent, r.ofile = proc[p].ofile,
         r.pend = proc[p].pend, Sane(r, p), UNCHANGED <<file, pipe>>, Standing(p)'
  PROVE  Inv'
<1>1. Alike(p) /\ proc'[p] = r
  BY Update DEF Inv
<1>2. Frame(p) /\ KidsKept(p)
  BY <1>1, KidsSame DEF Alike
<1>3. OpenSame /\ LocksKept /\ Rouses(p)
  BY PageSame, RousesNone DEF Inv
<1> QED BY <1>1, <1>2, <1>3, QuietStep

(* The shell forks and runs, or runs in its child, what is typed.          *)
LEMMA PromptStep ==
  ASSUME Inv, NEW cmd \in Commands, Prompt(cmd)
  PROVE  Inv'
<1> DEFINE t == <<Fork(NoFd, cmd), Do("wait")>>
           r == [proc[shell] EXCEPT !.todo = t]
<1>1. shell \in Procs /\ cmd \in Cmds
  BY Constants
<1>2. proc[shell] \in Records /\ Sane(proc[shell], shell)
  BY <1>1 DEF Inv, ProcInv
<1>3. /\ proc[shell].state = "LIVE" /\ proc[shell].chan = NoChan /\ proc[shell].pend = NoPend
      /\ ~proc[shell].killed /\ proc[shell].todo = <<>>
  BY DEF Prompt, Live
<1>4. proc[shell].pc = "user"
  BY <1>2, <1>3 DEF Sane
<1>5. Task(proc[shell].todo, Open(proc[shell].ofile), proc[shell].p)
  BY <1>2, <1>3 DEF Sane
<1>6. Open(proc[shell].ofile) = Std
  BY <1>3, <1>5, NoTask
<1>7. Task(t, Std, proc[shell].p)
  BY <1>1 DEF Task, Plain
<1>8. t \in Seq(Calls)
  BY <1>7, TaskType
<1>9. proc' = [proc EXCEPT ![shell] = r] /\ UNCHANGED <<file, pipe>>
  BY DEF Prompt
<1> HIDE DEF t
<1>10. /\ r \in Records /\ r.state = "LIVE" /\ r.parent = proc[shell].parent /\ r.ofile = proc[shell].ofile
       /\ r.pend = NoPend /\ r.chan = NoChan /\ r.todo = t /\ r.pc = "user" /\ r.p = proc[shell].p
  BY <1>2, <1>3, <1>4, <1>8 DEF Records
<1> HIDE DEF r
<1>11. Sane(r, shell)
  BY <1>6, <1>7, <1>10 DEF Sane, Sleeps
<1>12. proc'[shell] = r
  BY <1>1, <1>9, <1>10, Update DEF Inv
<1>13. Standing(shell)'
  BY <1>1, <1>10, <1>12, UserStands
<1> QED BY <1>1, <1>3, <1>9, <1>10, <1>11, <1>13, OneRecord

(* panic() of the shell: it exits. *)
Panicked(r) == [r EXCEPT !.todo = <<Do("exit")>>, !.pc = "user"]

(* The exit of panic() is a task, whatever is open.                        *)
LEMMA Panicking ==
  ASSUME Inv, NEW p \in Procs, Ready(p)
  PROVE  LET r == Panicked(proc[p])
         IN /\ Panic(proc, p) = [proc EXCEPT ![p] = r]
            /\ r \in Records /\ Sane(r, p) /\ r.state = proc[p].state /\ r.parent = proc[p].parent
            /\ r.ofile = proc[p].ofile /\ r.pend = proc[p].pend /\ r.pc = "user" /\ r.chan = NoChan
<1> DEFINE r == Panicked(proc[p])
<1>1. <<Do("exit")>> \in Seq(Calls)
  BY CallTypes
<1>2. \A S, x : Task(<<Do("exit")>>, S, x)
  BY DEF Task
<1>3. r \in Records
  BY <1>1 DEF Panicked, Records, Ready
<1>4. /\ r.state = proc[p].state /\ r.parent = proc[p].parent /\ r.ofile = proc[p].ofile
      /\ r.pend = proc[p].pend /\ r.pc = "user" /\ r.chan = NoChan /\ r.todo = <<Do("exit")>>
  BY DEF Panicked, Records, Ready
<1>5. Panic(proc, p) = [proc EXCEPT ![p] = r]
  BY DEF Panic, Panicked, Inv, ProcInv
<1> HIDE DEF r
<1>6. Sane(r, p)
  BY <1>2, <1>4 DEF Sane, Sleeps, Ready
<1> QED BY <1>3, <1>4, <1>5, <1>6 DEF r

(* panic() in sh.c keeps the invariant.                                    *)
LEMMA PanicStep ==
  ASSUME Inv, NEW p \in Procs, Ready(p), proc' = Panic(proc, p), UNCHANGED <<file, pipe>>
  PROVE  Inv'
<1>1. PICK r : /\ r = Panicked(proc[p]) /\ proc' = [proc EXCEPT ![p] = r]
            /\ r \in Records /\ Sane(r, p) /\ r.state = proc[p].state /\ r.parent = proc[p].parent
            /\ r.ofile = proc[p].ofile /\ r.pend = proc[p].pend /\ r.pc = "user" /\ r.chan = NoChan
  BY Panicking
<1>2. proc'[p] = r
  BY <1>1, Update DEF Inv
<1>3. Standing(p)'
  BY <1>1, <1>2, UserStands
<1> QED BY <1>1, <1>3, OneRecord

(* A fork() that fails makes sh.c panic.                                   *)
LEMMA ForkFailsStep ==
  ASSUME Inv, NEW p \in Procs, ForkFails(p)
  PROVE  Inv'
<1>1. Ready(p)
  BY AtReady DEF ForkFails
<1> QED BY <1>1, PanicStep DEF ForkFails

(* sys_read() and sys_write() find the file.                               *)
LEMMA EnterStep ==
  ASSUME Inv, NEW p \in Procs, Enter(p)
  PROVE  Inv'
<1>1. Ready(p) /\ proc[p].pc = "user" /\ ~proc[p].killed /\ Head(proc[p].todo).op \in {"read", "write"}
  BY AtReady DEF Enter
<1> DEFINE n == IF Next1(p).op = "write" THEN BYTES ELSE 0
           r == [proc[p] EXCEPT !.pc = "in", !.left = n]
<1>2. n \in 0..BYTES
  BY Constants
<1>3. proc' = [proc EXCEPT ![p] = r] /\ UNCHANGED <<file, pipe>>
  BY DEF Enter
<1> HIDE DEF n
<1>4. /\ r \in Records /\ r.state = proc[p].state /\ r.parent = proc[p].parent /\ r.ofile = proc[p].ofile
      /\ r.pend = proc[p].pend /\ r.chan = NoChan /\ r.pc = "in" /\ r.p = proc[p].p /\ r.todo = proc[p].todo
  BY <1>1, <1>2 DEF Ready, Records
<1> HIDE DEF r
<1>5. Sane(r, p)
  BY <1>1, <1>4 DEF Sane, Sleeps, Ready
<1>6. proc'[p] = r
  BY <1>3, <1>4, Update DEF Inv
<1>7. Standing(p)'
  BY <1>4, <1>6, Channels DEF Standing, Dozing, Reading, Writing, Waiting
<1> QED BY <1>3, <1>4, <1>5, <1>7, OneRecord

(* kill() sets killed and wakes the process, which looks again.            *)
LEMMA KillStep ==
  ASSUME Inv, NEW q \in Procs, kill(q)
  PROVE  Inv'
<1> DEFINE r == [proc[q] EXCEPT !.killed = TRUE, !.chan = NoChan]
<1>1. proc[q] \in Records /\ Sane(proc[q], q) /\ proc[q].state = "LIVE" /\ Standing(q)
  BY DEF kill, Inv, ProcInv
<1>2. proc' = [proc EXCEPT ![q] = r] /\ UNCHANGED <<file, pipe>>
  BY DEF kill
<1>3. /\ r \in Records /\ r.state = proc[q].state /\ r.parent = proc[q].parent /\ r.ofile = proc[q].ofile
      /\ r.pend = proc[q].pend /\ r.chan = NoChan /\ r.pc = proc[q].pc /\ r.p = proc[q].p
      /\ r.todo = proc[q].todo /\ r.killed
  BY <1>1 DEF Records, Chans
<1> HIDE DEF r
<1>4. Sane(r, q)
  BY <1>1, <1>3 DEF Sane, Sleeps
<1>5. proc'[q] = r
  BY <1>2, <1>3, Update DEF Inv
<1>6. Reading(q)' /\ Writing(q)' /\ Waiting(q)'
  BY <1>3, <1>5, Channels DEF Reading, Writing, Waiting
<1>7. Dozing(q)' <=> Dozing(q)
  BY <1>2, <1>3, <1>5 DEF Dozing, Next1, Empty, Full
<1>8. Standing(q)'
  BY <1>1, <1>6, <1>7 DEF Standing
<1> QED BY <1>2, <1>3, <1>4, <1>8, OneRecord

(* The test of the loop and the sleep are one: what was the cause at the   *)
(* test is the cause of the sleep.                                         *)
LEMMA SleepStep ==
  ASSUME Inv, NEW p \in Procs, sleep(p)
  PROVE  Inv'
<1>1. proc[p] \in Records /\ Sane(proc[p], p) /\ proc[p].pc = "doze" /\ Standing(p)
  BY DEF sleep, Inv, ProcInv
<1>2. /\ proc[p].state = "LIVE" /\ proc[p].todo # <<>> /\ proc[p].pend = NoPend
      /\ Task(proc[p].todo, Open(proc[p].ofile), proc[p].p)
      /\ Head(proc[p].todo).op \in {"read", "write"}
      /\ proc[p].ofile[0] \in Files /\ proc[p].ofile[1] \in Files
  BY <1>1, InsideOpen DEF Sane
<1> DEFINE c == IF Next1(p).op = "read" THEN nread(file[proc[p].ofile[0]].pipe)
                ELSE nwrite(file[proc[p].ofile[1]].pipe)
           r == [proc[p] EXCEPT !.pc = "in", !.chan = c]
           f == proc[p].ofile[IF Next1(p).op = "read" THEN 0 ELSE 1]
<1>3. file[f].type = "PIPE" /\ file[f].pipe \in Pipes
  BY <1>1, <1>2 DEF Standing, Dozing, Inv, FileInv
<1>4. c = IF Next1(p).op = "read" THEN nread(file[f].pipe) ELSE nwrite(file[f].pipe)
  OBVIOUS
<1>5. c \in Chans
  BY <1>3, <1>4 DEF Chans
<1>6. proc' = [proc EXCEPT ![p] = r] /\ UNCHANGED <<file, pipe>>
  BY DEF sleep
<1> HIDE DEF c, f
<1>7. /\ r \in Records /\ r.state = proc[p].state /\ r.parent = proc[p].parent /\ r.ofile = proc[p].ofile
      /\ r.pend = proc[p].pend /\ r.chan = c /\ r.pc = "in" /\ r.p = proc[p].p
      /\ r.todo = proc[p].todo
  BY <1>1, <1>5 DEF Records
<1> HIDE DEF r
<1>8. Sane(r, p)
  BY <1>1, <1>2, <1>3, <1>4, <1>7 DEF Sane, Sleeps, Next1
<1>9. proc'[p] = r
  BY <1>6, <1>7, Update DEF Inv
<1>10. Dozing(p)' /\ Waiting(p)'
  BY <1>2, <1>3, <1>4, <1>7, <1>9, Channels DEF Dozing, Waiting
<1>11. Next1(p).op = "read" => Empty(file[f].pipe)
  BY <1>1 DEF Standing, Dozing, f
<1>12. Next1(p).op = "write" => Full(file[f].pipe)
  BY <1>1 DEF Standing, Dozing, f
<1>13. Next1(p).op \in {"read", "write"}
  BY <1>2 DEF Next1
<1>14. ASSUME NEW k \in Pipes, proc'[p].chan = nread(k)
       PROVE  /\ file'[proc'[p].ofile[0]].type = "PIPE" /\ file'[proc'[p].ofile[0]].pipe = k /\ Empty(k)'
  <2>1. Next1(p).op = "read" /\ file[f].pipe = k /\ f = proc[p].ofile[0]
    BY <1>3, <1>4, <1>7, <1>9, <1>13, <1>14, Channels DEF f
  <2> QED BY <1>3, <1>6, <1>7, <1>9, <1>11, <2>1 DEF Empty
<1>15. ASSUME NEW k \in Pipes, proc'[p].chan = nwrite(k)
       PROVE  /\ file'[proc'[p].ofile[1]].type = "PIPE" /\ file'[proc'[p].ofile[1]].pipe = k /\ Full(k)'
  <2>1. Next1(p).op = "write" /\ file[f].pipe = k /\ f = proc[p].ofile[1]
    BY <1>3, <1>4, <1>7, <1>9, <1>13, <1>15, Channels DEF f
  <2> QED BY <1>3, <1>6, <1>7, <1>9, <1>12, <2>1 DEF Full
<1>16. Standing(p)'
  BY <1>10, <1>14, <1>15 DEF Standing, Reading, Writing
<1> QED BY <1>6, <1>7, <1>8, <1>16, OneRecord
-----------------------------------------------------------------------------
(* The process returns from its call, and that is all. *)
LEMMA ReturnStep ==
  ASSUME Inv, NEW p \in Procs, Ready(p), proc' = Return(proc, p), UNCHANGED <<file, pipe>>,
         Task(Onward(Tail(proc[p].todo)), Open(proc[p].ofile), proc[p].p)
  PROVE  Inv'
<1>1. PICK r : r = Returned(proc[p])
  OBVIOUS
<1>2. proc' = [proc EXCEPT ![p] = r]
  BY <1>1, ReturnIs DEF Inv, ProcInv
<1>3. /\ r \in Records /\ Sane(r, p) /\ r.state = proc[p].state /\ r.parent = proc[p].parent
      /\ r.ofile = proc[p].ofile /\ r.pend = proc[p].pend /\ r.pc = "user" /\ r.chan = NoChan
  BY <1>1, Returning DEF Ready
<1>4. proc'[p] = r
  BY <1>2, <1>3, Update DEF Inv
<1>5. Standing(p)'
  BY <1>3, <1>4, UserStands
<1> QED BY <1>2, <1>3, <1>5, OneRecord

(* A step inside of a read or a write of a pipe. *)
LEMMA PageStep ==
  ASSUME Inv, NEW p \in Procs, Alike(p), proc'[p].state = proc[p].state, proc'[p].parent = proc[p].parent,
         proc'[p].ofile = proc[p].ofile, proc'[p].pend = proc[p].pend, Sane(proc'[p], p),
         UNCHANGED file, OpenSame, LocksKept, Rouses(p), Standing(p)'
  PROVE  Inv'
<1>1. Frame(p) /\ KidsKept(p)
  BY KidsSame DEF Alike
<1> QED BY <1>1, QuietStep

(* An end of a pipe has its page.                                          *)
LEMMA PageUsed ==
  ASSUME Inv, NEW f \in Files, file[f].type = "PIPE"
  PROVE  /\ file[f].pipe \in Pipes /\ pipe[file[f].pipe] \in PageRecs /\ pipe[file[f].pipe].used
<1>1. file[f].pipe \in Pipes /\ file[f].writable \in BOOLEAN
  BY DEF Inv, FileInv, FileRecs
<1>2. PICK k \in Pipes : k = file[f].pipe
  BY <1>1
<1>3. IsOpen(k, file[f].writable)
  BY <1>1, <1>2 DEF Inv, PipeInv, IsEnd
<1>4. pipe[k] \in PageRecs /\ (~pipe[k].used => pipe[k] = NoPage)
  BY DEF Inv, PipeInv
<1>5. NoPage.readopen = FALSE /\ NoPage.writeopen = FALSE
  BY DEF NoPage
<1> QED BY <1>2, <1>3, <1>4, <1>5 DEF IsOpen

(* The bytes of one page change. *)
Bytes(s, k) == /\ s \in PageRecs /\ s.used = pipe[k].used
               /\ s.readopen = pipe[k].readopen /\ s.writeopen = pipe[k].writeopen

(* Such a step opens and closes nothing, and takes the lock.               *)
LEMMA PageUpdate ==
  ASSUME Inv, NEW k \in Pipes, NEW s, Bytes(s, k), pipe[k].used, Unlocked(k),
         pipe' = [pipe EXCEPT ![k] = s]
  PROVE  OpenSame /\ LocksKept /\ pipe'[k] = s /\ \A l \in Pipes \ {k} : pipe'[l] = pipe[l]
<1>1. pipe \in [Pipes -> PageRecs]
  BY DEF Inv, PipeInv
<1>2. pipe' \in [Pipes -> PageRecs] /\ pipe'[k] = s /\ \A l \in Pipes \ {k} : pipe'[l] = pipe[l]
  BY <1>1 DEF Bytes
<1>3. LocksKept
  BY <1>2 DEF LocksKept
<1>4. OpenSame
  BY <1>2 DEF OpenSame, Bytes
<1> QED BY <1>2, <1>3, <1>4

(* A change of one page leaves no sleeper without cause if all of a kind   *)
(* were woken, or had cause to begin with and keep it.                     *)
LEMMA PageRouses ==
  ASSUME NEW p \in Procs, NEW k \in Pipes, \A l \in Pipes \ {k} : pipe'[l] = pipe[l],
         (\A q \in Procs : proc'[q].chan # nread(k)) \/ (Empty(k) => Empty(k)'),
         (\A q \in Procs : proc'[q].chan # nwrite(k)) \/ (Full(k) => Full(k)')
  PROVE  Rouses(p)
<1>1. \A l \in Pipes \ {k} : (Empty(l)' <=> Empty(l)) /\ (Full(l)' <=> Full(l))
  BY DEF Empty, Full
<1> QED BY <1>1 DEF Rouses

(* What a process at its pipe knows of it. *)
LEMMA AtPipe ==
  ASSUME Inv, NEW p \in Procs, Ready(p), Head(proc[p].todo).op \in {"read", "write"},
         NEW d \in {0, 1}
  PROVE  /\ proc[p].ofile[d] \in Files
         /\ Task(Onward(Tail(proc[p].todo)), Open(proc[p].ofile), proc[p].p)
         /\ file[proc[p].ofile[d]].type = "PIPE" =>
              LET k == file[proc[p].ofile[d]].pipe
              IN k \in Pipes /\ pipe[k] \in PageRecs /\ pipe[k].used
<1>1. Open(proc[p].ofile) = Std /\ Task(Onward(Tail(proc[p].todo)), Open(proc[p].ofile), proc[p].p)
  BY DEF Ready, Leads
<1>2. d \in Open(proc[p].ofile)
  BY <1>1 DEF Std
<1>3. proc[p].ofile \in [Fds -> Files \cup {NoFile}]
  BY DEF Ready, Records
<1>4. proc[p].ofile[d] \in Files
  BY <1>2, <1>3 DEF Open
<1> QED BY <1>1, <1>4, PageUsed

(* The process leaves its call, or looks at the pipe again, and wakes others. *)
LEMMA PageReturn ==
  ASSUME Inv, NEW p \in Procs, Ready(p), NEW k \in Pipes, NEW s, Bytes(s, k), pipe[k].used,
         Unlocked(k), pipe' = [pipe EXCEPT ![k] = s], UNCHANGED file,
         NEW r \in Records, Sane(r, p), r.state = proc[p].state, r.parent = proc[p].parent,
         r.ofile = proc[p].ofile, r.pend = proc[p].pend, r.chan = NoChan,
         NEW w \in BOOLEAN, proc' = wakeup([proc EXCEPT ![p] = r], Waiters(k, w)),
         IF w THEN Full(k) => s.readopen /\ s.n = PIPESIZE
              ELSE Empty(k) => s.writeopen /\ (s.n = 0 \/ s.cut),
         r.pc = "user" \/ (r.pc = "doze" /\ Dozing(p)')
  PROVE  Inv'
<1>1. Waiters(k, w) # NoChan
  BY Channels DEF Waiters
<1>2. /\ Alike(p) /\ \A q \in Procs : proc'[q].chan # Waiters(k, w)
      /\ proc'[p] \in Records
      /\ proc'[p].state = r.state /\ proc'[p].killed = r.killed /\ proc'[p].parent = r.parent
      /\ proc'[p].ofile = r.ofile /\ proc'[p].p = r.p /\ proc'[p].todo = r.todo
      /\ proc'[p].pc = r.pc /\ proc'[p].pend = r.pend /\ proc'[p].chan = NoChan
  BY <1>1, UpdateWake DEF Inv
<1>3. OpenSame /\ LocksKept /\ pipe'[k] = s /\ \A l \in Pipes \ {k} : pipe'[l] = pipe[l]
  BY PageUpdate
<1>4. Rouses(p)
  <2>1. CASE w
    BY <1>2, <1>3, <2>1, PageRouses DEF Waiters, Full
  <2>2. CASE ~w
    BY <1>2, <1>3, <2>2, PageRouses DEF Waiters, Empty
  <2> QED BY <2>1, <2>2
<1>5. Sane(proc'[p], p)
  BY <1>2 DEF Sane, Sleeps, Idle
<1>6. Standing(p)'
  <2>1. CASE r.pc = "user"
    BY <1>2, <2>1, UserStands
  <2>2. CASE Dozing(p)'
    BY <1>2, <2>2, Channels DEF Standing, Reading, Writing, Waiting
  <2> QED BY <2>1, <2>2
<1> QED BY <1>2, <1>3, <1>4, <1>5, <1>6, PageStep
-----------------------------------------------------------------------------
(* piperead(): it wakes the writers after it has taken bytes.              *)
LEMMA ReadStep ==
  ASSUME Inv, NEW p \in Procs, sys_read(p)
  PROVE  Inv'
<1> DEFINE f == file[proc[p].ofile[0]]
           k == f.pipe
<1>1. Ready(p) /\ proc[p].pc = "in" /\ Head(proc[p].todo).op = "read" /\ file' = file
  BY InReady DEF sys_read
<1>2. /\ proc[p].ofile[0] \in Files
      /\ Task(Onward(Tail(proc[p].todo)), Open(proc[p].ofile), proc[p].p)
      /\ f.type = "PIPE" => k \in Pipes /\ pipe[k] \in PageRecs /\ pipe[k].used
  BY <1>1, AtPipe
<1>3. PICK r : r = Returned(proc[p])
  OBVIOUS
<1>4. Return(proc, p) = [proc EXCEPT ![p] = r]
  BY <1>3, ReturnIs DEF Inv, ProcInv
<1>5. /\ r \in Records /\ Sane(r, p) /\ r.state = proc[p].state /\ r.parent = proc[p].parent
      /\ r.ofile = proc[p].ofile /\ r.pend = proc[p].pend /\ r.pc = "user" /\ r.chan = NoChan
  BY <1>1, <1>2, <1>3, Returning DEF Ready
<1>6. ASSUME proc' = Return(proc, p), UNCHANGED pipe PROVE Inv'
  BY <1>1, <1>2, <1>6, ReturnStep
<1>7. ASSUME f.type = "PIPE", pipe[k].n = 0, pipe[k].writeopen, UNCHANGED pipe,
             proc' = [proc EXCEPT ![p].pc = "doze"]
      PROVE  Inv'
  <2> DEFINE s == [proc[p] EXCEPT !.pc = "doze"]
  <2>1. proc' = [proc EXCEPT ![p] = s]
    BY <1>7
  <2>2. /\ s \in Records /\ s.state = proc[p].state /\ s.parent = proc[p].parent /\ s.ofile = proc[p].ofile
        /\ s.pend = proc[p].pend /\ s.chan = NoChan /\ s.pc = "doze" /\ s.p = proc[p].p /\ s.todo = proc[p].todo
    BY <1>1 DEF Ready, Records
  <2> HIDE DEF s
  <2>3. Sane(s, p)
    BY <1>1, <2>2 DEF Sane, Sleeps, Ready
  <2>4. proc'[p] = s
    BY <2>1, <2>2, Update DEF Inv
  <2>5. Dozing(p)'
    BY <1>1, <1>7, <2>2, <2>4 DEF Dozing, Next1, Empty
  <2>6. Standing(p)'
    BY <2>2, <2>4, <2>5, Channels DEF Standing, Reading, Writing, Waiting
  <2> QED BY <1>1, <1>7, <2>1, <2>2, <2>3, <2>6, OneRecord
<1>8. ASSUME f.type = "PIPE", Unlocked(k), pipe[k].n > 0, NEW m \in 1..pipe[k].n,
             pipe' = [pipe EXCEPT ![k].n = @ - m, ![k].cut = @ /\ m < pipe[k].n],
             proc' = wakeup(Again(proc, p), nwrite(k))
      PROVE  Inv'
  <2> DEFINE u == [proc[p] EXCEPT !.pc = "user"]
             s == [pipe[k] EXCEPT !.n = @ - m, !.cut = @ /\ m < pipe[k].n]
  <2>1. Again(proc, p) = [proc EXCEPT ![p] = u] /\ nwrite(k) = Waiters(k, FALSE)
    BY DEF Again, Waiters
  <2>2. /\ u \in Records /\ u.state = proc[p].state /\ u.parent = proc[p].parent /\ u.ofile = proc[p].ofile
        /\ u.pend = proc[p].pend /\ u.chan = NoChan /\ u.pc = "user" /\ u.p = proc[p].p /\ u.todo = proc[p].todo
    BY <1>1 DEF Ready, Records
  <2> HIDE DEF u
  <2>3. Sane(u, p)
    BY <1>1, <2>2 DEF Sane, Sleeps, Ready
  <2>4. pipe[k] \in PageRecs /\ k \in Pipes /\ pipe[k].used
    BY <1>2, <1>8
  <2>5. pipe[k].n \in 0..PIPESIZE /\ PIPESIZE \in Nat /\ pipe[k].cut \in BOOLEAN
    BY <2>4, Constants DEF PageRecs
  <2>6. pipe[k].n - m \in 0..PIPESIZE /\ (pipe[k].cut /\ m < pipe[k].n) \in BOOLEAN
    BY <2>5
  <2>7. Bytes(s, k) /\ s.n = pipe[k].n - m /\ s.cut = (pipe[k].cut /\ m < pipe[k].n)
    BY <2>4, <2>6 DEF Bytes, PageRecs
  <2>8. pipe' = [pipe EXCEPT ![k] = s]
    BY <1>8, <2>4 DEF Inv, PipeInv, PageRecs
  <2> HIDE DEF s
  <2>9. Empty(k) => s.writeopen /\ (s.n = 0 \/ s.cut)
    <3>1. s.writeopen = pipe[k].writeopen
      BY <2>7 DEF Bytes
    <3>2. CASE m = pipe[k].n
      <4>1. s.n = 0
        BY <2>5, <2>7, <3>2
      <4> QED BY <3>1, <4>1 DEF Empty
    <3>3. CASE m < pipe[k].n
      <4>1. s.cut = pipe[k].cut
        BY <2>5, <2>7, <3>3
      <4>2. pipe[k].n # 0
        BY <2>5, <3>3
      <4> QED BY <3>1, <4>1, <4>2 DEF Empty
    <3> QED BY <2>5, <3>2, <3>3
  <2>10. proc' = wakeup([proc EXCEPT ![p] = u], Waiters(k, FALSE))
    BY <1>8, <2>1
  <2> HIDE DEF k, f
  <2>11. PICK l \in Pipes : l = k
    BY <2>4
  <2> QED BY <1>1, <1>8, <2>2, <2>3, <2>4, <2>7, <2>8, <2>9, <2>10, <2>11, PageReturn
<1>9. ASSUME f.type = "PIPE", Unlocked(k), pipe[k].n = 0, ~pipe[k].writeopen, UNCHANGED pipe,
             proc' = wakeup(Return(proc, p), nwrite(k))
      PROVE  Inv'
  <2>1. pipe[k] \in PageRecs /\ k \in Pipes /\ pipe[k].used
    BY <1>2, <1>9
  <2>2. PICK s : s = pipe[k]
    OBVIOUS
  <2>3. Bytes(s, k) /\ pipe' = [pipe EXCEPT ![k] = s]
    BY <1>9, <2>1, <2>2 DEF Bytes, Inv, PipeInv
  <2>4. proc' = wakeup([proc EXCEPT ![p] = r], Waiters(k, FALSE))
    BY <1>4, <1>9 DEF Waiters
  <2>5. Empty(k) => s.writeopen /\ (s.n = 0 \/ s.cut)
    BY <2>2 DEF Empty
  <2> HIDE DEF k, f
  <2>6. PICK l \in Pipes : l = k
    BY <2>1
  <2> QED BY <1>1, <1>5, <1>9, <2>1, <2>3, <2>4, <2>5, <2>6, PageReturn
<1> QED BY <1>6, <1>7, <1>8, <1>9 DEF sys_read
-----------------------------------------------------------------------------
(* How many bytes a write puts into a page. *)
LEMMA Puts ==
  ASSUME NEW a \in 0..BYTES, NEW n \in 0..PIPESIZE
  PROVE  LET m == Min({a, PIPESIZE - n})
         IN /\ m \in Nat /\ m <= a /\ n + m \in 0..PIPESIZE /\ a - m \in 0..BYTES
            /\ m < a => n + m = PIPESIZE
<1>1. a \in Nat /\ PIPESIZE - n \in Nat
  BY Constants
<1>2. PICK S : S = {a, PIPESIZE - n}
  OBVIOUS
<1>3. S \in SUBSET Nat /\ S # {}
  BY <1>1, <1>2
<1>4. Min(S) \in S /\ \A y \in S : Min(S) <= y
  BY <1>3, MinOf
<1>5. PICK m : m = Min(S)
  OBVIOUS
<1>6. m \in {a, PIPESIZE - n} /\ m <= a /\ m <= PIPESIZE - n
  BY <1>2, <1>4, <1>5
<1>7. m \in Nat /\ m <= a /\ n + m \in 0..PIPESIZE /\ a - m \in 0..BYTES /\ (m < a => n + m = PIPESIZE)
  BY <1>1, <1>6, Constants
<1> QED BY <1>2, <1>5, <1>7

(* pipewrite(): it wakes the readers before it sleeps and at the end.      *)
LEMMA WriteStep ==
  ASSUME Inv, NEW p \in Procs, sys_write(p)
  PROVE  Inv'
<1> DEFINE f == file[proc[p].ofile[1]]
<1>1. Ready(p) /\ proc[p].pc = "in" /\ Head(proc[p].todo).op = "write" /\ file' = file
  BY InReady DEF sys_write
<1>2. /\ proc[p].ofile[1] \in Files
      /\ Task(Onward(Tail(proc[p].todo)), Open(proc[p].ofile), proc[p].p)
      /\ f.type = "PIPE" => f.pipe \in Pipes /\ pipe[f.pipe] \in PageRecs /\ pipe[f.pipe].used
  BY <1>1, AtPipe
<1>3. ASSUME f.type # "PIPE", proc' = Return(proc, p), UNCHANGED pipe PROVE Inv'
  BY <1>1, <1>2, <1>3, ReturnStep
<1>4. ASSUME f.type = "PIPE" PROVE Inv'
  <2>1. PICK k \in Pipes : k = f.pipe
    BY <1>2, <1>4
  <2>2. PICK m : m = Min({proc[p].left, PIPESIZE - pipe[k].n})
    OBVIOUS
  <2>3. pipe[k] \in PageRecs /\ pipe[k].used
    BY <1>2, <1>4, <2>1
  <2>4. proc[p].left \in 0..BYTES /\ pipe[k].n \in 0..PIPESIZE
    BY <1>1, <2>3 DEF Ready, Records, PageRecs
  <2>5. /\ m \in Nat /\ m <= proc[p].left /\ pipe[k].n + m \in 0..PIPESIZE /\ proc[p].left - m \in 0..BYTES
        /\ m < proc[p].left => pipe[k].n + m = PIPESIZE
    BY <2>2, <2>4, Puts
  <2> DEFINE u(c) == [pipe[k] EXCEPT !.n = @ + m, !.cut = c]
  <2>6. ASSUME NEW c \in BOOLEAN
        PROVE  Bytes(u(c), k) /\ u(c).n = pipe[k].n + m /\ u(c).cut = c
    BY <2>3, <2>5 DEF Bytes, PageRecs
  <2>7. ASSUME NEW c
        PROVE  [[pipe EXCEPT ![k].n = @ + m] EXCEPT ![k].cut = c] = [pipe EXCEPT ![k] = u(c)]
    BY <2>3 DEF Inv, PipeInv, PageRecs
  <2> HIDE DEF u
  <2>8. ASSUME NEW c \in BOOLEAN PROVE Full(k) => u(c).readopen /\ u(c).n = PIPESIZE
    <3>1. u(c).readopen = pipe[k].readopen
      BY <2>6 DEF Bytes
    <3> QED BY <2>4, <2>5, <2>6, <3>1 DEF Full
  <2>9. ASSUME Unlocked(k), ~(m < proc[p].left),
               pipe' = [[pipe EXCEPT ![k].n = @ + m] EXCEPT ![k].cut = FALSE],
               proc' = wakeup(Return([proc EXCEPT ![p].left = 0], p), nread(k))
        PROVE  Inv'
    <3> DEFINE l == [proc[p] EXCEPT !.left = 0]
    <3>1. l \in Records /\ l.state = "LIVE" /\ l.chan = NoChan /\ l.pend = NoPend /\ l.p = proc[p].p
          /\ l.todo = proc[p].todo /\ l.ofile = proc[p].ofile /\ l.parent = proc[p].parent
      <4>1. 0 \in 0..BYTES
        BY Constants
      <4> QED BY <1>1, <4>1 DEF Ready, Records
    <3>2. [proc EXCEPT ![p].left = 0] \in [Procs -> Records] /\ [proc EXCEPT ![p].left = 0][p] = l
          /\ [proc EXCEPT ![p].left = 0] = [proc EXCEPT ![p] = l]
      BY <3>1 DEF Inv, ProcInv
    <3> HIDE DEF l
    <3>3. PICK r : r = Returned(l)
      OBVIOUS
    <3>4. Return([proc EXCEPT ![p].left = 0], p) = [proc EXCEPT ![p] = r]
      <4>1. Return([proc EXCEPT ![p].left = 0], p) = [[proc EXCEPT ![p].left = 0] EXCEPT ![p] = Returned(l)]
        BY <3>2, ReturnIs
      <4> QED BY <3>2, <3>3, <4>1 DEF Inv, ProcInv
    <3>5. /\ r \in Records /\ Sane(r, p) /\ r.state = proc[p].state /\ r.parent = proc[p].parent
          /\ r.ofile = proc[p].ofile /\ r.pend = proc[p].pend /\ r.pc = "user" /\ r.chan = NoChan
      BY <1>1, <1>2, <3>1, <3>3, Returning DEF Ready
    <3>6. nread(k) = Waiters(k, TRUE)
      BY DEF Waiters
    <3>7. PICK s : s = u(FALSE)
      OBVIOUS
    <3>8. Bytes(s, k) /\ pipe' = [pipe EXCEPT ![k] = s] /\ (Full(k) => s.readopen /\ s.n = PIPESIZE)
      BY <2>6, <2>7, <2>8, <2>9, <3>7
    <3>9. PICK w \in BOOLEAN : w
      OBVIOUS
    <3>10. proc' = wakeup([proc EXCEPT ![p] = r], Waiters(k, w))
      BY <2>9, <3>4, <3>9 DEF Waiters
    <3>11. Unlocked(k)
      BY <2>9
    <3> QED BY <1>1, <2>3, <3>5, <3>8, <3>9, <3>10, <3>11, PageReturn
  <2>10. ASSUME Unlocked(k), m < proc[p].left,
                pipe' = [[pipe EXCEPT ![k].n = @ + m] EXCEPT ![k].cut = @ \/ m > 0],
                proc' = Return([proc EXCEPT ![p].left = 0], p)
        PROVE  Inv'
    <3> DEFINE l == [proc[p] EXCEPT !.left = 0]
    <3>1. l \in Records /\ l.state = "LIVE" /\ l.chan = NoChan /\ l.pend = NoPend /\ l.p = proc[p].p
          /\ l.todo = proc[p].todo /\ l.ofile = proc[p].ofile /\ l.parent = proc[p].parent
      <4>1. 0 \in 0..BYTES
        BY Constants
      <4> QED BY <1>1, <4>1 DEF Ready, Records
    <3>2. [proc EXCEPT ![p].left = 0] \in [Procs -> Records] /\ [proc EXCEPT ![p].left = 0][p] = l
          /\ [proc EXCEPT ![p].left = 0] = [proc EXCEPT ![p] = l]
      BY <3>1 DEF Inv, ProcInv
    <3> HIDE DEF l
    <3>3. PICK r : r = Returned(l)
      OBVIOUS
    <3>4. Return([proc EXCEPT ![p].left = 0], p) = [proc EXCEPT ![p] = r]
      <4>1. Return([proc EXCEPT ![p].left = 0], p) = [[proc EXCEPT ![p].left = 0] EXCEPT ![p] = Returned(l)]
        BY <3>2, ReturnIs
      <4> QED BY <3>2, <3>3, <4>1 DEF Inv, ProcInv
    <3>5. /\ r \in Records /\ Sane(r, p) /\ r.state = proc[p].state /\ r.parent = proc[p].parent
          /\ r.ofile = proc[p].ofile /\ r.pend = proc[p].pend /\ r.pc = "user" /\ r.chan = NoChan
      BY <1>1, <1>2, <3>1, <3>3, Returning DEF Ready
    <3>6. PICK c \in BOOLEAN : c = (pipe[k].cut \/ m > 0)
      OBVIOUS
    <3>7. pipe' = [pipe EXCEPT ![k] = u(c)]
      <4>1. pipe' = [[pipe EXCEPT ![k].n = @ + m] EXCEPT ![k].cut = (pipe[k].cut \/ m > 0)]
        BY <2>3, <2>10 DEF Inv, PipeInv, PageRecs
      <4> QED BY <2>7, <3>6, <4>1
    <3>8. OpenSame /\ LocksKept /\ pipe'[k] = u(c) /\ \A x \in Pipes \ {k} : pipe'[x] = pipe[x]
      BY <2>3, <2>6, <2>10, <3>7, PageUpdate
    <3>9. Full(k) => Full(k)'
      BY <2>8, <3>8 DEF Full
    <3>10. Empty(k) => Empty(k)'
      <4>1. u(c).writeopen = pipe[k].writeopen /\ u(c).n = pipe[k].n + m /\ u(c).cut = c
        BY <2>6 DEF Bytes
      <4>2. pipe[k].cut \/ m > 0 => u(c).cut
        BY <3>6, <4>1
      <4>3. pipe[k].n = 0 => m > 0
        BY <2>4, <2>5, <2>10, Constants
      <4> QED BY <3>8, <4>1, <4>2, <4>3 DEF Empty
    <3>11. Rouses(p)
      BY <3>8, <3>9, <3>10, PageRouses
    <3>12. Alike(p) /\ proc'[p] = r
      BY <2>10, <3>4, <3>5, Update DEF Inv
    <3>13. Standing(p)'
      BY <3>5, <3>12, UserStands
    <3> QED BY <1>1, <3>5, <3>8, <3>11, <3>12, <3>13, PageStep
  <2>11. ASSUME Unlocked(k), m < proc[p].left, pipe[k].readopen,
                pipe' = [[pipe EXCEPT ![k].n = @ + m] EXCEPT ![k].cut = FALSE],
                proc' = wakeup([proc EXCEPT ![p].left = @ - m, ![p].pc = "doze"], nread(k))
        PROVE  Inv'
    <3> DEFINE r == [proc[p] EXCEPT !.left = @ - m, !.pc = "doze"]
    <3>1. /\ r \in Records /\ r.state = proc[p].state /\ r.chan = NoChan /\ r.pend = proc[p].pend /\ r.p = proc[p].p
          /\ r.todo = proc[p].todo /\ r.ofile = proc[p].ofile /\ r.parent = proc[p].parent /\ r.pc = "doze"
      BY <1>1, <2>5 DEF Ready, Records
    <3>2. [proc EXCEPT ![p].left = @ - m, ![p].pc = "doze"] = [proc EXCEPT ![p] = r]
      BY DEF Inv, ProcInv
    <3> HIDE DEF r
    <3>3. Sane(r, p)
      BY <1>1, <3>1 DEF Sane, Sleeps, Ready
    <3>4. nread(k) = Waiters(k, TRUE) /\ Waiters(k, TRUE) # NoChan
      BY Channels DEF Waiters
    <3>5. pipe' = [pipe EXCEPT ![k] = u(FALSE)]
      BY <2>7, <2>11
    <3>6. pipe'[k] = u(FALSE)
      BY <2>3, <2>6, <2>11, <3>5, PageUpdate
    <3>7. Full(k)'
      <4>1. u(FALSE).readopen = pipe[k].readopen /\ u(FALSE).n = pipe[k].n + m
        BY <2>6 DEF Bytes
      <4> QED BY <2>5, <2>11, <3>6, <4>1 DEF Full
    <3>8. proc' = wakeup([proc EXCEPT ![p] = r], Waiters(k, TRUE))
      BY <2>11, <3>2, <3>4
    <3>9. proc'[p].pc = "doze" /\ proc'[p].todo = proc[p].todo /\ proc'[p].ofile = proc[p].ofile
      BY <3>1, <3>4, <3>8, UpdateWake DEF Inv
    <3>10. Dozing(p)'
      BY <1>1, <1>4, <2>1, <3>7, <3>9 DEF Dozing, Next1, Full
    <3>11. PICK s : s = u(FALSE)
      OBVIOUS
    <3>12. Bytes(s, k) /\ pipe' = [pipe EXCEPT ![k] = s] /\ (Full(k) => s.readopen /\ s.n = PIPESIZE)
      BY <2>6, <2>8, <3>5, <3>11
    <3>13. PICK w \in BOOLEAN : w
      OBVIOUS
    <3>14. proc' = wakeup([proc EXCEPT ![p] = r], Waiters(k, w))
      BY <3>8, <3>13 DEF Waiters
    <3>15. Unlocked(k)
      BY <2>11
    <3> QED BY <1>1, <2>3, <3>1, <3>3, <3>10, <3>12, <3>13, <3>14, <3>15, PageReturn
  <2> QED BY <1>4, <2>1, <2>2, <2>9, <2>10, <2>11 DEF sys_write
<1> QED BY <1>3, <1>4 DEF sys_write
-----------------------------------------------------------------------------
(* The descriptors of one process that name a file, and how a step of that *)
(* process changes the holders of the file.                                *)
Named(o, f) == {d \in Fds : o[d] = f}

(* They are finitely many.                                                 *)
LEMMA NamedFinite == ASSUME NEW o, NEW f
                     PROVE  IsFiniteSet(Named(o, f)) /\ Cardinality(Named(o, f)) \in Nat
<1>1. IsFiniteSet(Fds)
  BY FS_Interval, Constants DEF Fds
<1>2. IsFiniteSet(Named(o, f))
  BY <1>1, FS_Subset DEF Named
<1> QED BY <1>2, FS_CardinalityType

(* The descriptors of the others that name the file.                       *)
Others(p, f) == {pd \in (Procs \ {p}) \X Fds : proc[pd[1]].ofile[pd[2]] = f}

(* The holders of a file are those of p and those of the others.           *)
LEMMA Split ==
  ASSUME NEW p \in Procs, NEW f
  PROVE  /\ Cardinality(Others(p, f)) \in Nat
         /\ Cardinality(Holders(f)) = Cardinality(Others(p, f)) + Cardinality(Named(proc[p].ofile, f))
<1> DEFINE A == Others(p, f)
           D == Named(proc[p].ofile, f)
           B == {p} \X D
<1>1. IsFiniteSet(Holders(f))
  BY HoldersFinite
<1>2. Holders(f) = A \cup B /\ A \cap B = {}
  <2>1. \A x : x \in Holders(f) <=> x \in A \/ x \in B
    BY DEF Holders, Others, Named
  <2>2. \A x : ~(x \in A /\ x \in B)
    BY DEF Others, Named
  <2> QED BY <2>1, <2>2
<1>3. IsFiniteSet(A)
  BY <1>1, <1>2, FS_Subset
<1>4. IsFiniteSet(D) /\ Cardinality(D) \in Nat
  BY NamedFinite
<1>5. IsFiniteSet({p}) /\ Cardinality({p}) = 1
  BY FS_Singleton
<1>6. IsFiniteSet(B) /\ Cardinality(B) = 1 * Cardinality(D)
  BY <1>4, <1>5, FS_Product
<1>7. Cardinality(A \cap B) = 0
  BY <1>2, FS_EmptySet
<1> HIDE DEF A, B, D
<1>8. Cardinality(A \cup B) = Cardinality(A) + Cardinality(B) - Cardinality(A \cap B)
  BY <1>3, <1>6, FS_Union
<1>9. Cardinality(A) \in Nat
  BY <1>3, FS_CardinalityType
<1> QED BY <1>2, <1>4, <1>6, <1>7, <1>8, <1>9 DEF A, D

(* The same as a formula, to be cited after a step.                        *)
SplitIs ==
  \A p \in Procs : \A f : Cardinality(Holders(f)) = Cardinality(Others(p, f)) + Cardinality(Named(proc[p].ofile, f))

(* It holds.                                                               *)
LEMMA SplitAll == SplitIs
BY Split DEF SplitIs

(* A step that changes the descriptors of p alone moves the count by them. *)
LEMMA SplitNext ==
  ASSUME NEW p \in Procs, NEW f, \A q \in Procs \ {p} : proc'[q].ofile = proc[q].ofile
  PROVE  /\ Cardinality(Others(p, f)) \in Nat
         /\ Cardinality(Holders(f)) = Cardinality(Others(p, f)) + Cardinality(Named(proc[p].ofile, f))
         /\ Cardinality(Holders(f)') = Cardinality(Others(p, f)) + Cardinality(Named(proc'[p].ofile, f))
<1>1. /\ Cardinality(Others(p, f)) \in Nat
      /\ Cardinality(Holders(f)) = Cardinality(Others(p, f)) + Cardinality(Named(proc[p].ofile, f))
  BY Split
<1>2. Cardinality(Holders(f)') = Cardinality(Others(p, f)') + Cardinality(Named(proc'[p].ofile, f))
  <2>1. SplitIs'
    BY SplitAll, PTL
  <2>2. Named(proc[p].ofile, f)' = Named(proc'[p].ofile, f)
    BY DEF Named
  <2> QED BY <2>1, <2>2 DEF SplitIs
<1>3. Others(p, f)' = Others(p, f)
  BY DEF Others
<1> QED BY <1>1, <1>2, <1>3

(* A descriptor is set or cleared. *)
LEMMA NamedSet ==
  ASSUME NEW o \in [Fds -> Files \cup {NoFile}], NEW d \in Fds, o[d] = NoFile, NEW g \in Files, NEW f \in Files
  PROVE  Cardinality(Named([o EXCEPT ![d] = g], f)) = Cardinality(Named(o, f)) + (IF f = g THEN 1 ELSE 0)
<1>1. NoFile \notin Files
  BY Constants
<1>2. CASE f = g
  <2>1. Named([o EXCEPT ![d] = g], f) = Named(o, f) \cup {d} /\ d \notin Named(o, f)
    BY <1>1, <1>2 DEF Named
  <2> QED BY <1>2, <2>1, NamedFinite, FS_AddElement
<1>3. CASE f # g
  <2>1. Named([o EXCEPT ![d] = g], f) = Named(o, f)
    BY <1>1, <1>3 DEF Named
  <2> QED BY <1>3, <2>1, NamedFinite
<1> QED BY <1>2, <1>3

(* A descriptor is cleared.                                                *)
LEMMA NamedCleared ==
  ASSUME NEW o \in [Fds -> Files \cup {NoFile}], NEW d \in Fds, NEW f \in Files
  PROVE  Cardinality(Named([o EXCEPT ![d] = NoFile], f))
           = Cardinality(Named(o, f)) - (IF f = o[d] THEN 1 ELSE 0)
<1>1. NoFile \notin Files
  BY Constants
<1>2. CASE f = o[d]
  <2>1. Named([o EXCEPT ![d] = NoFile], f) = Named(o, f) \ {d} /\ d \in Named(o, f)
    BY <1>1, <1>2 DEF Named
  <2> QED BY <1>2, <2>1, NamedFinite, FS_RemoveElement
<1>3. CASE f # o[d]
  <2>1. Named([o EXCEPT ![d] = NoFile], f) = Named(o, f)
    BY <1>1, <1>3 DEF Named
  <2> QED BY <1>3, <2>1, NamedFinite
<1> QED BY <1>2, <1>3

(* Who has nothing open names nothing, and the shell names the console     *)
(* three times.                                                            *)
LEMMA NamedNone ==
  /\ \A f \in Files : Cardinality(Named(NoFiles, f)) = 0
  /\ \A f \in Files : Cardinality(Named(Shell.ofile, f)) = Extra(f)
  /\ Open(Shell.ofile) = Std /\ Shell.ofile \in [Fds -> Files \cup {NoFile}]
<1>1. NoFile \notin Files /\ console \in Files /\ Std \subseteq Fds /\ NOFILE \in Nat
  BY Constants
<1>2. ASSUME NEW f \in Files PROVE Cardinality(Named(NoFiles, f)) = 0
  <2>1. Named(NoFiles, f) = {}
    BY <1>1 DEF Named, NoFiles
  <2> QED BY <2>1, FS_EmptySet
<1>3. Shell.ofile = [f \in Fds |-> IF f < 3 THEN console ELSE NoFile]
  BY DEF Shell, Unused
<1>4. \A d \in Fds : d < 3 <=> d \in Std
  BY <1>1 DEF Fds, Std
<1>5. \A d \in Fds : Shell.ofile[d] = IF d \in Std THEN console ELSE NoFile
  BY <1>3, <1>4
<1>6. Named(Shell.ofile, console) = Std
  BY <1>1, <1>5 DEF Named
<1>7. \A f \in Files \ {console} : Named(Shell.ofile, f) = {}
  BY <1>1, <1>5 DEF Named
<1>8. Cardinality(Std) = 3
  <2>1. Std = 0..2
    BY DEF Std
  <2>2. PICK a \in Int, b \in Int : a = 0 /\ b = 2
    OBVIOUS
  <2>3. Cardinality(a..b) = IF a > b THEN 0 ELSE b - a + 1
    BY FS_Interval
  <2> QED BY <2>1, <2>2, <2>3
<1>9. \A f \in Files : Cardinality(Named(Shell.ofile, f)) = Extra(f)
  BY <1>6, <1>7, <1>8, FS_EmptySet DEF Extra
<1>10. Open(Shell.ofile) = Std
  BY <1>1, <1>5 DEF Open
<1>11. Shell.ofile \in [Fds -> Files \cup {NoFile}]
  BY <1>1, <1>3
<1> QED BY <1>2, <1>9, <1>10, <1>11
-----------------------------------------------------------------------------
(* The record of a free slot.                                              *)
LEMMA UnusedIs ==
  /\ Unused \in Records /\ Idle(Unused) /\ Unused.state = "UNUSED" /\ Unused.parent = init
  /\ \A q : Sane(Unused, q)
<1>1. /\ NoFiles \in [Fds -> Files \cup {NoFile}] /\ <<>> \in Seq(Calls) /\ 0 \in 0..BYTES
      /\ NoPend \in Pends /\ NoChan \in Chans /\ <<NoFd, NoFd>> \in (Fds \cup {NoFd}) \X (Fds \cup {NoFd})
  BY Constants DEF NoFiles, NoPend, Pends, Chans
<1>2. Unused.ofile = NoFiles
  BY DEF Unused, NoFiles
<1>3. /\ Unused.chan = NoChan /\ Unused.pend = NoPend /\ Unused.pc = "user" /\ Unused.state = "UNUSED"
      /\ Unused.parent = init
  BY DEF Unused
<1>4. Unused \in Records
  BY <1>1 DEF Unused, Records, NoFiles
<1> QED BY <1>2, <1>3, <1>4 DEF Idle, Sane, Sleeps

(* wait() collects a zombie. *)
LEMMA CollectStep ==
  ASSUME Inv, NEW p \in Procs, Ready(p), Task(Onward(Tail(proc[p].todo)), Open(proc[p].ofile), proc[p].p),
         NEW z \in Zombies(p), proc' = Return([proc EXCEPT ![z] = Unused], p), UNCHANGED <<file, pipe>>
  PROVE  Inv'
<1>1. z \in Procs /\ proc[z].state = "ZOMBIE" /\ proc[z].parent = p /\ z # p
  BY DEF Zombies, Children, Ready
<1>2. Sane(proc[z], z) /\ proc \in [Procs -> Records]
  BY <1>1 DEF Inv, ProcInv
<1>3. Idle(proc[z])
  BY <1>1, <1>2 DEF Sane
<1>4. PICK r : r = Returned(proc[p])
  OBVIOUS
<1>5. /\ r \in Records /\ Sane(r, p) /\ r.state = proc[p].state /\ r.parent = proc[p].parent
      /\ r.ofile = proc[p].ofile /\ r.pend = proc[p].pend /\ r.pc = "user" /\ r.chan = NoChan
  BY <1>4, Returning DEF Ready
<1> DEFINE P == [proc EXCEPT ![z] = Unused]
<1>6. P \in [Procs -> Records] /\ P[p] = proc[p] /\ P[z] = Unused /\ \A q \in Procs \ {z} : P[q] = proc[q]
  BY <1>1, <1>2, UnusedIs
<1> HIDE DEF P
<1>7. Return(P, p) = [P EXCEPT ![p] = r]
  BY <1>4, <1>6, ReturnIs
<1>8. /\ proc' \in [Procs -> Records] /\ proc'[p] = r /\ proc'[z] = Unused
      /\ \A q \in Procs \ {p, z} : proc'[q] = proc[q]
  BY <1>1, <1>5, <1>6, <1>7 DEF P
<1>9. Fresh(z)
  BY <1>1, <1>8, UnusedIs DEF Fresh, Idle
<1>10. Framed(p)
  BY <1>8, <1>9 DEF Framed, SameBut
<1>11. \A q \in Procs : proc'[q].ofile = proc[q].ofile /\ proc'[q].pend = proc[q].pend
  BY <1>3, <1>5, <1>8, UnusedIs DEF Idle
<1>12. ASSUME NEW q \in Procs \ {p}, proc'[q].chan = child(q)
       PROVE  Zombies(q)' = {} /\ Children(q)' # {}
  <2>1. q # z
    BY <1>8, <1>12, UnusedIs, Channels DEF Idle
  <2>2. proc[q].chan = child(q)
    BY <1>8, <1>12, <2>1
  <2>3. Zombies(q) = {} /\ Children(q) # {}
    BY <2>2 DEF Inv, Standing, Waiting
  <2>4. ASSUME NEW x \in Procs
        PROVE  (x \in Children(q)' <=> x \in Children(q)) /\ (x \in Zombies(q)' => x \in Zombies(q))
    <3>1. CASE x = z
      BY <1>1, <1>8, <3>1, UnusedIs DEF Zombies, Children
    <3>2. CASE x # z
      <4>1. proc'[x].state = proc[x].state /\ proc'[x].parent = proc[x].parent
        BY <1>5, <1>8, <3>2
      <4> QED BY <4>1 DEF Zombies, Children
    <3> QED BY <3>1, <3>2
  <2>5. Children(q)' = Children(q) /\ Zombies(q)' = {}
    BY <2>3, <2>4 DEF Zombies, Children
  <2> QED BY <2>3, <2>4, <2>5
<1>13. KidsKept(p)
  BY <1>12 DEF KidsKept
<1>14. Standing(p)' /\ Sane(proc'[p], p)
  BY <1>5, <1>8, UserStands
<1>15. FileInv' /\ PipeInv'
  BY <1>11, FilesSame, PipesSame, PageSame, FileSame DEF Inv
<1>16. HeldKept(p) /\ LocksKept /\ Rouses(p)
  BY FileSame, PageSame, RousesNone DEF Inv
<1> QED BY <1>10, <1>13, <1>14, <1>15, <1>16, StepInv

(* wait() collects a zombie, fails without children, or goes to sleep.     *)
LEMMA WaitStep ==
  ASSUME Inv, NEW p \in Procs, wait(p)
  PROVE  Inv'
<1>1. Ready(p) /\ Head(proc[p].todo).op = "wait" /\ UNCHANGED <<file, pipe>>
  BY AtReady, InReady DEF wait
<1>2. Task(Onward(Tail(proc[p].todo)), Open(proc[p].ofile), proc[p].p)
  BY <1>1 DEF Ready, Leads
<1>3. CASE Zombies(p) # {}
  <2>1. Zombies(p) \in SUBSET Nat
    BY DEF Zombies, Children, Procs
  <2>2. PICK z \in Zombies(p) : z = Min(Zombies(p))
    BY <1>3, <2>1, MinOf
  <2>3. proc' = Return([proc EXCEPT ![z] = Unused], p)
    BY <1>3, <2>2 DEF wait
  <2> QED BY <1>1, <1>2, <2>3, CollectStep
<1>4. CASE Zombies(p) = {} /\ (Children(p) = {} \/ proc[p].killed)
  <2>1. proc' = Return(proc, p)
    BY <1>4 DEF wait
  <2> QED BY <1>1, <1>2, <2>1, ReturnStep
<1>5. CASE Zombies(p) = {} /\ Children(p) # {} /\ ~proc[p].killed
  <2> DEFINE r == [proc[p] EXCEPT !.chan = child(p), !.pc = "in"]
  <2>1. proc' = [proc EXCEPT ![p] = r]
    BY <1>5 DEF wait
  <2>2. child(p) \in Chans
    BY DEF Chans
  <2>3. /\ r \in Records /\ r.state = proc[p].state /\ r.parent = proc[p].parent /\ r.ofile = proc[p].ofile
        /\ r.pend = proc[p].pend /\ r.chan = child(p) /\ r.pc = "in" /\ r.p = proc[p].p
        /\ r.todo = proc[p].todo
    BY <1>1, <2>2 DEF Ready, Records
  <2> HIDE DEF r
  <2>4. Sane(r, p)
    BY <1>1, <2>3 DEF Ready, Sane, Sleeps
  <2>5. Alike(p) /\ proc'[p] = r
    BY <2>1, <2>3, Update DEF Inv
  <2>6. Zombies(p)' = {} /\ Children(p)' # {}
    BY <1>5, <2>3, <2>5, KidsSame
  <2>7. Standing(p)'
    BY <2>3, <2>5, <2>6, Channels DEF Standing, Dozing, Reading, Writing, Waiting
  <2> QED BY <1>1, <2>1, <2>3, <2>4, <2>7, OneRecord
<1> QED BY <1>3, <1>4, <1>5

(* exit() wakes the parent, gives the children to init, and init too.      *)
LEMMA ExitStep ==
  ASSUME Inv, NEW p \in Procs, Exit(p)
  PROVE  Inv'
<1> DEFINE W == wakeup(proc, child(proc[p].parent))
           Z == [Unused EXCEPT !.state = "ZOMBIE", !.parent = proc[p].parent]
<1>1. proc \in [Procs -> Records] /\ proc[p].parent \in Procs \cup {init}
  BY DEF Inv, ProcInv, Records
<1>2. proc[p].pend = NoPend /\ proc[p].chan = NoChan /\ proc[p].state = "LIVE" /\ UNCHANGED <<file, pipe>>
  BY DEF Exit, Exiting, Live
<1>3. proc[p].ofile = NoFiles
  <2>1. proc[p].ofile \in [Fds -> Files \cup {NoFile}]
    BY <1>1 DEF Records
  <2>2. \A d \in Fds : proc[p].ofile[d] = NoFile
    BY DEF Exit, OpenFds, FreeFds
  <2> QED BY <2>1, <2>2 DEF NoFiles
<1>4. /\ Z \in Records /\ Z.state = "ZOMBIE" /\ Z.parent = proc[p].parent /\ Z.ofile = NoFiles
      /\ Z.chan = NoChan /\ Z.pend = NoPend /\ Z.pc = "user"
  <2>1. PICK u \in Records : u = Unused
    BY UnusedIs
  <2>2. /\ [u EXCEPT !.state = "ZOMBIE", !.parent = proc[p].parent] \in Records
        /\ [u EXCEPT !.state = "ZOMBIE", !.parent = proc[p].parent].state = "ZOMBIE"
        /\ [u EXCEPT !.state = "ZOMBIE", !.parent = proc[p].parent].parent = proc[p].parent
        /\ [u EXCEPT !.state = "ZOMBIE", !.parent = proc[p].parent].ofile = u.ofile
        /\ [u EXCEPT !.state = "ZOMBIE", !.parent = proc[p].parent].chan = u.chan
        /\ [u EXCEPT !.state = "ZOMBIE", !.parent = proc[p].parent].pend = u.pend
        /\ [u EXCEPT !.state = "ZOMBIE", !.parent = proc[p].parent].pc = u.pc
    BY <1>1 DEF Records
  <2> QED BY <2>1, <2>2, UnusedIs DEF Idle
<1>5. /\ proc' = [q \in Procs |-> IF q = p THEN Z
                                  ELSE IF W[q].parent = p THEN [W[q] EXCEPT !.parent = init] ELSE W[q]]
  BY DEF Exit
<1>6. Woken(W, proc, child(proc[p].parent))
  BY <1>1, Wakes
<1> HIDE DEF W, Z
<1>7. ASSUME NEW q \in Procs \ {p}
      PROVE  /\ proc'[q] \in Records /\ SameBut(q)
             /\ proc'[q].parent = IF proc[q].parent = p THEN init ELSE proc[q].parent
             /\ proc'[q].chan = IF proc[q].chan = child(proc[p].parent) THEN NoChan ELSE proc[q].chan
  <2>1. PICK x \in Records : x = W[q]
    BY <1>6 DEF Woken
  <2>2. /\ x.state = proc[q].state /\ x.killed = proc[q].killed
        /\ x.ofile = proc[q].ofile /\ x.p = proc[q].p
        /\ x.todo = proc[q].todo /\ x.pc = proc[q].pc
        /\ x.pend = proc[q].pend /\ x.parent = proc[q].parent
        /\ x.chan = IF proc[q].chan = child(proc[p].parent) THEN NoChan ELSE proc[q].chan
    BY <1>6, <2>1 DEF Woken
  <2>3. proc'[q] = IF x.parent = p THEN [x EXCEPT !.parent = init] ELSE x
    BY <1>5, <2>1
  <2>4. PICK y : y = [x EXCEPT !.parent = init]
    OBVIOUS
  <2>5. /\ y \in Records /\ y.parent = init /\ y.state = x.state /\ y.killed = x.killed
        /\ y.ofile = x.ofile /\ y.p = x.p /\ y.todo = x.todo /\ y.pc = x.pc /\ y.pend = x.pend
        /\ y.chan = x.chan
    BY <2>1, <2>4 DEF Records
  <2>6. CASE x.parent = p
    <3>1. proc'[q] = y
      BY <2>3, <2>4, <2>6
    <3>2. y.chan \in {proc[q].chan, NoChan}
      BY <2>2, <2>5
    <3> QED BY <2>2, <2>5, <2>6, <3>1, <3>2 DEF SameBut
  <2>7. CASE x.parent # p
    <3>1. proc'[q] = x
      BY <2>3, <2>7
    <3>2. x.chan \in {proc[q].chan, NoChan}
      BY <2>2
    <3> QED BY <2>1, <2>2, <2>7, <3>1, <3>2 DEF SameBut
  <2> QED BY <2>6, <2>7
<1>8. proc'[p] = Z
  BY <1>5
<1>9. proc' \in [Procs -> Records]
  <2>1. \A q \in Procs : proc'[q] \in Records
    BY <1>4, <1>7, <1>8
  <2>2. DOMAIN proc' = Procs /\ proc' = [q \in DOMAIN proc' |-> proc'[q]]
    BY <1>5
  <2> QED BY <2>1, <2>2
<1>10. Frame(p) /\ Framed(p)
  BY <1>7, <1>9 DEF Frame, Framed
<1>11. \A q \in Procs : proc'[q].ofile = proc[q].ofile /\ proc'[q].pend = proc[q].pend
  BY <1>2, <1>3, <1>4, <1>8, <1>10, ProcSame
<1>12. Sane(proc'[p], p)
  BY <1>4, <1>8 DEF Sane, Idle, Sleeps
<1>13. ASSUME NEW q \in Procs \ {p}, proc'[q].chan = child(q)
       PROVE  Zombies(q)' = {} /\ Children(q)' # {}
  <2>1. proc[q].chan = child(q) /\ child(q) # child(proc[p].parent)
    BY <1>7, <1>13, Channels
  <2>2. proc[p].parent # q /\ init # q
    BY <2>1, Constants
  <2>3. Zombies(q) = {} /\ Children(q) # {}
    BY <2>1 DEF Inv, Standing, Waiting
  <2>4. ASSUME NEW x \in Procs
        PROVE  x \in Zombies(q)' => x \in Zombies(q)
    <3>1. CASE x = p
      BY <1>4, <1>8, <2>2, <3>1 DEF Zombies, Children
    <3>2. CASE x # p
      <4>1. proc'[x].state = proc[x].state
        BY <1>7, <3>2 DEF SameBut
      <4> QED BY <1>7, <2>2, <3>2, <4>1 DEF Zombies, Children
    <3> QED BY <3>1, <3>2
  <2>5. PICK x \in Procs : proc[x].parent = q /\ proc[x].state # "UNUSED"
    BY <2>3 DEF Children
  <2>6. x \in Children(q)'
    <3>1. x # p
      BY <2>2, <2>5
    <3>2. proc'[x].state = proc[x].state
      BY <1>7, <3>1 DEF SameBut
    <3> QED BY <1>7, <2>5, <3>1, <3>2 DEF Children
  <2> QED BY <2>3, <2>4, <2>6 DEF Zombies, Children
<1>14. KidsKept(p)
  BY <1>13 DEF KidsKept
<1>15. Standing(p)'
  BY <1>4, <1>8, UserStands
<1>16. FileInv' /\ PipeInv'
  BY <1>2, <1>11, FilesSame, PipesSame, PageSame, FileSame DEF Inv
<1>17. HeldKept(p) /\ LocksKept /\ Rouses(p)
  BY <1>2, FileSame, PageSame, RousesNone DEF Inv
<1> QED BY <1>10, <1>12, <1>14, <1>15, <1>16, <1>17, StepInv
-----------------------------------------------------------------------------
(* If r counts x among others, and s - r is y - x, then s counts y.        *)
LEMMA Sums ==
  ASSUME NEW a \in Nat, NEW x \in Nat, NEW y \in Nat, NEW r \in Nat, NEW s \in Nat, NEW e \in Nat,
         r = (a + x) + e, s + x = r + y
  PROVE  s = (a + y) + e
OBVIOUS

(* The count stays exact if a step moves the references of each file as it *)
(* moves the descriptors of p.                                             *)
LEMMA RefsStep ==
  ASSUME FileInv, NEW p \in Procs, \A q \in Procs \ {p} : proc'[q].ofile = proc[q].ofile,
         file' \in [Files -> FileRecs],
         \A f \in Files :
           /\ file'[f].ref + Cardinality(Named(proc[p].ofile, f))
                = file[f].ref + Cardinality(Named(proc'[p].ofile, f))
           /\ file'[f].ref = 0 <=> file'[f].type = "NONE"
           /\ IF file'[f].type = "PIPE" THEN file'[f].pipe \in Pipes ELSE file'[f].pipe = NoPipe,
         file'[console].type = "INODE"
  PROVE  FileInv'
<1>1. ASSUME NEW f \in Files PROVE file'[f].ref = Cardinality(Holders(f)') + Extra(f)
  <2>1. /\ Cardinality(Others(p, f)) \in Nat
        /\ Cardinality(Holders(f)) = Cardinality(Others(p, f)) + Cardinality(Named(proc[p].ofile, f))
        /\ Cardinality(Holders(f)') = Cardinality(Others(p, f)) + Cardinality(Named(proc'[p].ofile, f))
    BY SplitNext
  <2>2. Cardinality(Named(proc[p].ofile, f)) \in Nat /\ Cardinality(Named(proc'[p].ofile, f)) \in Nat
    BY NamedFinite
  <2>3. file'[f].ref \in Nat /\ file[f].ref \in Nat /\ Extra(f) \in Nat
    BY DEF FileInv, FileRecs, Extra
  <2>4. file[f].ref = Cardinality(Holders(f)) + Extra(f)
    BY DEF FileInv
  <2>5. file'[f].ref + Cardinality(Named(proc[p].ofile, f)) = file[f].ref + Cardinality(Named(proc'[p].ofile, f))
    OBVIOUS
  <2>6. PICK a \in Nat, x \in Nat, y \in Nat, r \in Nat, s \in Nat, e \in Nat :
          /\ a = Cardinality(Others(p, f)) /\ x = Cardinality(Named(proc[p].ofile, f))
          /\ y = Cardinality(Named(proc'[p].ofile, f)) /\ r = file[f].ref /\ s = file'[f].ref /\ e = Extra(f)
    BY <2>1, <2>2, <2>3
  <2>7. r = (a + x) + e /\ s + x = r + y
    BY <2>1, <2>4, <2>5, <2>6, Zenon
  <2>8. s = (a + y) + e
    BY <2>7, Sums
  <2> QED BY <2>1, <2>6, <2>8, Zenon
<1> QED BY <1>1 DEF FileInv

(* A slot that was not in use, or a zombie's, gets a new record. *)
KidsOf(p, z) == \A q \in Procs \ {p} : (proc[z].state # "UNUSED" => proc[z].parent # q)
                                       /\ (proc'[z].state # "UNUSED" => proc'[z].parent # q)

(* Sleepers in wait() are not concerned by a slot that is nobody's child   *)
(* but p's.                                                                *)
LEMMA SlotKids ==
  ASSUME Inv, NEW p, NEW z \in Procs, KidsOf(p, z), proc'[z].chan = NoChan,
         \A q \in Procs \ {z} : /\ proc'[q].state = proc[q].state /\ proc'[q].parent = proc[q].parent
                                /\ proc'[q].chan \in {proc[q].chan, NoChan}
  PROVE  KidsKept(p)
<1> SUFFICES ASSUME NEW q \in Procs \ {p}, proc'[q].chan = child(q)
             PROVE  Zombies(q)' = {} /\ Children(q)' # {}
  BY DEF KidsKept
<1>1. proc[q].chan = child(q)
  BY Channels
<1>2. Zombies(q) = {} /\ Children(q) # {}
  BY <1>1 DEF Inv, Standing, Waiting
<1>3. ASSUME NEW x \in Procs
      PROVE  (x \in Children(q)' <=> x \in Children(q)) /\ (x \in Zombies(q)' => x \in Zombies(q))
  <2>1. CASE x = z
    BY <2>1 DEF Zombies, Children, KidsOf
  <2>2. CASE x # z
    BY <2>2 DEF Zombies, Children
  <2> QED BY <2>1, <2>2
<1> QED BY <1>2, <1>3 DEF Zombies, Children

(* The record of the shell that init starts.                               *)
LEMMA ShellIs ==
  /\ Shell \in Records /\ Sane(Shell, shell) /\ Shell.state = "LIVE" /\ Shell.parent = init
  /\ Shell.chan = NoChan /\ Shell.pend = NoPend /\ Shell.pc = "user"
<1>1. PICK u \in Records : u = Unused
  BY UnusedIs
<1>2. PICK o : o = Shell.ofile
  OBVIOUS
<1>3. o \in [Fds -> Files \cup {NoFile}] /\ Open(o) = Std
  BY <1>2, NamedNone
<1>4. Shell = [u EXCEPT !.state = "LIVE", !.ofile = o]
  BY <1>1, <1>2 DEF Shell, Unused
<1>5. /\ Shell \in Records /\ Shell.state = "LIVE" /\ Shell.parent = u.parent
      /\ Shell.chan = u.chan /\ Shell.pend = u.pend /\ Shell.pc = u.pc /\ Shell.todo = u.todo
  BY <1>1, <1>3, <1>4 DEF Records
<1>6. u.todo = <<>>
  BY <1>1 DEF Unused
<1>7. Task(Shell.todo, Open(Shell.ofile), Shell.p)
  BY <1>2, <1>3, <1>5, <1>6 DEF Task, Plain
<1>8. /\ Shell.parent = init /\ Shell.chan = NoChan /\ Shell.pend = NoPend /\ Shell.pc = "user"
  BY <1>1, <1>5, UnusedIs DEF Idle
<1>9. Sane(Shell, shell)
  BY <1>5, <1>7, <1>8 DEF Sane, Sleeps
<1> QED BY <1>5, <1>8, <1>9

(* init collects an orphan, or starts a shell when its shell has died.     *)
LEMMA InitStep ==
  ASSUME Inv, NEW q \in Procs, InitWaits(q)
  PROVE  Inv'
<1>1. proc[q].state = "ZOMBIE" /\ proc[q].parent = init /\ UNCHANGED pipe
  BY DEF InitWaits, Zombies, Children
<1>2. Idle(proc[q])
  BY <1>1 DEF Inv, ProcInv, Sane
<1>3. PICK r : r = IF q = shell THEN Shell ELSE Unused
  OBVIOUS
<1>4. proc' = [proc EXCEPT ![q] = r]
  BY <1>3 DEF InitWaits
<1>5. /\ r \in Records /\ Sane(r, q) /\ r.parent = init
      /\ r.chan = NoChan /\ r.pend = NoPend /\ r.pc = "user"
  BY <1>3, ShellIs, UnusedIs DEF Idle
<1>6. Alike(q) /\ proc'[q] = r /\ \A x \in Procs \ {q} : proc'[x] = proc[x]
  BY <1>4, <1>5, Update DEF Inv
<1>7. Framed(q)
  BY <1>6 DEF Alike, Frame, Framed
<1>8. init \notin Procs
  BY Constants
<1>9. KidsOf(q, q)
  BY <1>1, <1>5, <1>6, <1>8 DEF KidsOf
<1>10. KidsKept(q)
  BY <1>5, <1>6, <1>9, SlotKids
<1>11. Standing(q)' /\ Sane(proc'[q], q)
  BY <1>5, <1>6, UserStands
<1>12. file \in [Files -> FileRecs] /\ console \in Files /\ file[console].type = "INODE"
  BY Constants DEF Inv, FileInv
<1>13. EndsSame /\ HeldKept(q) /\ FileInv'
  <2>1. CASE q # shell
    <3>1. file' = file
      BY <2>1 DEF InitWaits
    <3>2. \A x \in Procs : proc'[x].ofile = proc[x].ofile
      BY <1>2, <1>3, <1>6, <2>1, UnusedIs DEF Idle
    <3> QED BY <3>1, <3>2, FileSame, FilesSame DEF Inv
  <2>2. CASE q = shell
    <3>1. file' = [file EXCEPT ![console].ref = @ + 3]
      BY <2>2 DEF InitWaits
    <3>2. /\ file' \in [Files -> FileRecs]
          /\ \A f \in Files : /\ file'[f].ref = file[f].ref + Extra(f) /\ file'[f].type = file[f].type
                              /\ file'[f].pipe = file[f].pipe /\ file'[f].writable = file[f].writable
      BY <1>12, <3>1 DEF FileRecs, Extra
    <3>3. EndsSame
      BY <3>2 DEF EndsSame
    <3>4. HeldKept(q)
      <4> SUFFICES ASSUME NEW x \in Procs \ {q}, NEW d \in Fds, proc[x].ofile[d] # NoFile
                   PROVE  LET f == proc[x].ofile[d] IN file'[f].type = file[f].type /\ file'[f].pipe = file[f].pipe
        BY DEF HeldKept
      <4>1. proc[x].ofile[d] \in Files
        BY DEF Inv, ProcInv, Records
      <4> QED BY <3>2, <4>1
    <3>5. ASSUME NEW f \in Files
          PROVE  /\ file'[f].ref + Cardinality(Named(proc[q].ofile, f))
                      = file[f].ref + Cardinality(Named(proc'[q].ofile, f))
                 /\ file'[f].ref = 0 <=> file'[f].type = "NONE"
                 /\ IF file'[f].type = "PIPE" THEN file'[f].pipe \in Pipes ELSE file'[f].pipe = NoPipe
      <4>1. Cardinality(Named(proc[q].ofile, f)) = 0 /\ Cardinality(Named(proc'[q].ofile, f)) = Extra(f)
        BY <1>2, <1>3, <1>6, <2>2, NamedNone DEF Idle
      <4>2. file[f].ref \in Nat /\ file'[f].ref = file[f].ref + Extra(f)
        BY <1>12, <3>2 DEF FileRecs
      <4>3. (file[f].ref = 0 <=> file[f].type = "NONE")
            /\ (IF file[f].type = "PIPE" THEN file[f].pipe \in Pipes ELSE file[f].pipe = NoPipe)
        BY DEF Inv, FileInv
      <4>4. f = console => file[f].type # "NONE"
        BY <1>12
      <4>5. f # console => Extra(f) = 0
        BY DEF Extra
      <4>6. Extra(f) \in Nat
        BY DEF Extra
      <4> QED BY <3>2, <4>1, <4>2, <4>3, <4>4, <4>5, <4>6
    <3>6. FileInv'
      BY <1>6, <1>12, <3>2, <3>5, RefsStep DEF Inv
    <3> QED BY <3>3, <3>4, <3>6
  <2> QED BY <2>1, <2>2
<1>14. PipeInv'
  <2>1. \A x \in Procs : proc'[x].pend = proc[x].pend
    BY <1>2, <1>5, <1>6 DEF Idle
  <2> QED BY <1>1, <1>13, <2>1, PipesSame, PageSame DEF Inv
<1>15. LocksKept /\ Rouses(q)
  BY <1>1, PageSame, RousesNone DEF Inv
<1> QED BY <1>7, <1>10, <1>11, <1>13, <1>14, <1>15, StepInv
-----------------------------------------------------------------------------
(* The record of a fork()'s child. *)
Forked(p, t) == [Unused EXCEPT !.state = "LIVE", !.parent = p, !.ofile = proc[p].ofile,
                               !.p = proc[p].p, !.todo = t]

(* That record is sane.                                                    *)
LEMMA ForkedIs ==
  ASSUME NEW p \in Procs, proc[p] \in Records, NEW t, Task(t, Open(proc[p].ofile), proc[p].p), NEW q
  PROVE  /\ Forked(p, t) \in Records /\ Sane(Forked(p, t), q) /\ Forked(p, t).state = "LIVE"
         /\ Forked(p, t).parent = p /\ Forked(p, t).chan = NoChan /\ Forked(p, t).pend = NoPend
         /\ Forked(p, t).pc = "user" /\ Forked(p, t).ofile = proc[p].ofile
<1>1. PICK u \in Records : u = Unused
  BY UnusedIs
<1>2. PICK o : o = proc[p].ofile
  OBVIOUS
<1>3. PICK x : x = proc[p].p
  OBVIOUS
<1>4. o \in [Fds -> Files \cup {NoFile}] /\ x \in (Fds \cup {NoFd}) \X (Fds \cup {NoFd})
  BY <1>2, <1>3 DEF Records
<1>5. t \in Seq(Calls)
  BY TaskType
<1>6. PICK r : r = [u EXCEPT !.state = "LIVE", !.parent = p, !.ofile = o, !.p = x, !.todo = t]
  OBVIOUS
<1>7. /\ r \in Records /\ r.state = "LIVE" /\ r.parent = p /\ r.chan = u.chan /\ r.pend = u.pend
      /\ r.pc = u.pc /\ r.ofile = o /\ r.p = x /\ r.todo = t
  BY <1>1, <1>4, <1>5, <1>6 DEF Records
<1>8. r = Forked(p, t)
  BY <1>1, <1>2, <1>3, <1>6 DEF Forked
<1>9. r.chan = NoChan /\ r.pend = NoPend /\ r.pc = "user"
  BY <1>1, <1>7, UnusedIs DEF Idle
<1>10. Sane(r, q)
  BY <1>2, <1>3, <1>7, <1>9 DEF Sane, Sleeps
<1> QED BY <1>2, <1>7, <1>8, <1>9, <1>10

(* fork() dups every descriptor: a reference more for each.                *)
LEMMA ForkStep ==
  ASSUME Inv, NEW p \in Procs, ForkOk(p)
  PROVE  Inv'
<1>1. Ready(p) /\ Head(proc[p].todo).op = "fork"
  BY AtReady DEF ForkOk
<1>2. PICK t : t = Onward(ForkChild(Next1(p).fd, Next1(p).cmd))
  OBVIOUS
<1>3. /\ Task(Onward(Tail(proc[p].todo)), Open(proc[p].ofile), proc[p].p)
      /\ Task(t, Open(proc[p].ofile), proc[p].p)
  BY <1>1, <1>2 DEF Ready, Leads, Next1
<1>4. PICK q \in FreeSlots : q = Min(FreeSlots)
  <2>1. FreeSlots \in SUBSET Nat
    BY DEF FreeSlots, Procs
  <2> QED BY <2>1, MinOf DEF ForkOk
<1>5. q \in Procs /\ proc[q].state = "UNUSED" /\ q # p
  BY <1>1 DEF FreeSlots, Ready
<1>6. Idle(proc[q]) /\ proc \in [Procs -> Records]
  BY <1>5 DEF Inv, ProcInv, Sane
<1>7. PICK c : c = Forked(p, t)
  OBVIOUS
<1>8. /\ c \in Records /\ Sane(c, q) /\ c.state = "LIVE"
      /\ c.parent = p /\ c.chan = NoChan /\ c.pend = NoPend /\ c.pc = "user" /\ c.ofile = proc[p].ofile
  BY <1>3, <1>6, <1>7, ForkedIs
<1>9. PICK r : r = Returned(proc[p])
  OBVIOUS
<1>10. /\ r \in Records /\ Sane(r, p) /\ r.state = proc[p].state /\ r.parent = proc[p].parent
       /\ r.ofile = proc[p].ofile /\ r.pend = proc[p].pend /\ r.pc = "user" /\ r.chan = NoChan
  BY <1>1, <1>3, <1>9, Returning DEF Ready
<1> DEFINE P == [proc EXCEPT ![q] = c]
<1>11. P \in [Procs -> Records] /\ P[p] = proc[p] /\ P[q] = c /\ \A x \in Procs \ {q} : P[x] = proc[x]
  BY <1>5, <1>6, <1>8
<1>12. proc' = Return(P, p)
  BY <1>2, <1>4, <1>7 DEF ForkOk, Forked
<1> HIDE DEF P
<1>13. proc' = [P EXCEPT ![p] = r]
  BY <1>9, <1>11, <1>12, ReturnIs
<1>14. /\ proc' \in [Procs -> Records] /\ proc'[p] = r /\ proc'[q] = c
       /\ \A x \in Procs \ {p, q} : proc'[x] = proc[x]
  BY <1>5, <1>10, <1>11, <1>13
<1>15. Fresh(q)
  BY <1>5, <1>8, <1>14 DEF Fresh
<1>16. Framed(p)
  BY <1>14, <1>15 DEF Framed, SameBut
<1>17. KidsKept(p)
  <2>1. KidsOf(p, q)
    BY <1>5, <1>8, <1>14 DEF KidsOf
  <2>2. proc[p].chan = NoChan
    BY <1>1 DEF Ready
  <2>3. \A x \in Procs \ {q} : /\ proc'[x].state = proc[x].state /\ proc'[x].parent = proc[x].parent
                               /\ proc'[x].chan \in {proc[x].chan, NoChan}
    BY <1>10, <1>14, <2>2
  <2> QED BY <1>5, <1>8, <1>14, <2>1, <2>3, SlotKids
<1>18. Standing(p)' /\ Sane(proc'[p], p)
  BY <1>10, <1>14, UserStands
<1>19. file \in [Files -> FileRecs] /\ file[console].type = "INODE" /\ console \in Files
  BY Constants DEF Inv, FileInv
<1>20. \A f \in Files : Dups(p, f) = Cardinality(Named(proc[p].ofile, f)) /\ Dups(p, f) \in Nat
  BY NamedFinite DEF Dups, Named
<1>21. /\ file' \in [Files -> FileRecs]
       /\ \A f \in Files : /\ file'[f].ref = file[f].ref + Dups(p, f) /\ file'[f].type = file[f].type
                           /\ file'[f].pipe = file[f].pipe /\ file'[f].writable = file[f].writable
  <2>1. file' = [f \in Files |-> [file[f] EXCEPT !.ref = @ + Dups(p, f)]]
    BY DEF ForkOk
  <2>2. ASSUME NEW f \in Files
        PROVE  /\ file'[f] \in FileRecs
               /\ file'[f].ref = file[f].ref + Dups(p, f) /\ file'[f].type = file[f].type
               /\ file'[f].pipe = file[f].pipe /\ file'[f].writable = file[f].writable
    <3>1. PICK n \in Nat : n = Dups(p, f)
      BY <1>20
    <3>2. PICK x \in FileRecs : x = file[f]
      BY <1>19
    <3>3. file'[f] = [x EXCEPT !.ref = @ + n]
      BY <2>1, <3>1, <3>2
    <3>4. /\ [x EXCEPT !.ref = @ + n] \in FileRecs /\ [x EXCEPT !.ref = @ + n].ref = x.ref + n
          /\ [x EXCEPT !.ref = @ + n].type = x.type /\ [x EXCEPT !.ref = @ + n].pipe = x.pipe
          /\ [x EXCEPT !.ref = @ + n].writable = x.writable
      BY DEF FileRecs
    <3> QED BY <3>1, <3>2, <3>3, <3>4
  <2> QED BY <2>1, <2>2
<1>22. EndsSame
  BY <1>21 DEF EndsSame
<1>23. HeldKept(p)
  <2> SUFFICES ASSUME NEW x \in Procs \ {p}, NEW d \in Fds, proc[x].ofile[d] # NoFile
               PROVE  LET f == proc[x].ofile[d] IN file'[f].type = file[f].type /\ file'[f].pipe = file[f].pipe
    BY DEF HeldKept
  <2>1. proc[x].ofile[d] \in Files
    BY <1>6 DEF Records
  <2> QED BY <1>21, <2>1
<1>24. ASSUME NEW f \in Files
       PROVE  /\ file'[f].ref + Cardinality(Named(proc[q].ofile, f))
                    = file[f].ref + Cardinality(Named(proc'[q].ofile, f))
              /\ file'[f].ref = 0 <=> file'[f].type = "NONE"
              /\ IF file'[f].type = "PIPE" THEN file'[f].pipe \in Pipes ELSE file'[f].pipe = NoPipe
  <2>1. Cardinality(Named(proc[q].ofile, f)) = 0 /\ Cardinality(Named(proc'[q].ofile, f)) = Dups(p, f)
    BY <1>6, <1>8, <1>14, <1>20, NamedNone DEF Idle
  <2>2. file[f].ref \in Nat /\ Dups(p, f) \in Nat /\ Extra(f) \in Nat
    BY <1>19, <1>20 DEF FileRecs, Extra
  <2>3. /\ file[f].ref = 0 <=> file[f].type = "NONE"
        /\ IF file[f].type = "PIPE" THEN file[f].pipe \in Pipes ELSE file[f].pipe = NoPipe
    BY DEF Inv, FileInv
  <2>4. file[f].ref = 0 => Dups(p, f) = 0
    <3>1. file[f].ref = Cardinality(Holders(f)) + Extra(f) /\ Cardinality(Holders(f)) \in Nat
      BY HoldersFinite DEF Inv, FileInv
    <3>2. Cardinality(Holders(f)) = Cardinality(Others(p, f)) + Dups(p, f) /\ Cardinality(Others(p, f)) \in Nat
      BY <1>20, Split
    <3> QED BY <2>2, <3>1, <3>2
  <2>5. /\ file'[f].ref = file[f].ref + Dups(p, f) /\ file'[f].type = file[f].type
        /\ file'[f].pipe = file[f].pipe
    BY <1>21
  <2>6. file'[f].ref = 0 <=> file[f].ref = 0
    BY <2>2, <2>4, <2>5
  <2> QED BY <2>1, <2>2, <2>3, <2>5, <2>6
<1>25. \A x \in Procs \ {q} : proc'[x].ofile = proc[x].ofile
  BY <1>10, <1>14
<1>26. FileInv'
  BY <1>5, <1>19, <1>21, <1>24, <1>25, RefsStep DEF Inv
<1>27. PipeInv'
  <2>1. \A x \in Procs : proc'[x].pend = proc[x].pend
    BY <1>6, <1>8, <1>10, <1>14 DEF Idle
  <2> QED BY <1>22, <2>1, PipesSame, PageSame DEF Inv, ForkOk
<1>28. LocksKept /\ Rouses(p)
  BY PageSame, RousesNone DEF Inv, ForkOk
<1> QED BY <1>16, <1>17, <1>18, <1>23, <1>26, <1>27, <1>28, StepInv
-----------------------------------------------------------------------------
(* The call that changes descriptors returns. *)
Reopened(p, o, x) == [proc[p] EXCEPT !.ofile = o, !.p = x]

(* It is a record, and sane.                                               *)
Reopens(p, o, x) == \E r \in Records :
  /\ Return([proc EXCEPT ![p] = Reopened(p, o, x)], p) = [proc EXCEPT ![p] = r]
  /\ Sane(r, p) /\ r.state = proc[p].state /\ r.parent = proc[p].parent
  /\ r.ofile = o /\ r.pend = NoPend /\ r.pc = "user" /\ r.chan = NoChan

(* So it is if what is left is a task for the descriptors that are open    *)
(* then.                                                                   *)
LEMMA Reopen ==
  ASSUME Inv, NEW p \in Procs, Ready(p), NEW o \in [Fds -> Files \cup {NoFile}],
         NEW x \in (Fds \cup {NoFd}) \X (Fds \cup {NoFd}),
         Task(Onward(Tail(proc[p].todo)), Open(o), x)
  PROVE  Reopens(p, o, x)
<1>1. PICK u : u = Reopened(p, o, x)
  OBVIOUS
<1>2. /\ u \in Records /\ u.state = "LIVE" /\ u.parent = proc[p].parent /\ u.ofile = o /\ u.p = x
      /\ u.pend = NoPend /\ u.chan = NoChan /\ u.todo = proc[p].todo
  BY <1>1 DEF Reopened, Records, Ready
<1>3. PICK r : r = Returned(u)
  OBVIOUS
<1>4. /\ r \in Records /\ Sane(r, p) /\ r.state = "LIVE" /\ r.parent = u.parent
      /\ r.ofile = u.ofile /\ r.pend = u.pend /\ r.pc = "user" /\ r.chan = NoChan
  BY <1>2, <1>3, Returning
<1>5. proc \in [Procs -> Records] /\ proc[p].state = "LIVE"
  BY DEF Inv, ProcInv, Ready
<1>6. PICK P : P = [proc EXCEPT ![p] = u]
  OBVIOUS
<1>7. P \in [Procs -> Records] /\ P[p] = u
  BY <1>2, <1>5, <1>6
<1>8. Return(P, p) = [P EXCEPT ![p] = r]
  BY <1>3, <1>7, ReturnIs
<1>9. [P EXCEPT ![p] = r] = [proc EXCEPT ![p] = r]
  BY <1>5, <1>6
<1> QED BY <1>1, <1>2, <1>4, <1>5, <1>6, <1>8, <1>9 DEF Reopens

(* Files and pages may have changed; nobody is touched but the process. *)
LEMMA ReturnedStep ==
  ASSUME Inv, NEW p \in Procs, NEW r \in Records, proc' = [proc EXCEPT ![p] = r], Sane(r, p),
         r.state = proc[p].state, r.parent = proc[p].parent, r.pc = "user", r.chan = NoChan,
         HeldKept(p), LocksKept, Rouses(p), FileInv', PipeInv'
  PROVE  Inv'
<1>1. Alike(p) /\ proc'[p] = r
  BY Update DEF Inv
<1>2. KidsKept(p) /\ Framed(p)
  BY <1>1, KidsSame DEF Alike, Frame, Framed
<1>3. Standing(p)'
  BY <1>1, UserStands
<1> QED BY <1>1, <1>2, <1>3, StepInv

(* fdalloc() gives the descriptor d if all below are open.                 *)
LEMMA MinFree ==
  ASSUME NEW o, NEW d \in Fds, o[d] = NoFile, \A e \in Fds : e < d => o[e] # NoFile
  PROVE  Min(FreeFds(o)) = d
<1>1. FreeFds(o) \in SUBSET Nat /\ d \in FreeFds(o)
  BY Constants DEF FreeFds, Fds
<1>2. PICK m : m = Min(FreeFds(o))
  OBVIOUS
<1>3. m \in FreeFds(o) /\ m <= d
  BY <1>1, <1>2, MinOf
<1>4. m \in Fds /\ o[m] = NoFile /\ m \in Nat /\ d \in Nat
  BY <1>1, <1>3 DEF FreeFds
<1>5. ~(m < d)
  BY <1>4
<1> QED BY <1>2, <1>3, <1>4, <1>5

(* The second fdalloc() of sys_pipe() does so.                             *)
LEMMA MinFree2 ==
  ASSUME NEW o, NEW d \in Fds, NEW c \in Fds, o[d] = NoFile, c # d, \A e \in Fds : e < d /\ e # c => o[e] # NoFile
  PROVE  Min(FreeFds(o) \ {c}) = d
<1>1. FreeFds(o) \ {c} \in SUBSET Nat /\ d \in FreeFds(o) \ {c}
  BY Constants DEF FreeFds, Fds
<1>2. PICK m : m = Min(FreeFds(o) \ {c})
  OBVIOUS
<1>3. m \in FreeFds(o) \ {c} /\ m <= d
  BY <1>1, <1>2, MinOf
<1>4. m \in Fds /\ o[m] = NoFile /\ m \in Nat /\ d \in Nat /\ m # c
  BY <1>1, <1>3 DEF FreeFds
<1>5. ~(m < d)
  BY <1>4
<1> QED BY <1>2, <1>3, <1>4, <1>5

(* The first descriptors.                                                  *)
LEMMA Few == /\ \A d \in Fds : (d < 0 => FALSE) /\ (d < 1 => d = 0) /\ (d < 3 => d \in Std)
                               /\ (d < 4 => d \in Std \/ d = 3)
             /\ 0 \in Fds /\ 1 \in Fds /\ 2 \in Fds /\ 3 \in Fds /\ 4 \in Fds
BY Constants DEF Fds, Std, Both

(* A file that is free is named by nobody, and is not an end of a pipe. *)
LEMMA FreeFile ==
  ASSUME Inv, NEW g \in FreeFiles
  PROVE  /\ g \in Files /\ g # console /\ file[g].type = "NONE" /\ file[g].ref = 0
         /\ \A q \in Procs, d \in Fds : proc[q].ofile[d] # g
<1>1. g \in Files /\ file[g].ref = 0
  BY DEF FreeFiles
<1>2. file[g].type = "NONE" /\ file[console].type = "INODE" /\ file[g].ref = Cardinality(Holders(g)) + Extra(g)
  BY <1>1 DEF Inv, FileInv
<1>3. Cardinality(Holders(g)) \in Nat /\ Extra(g) \in Nat
  BY HoldersFinite DEF Extra
<1>4. Holders(g) = {}
  BY <1>1, <1>2, <1>3, HoldersFinite
<1>5. ASSUME NEW q \in Procs, NEW d \in Fds, proc[q].ofile[d] = g PROVE FALSE
  <2>1. <<q, d>> \in Holders(g)
    BY <1>5 DEF Holders
  <2> QED BY <1>4, <2>1
<1> QED BY <1>1, <1>2, <1>5

(* filealloc() and kalloc() give what is free.                             *)
LEMMA FreeIs ==
  /\ FreeFiles # {} => Min(FreeFiles) \in FreeFiles
  /\ Cardinality(FreeFiles) >= 2 =>
       /\ Min(FreeFiles) \in FreeFiles
       /\ Min(FreeFiles \ {Min(FreeFiles)}) \in FreeFiles \ {Min(FreeFiles)}
  /\ FreePages # {} => Min(FreePages) \in FreePages
<1>1. FreeFiles \in SUBSET Nat /\ FreePages \in SUBSET Nat
  BY DEF FreeFiles, Files, FreePages, Pipes
<1>2. FreeFiles # {} => Min(FreeFiles) \in FreeFiles
  BY <1>1, MinOf
<1>3. FreePages # {} => Min(FreePages) \in FreePages
  BY <1>1, MinOf
<1>4. ASSUME Cardinality(FreeFiles) >= 2
      PROVE  /\ Min(FreeFiles) \in FreeFiles
             /\ Min(FreeFiles \ {Min(FreeFiles)}) \in FreeFiles \ {Min(FreeFiles)}
  <2>1. PICK m : m = Min(FreeFiles)
    OBVIOUS
  <2>2. FreeFiles # {}
    BY <1>4, FS_EmptySet
  <2>3. m \in FreeFiles
    BY <1>2, <2>1, <2>2
  <2>4. FreeFiles \ {m} # {}
    <3>1. ASSUME FreeFiles \ {m} = {} PROVE FALSE
      <4>1. FreeFiles = {m}
        BY <2>3, <3>1
      <4> QED BY <1>4, <4>1, FS_Singleton
    <3> QED BY <3>1
  <2>5. FreeFiles \ {m} \in SUBSET Nat
    BY <1>1
  <2>6. Min(FreeFiles \ {m}) \in FreeFiles \ {m}
    BY <2>4, <2>5, MinOf
  <2> QED BY <2>1, <2>3, <2>6
<1> QED BY <1>2, <1>3, <1>4
-----------------------------------------------------------------------------
(* A file of sys_open().                                                   *)
LEMMA InodeIs ==
  ASSUME NEW a \in BOOLEAN, NEW b \in BOOLEAN
  PROVE  Inode(a, b) \in FileRecs /\ Inode(a, b).ref = 1 /\ Inode(a, b).type = "INODE"
         /\ Inode(a, b).pipe = NoPipe
BY DEF Inode, FileRecs

(* sys_open() gives descriptor 0 or 1, the one closed before, or fails.    *)
LEMMA OpenStep ==
  ASSUME Inv, NEW p \in Procs, sys_open(p)
  PROVE  Inv'
<1>1. Ready(p) /\ Head(proc[p].todo).op = "open" /\ UNCHANGED pipe
  BY AtReady DEF sys_open
<1>2. ASSUME proc' = Panic(proc, p), UNCHANGED file PROVE Inv'
  BY <1>1, <1>2, PanicStep
<1>3. ASSUME FreeFiles # {}, NEW f, f = Min(FreeFiles), NEW fd, fd = Min(FreeFds(proc[p].ofile)),
             file' = [file EXCEPT ![f] = Inode(Next1(p).fd = 0, Next1(p).fd # 0)],
             proc' = Return([proc EXCEPT ![p].ofile[fd] = f], p)
      PROVE  Inv'
  <2>1. PICK d \in {0, 1} : /\ Open(proc[p].ofile) = Std \ {d}
                            /\ Task(Onward(Tail(proc[p].todo)), Std, proc[p].p)
    BY <1>1 DEF Ready, Leads
  <2>2. PICK o \in [Fds -> Files \cup {NoFile}] : o = proc[p].ofile
    BY <1>1 DEF Ready, Records
  <2>3. o[d] = NoFile /\ d \in Fds /\ \A e \in Fds : e < d => o[e] # NoFile
    <3>1. 0 \in Fds /\ 1 \in Fds /\ d \in Fds
      BY Few
    <3>2. d \notin Open(o) /\ (d = 1 => 0 \in Open(o))
      BY <2>1, <2>2 DEF Std
    <3>3. \A e \in Fds : e < d => d = 1 /\ e = 0
      BY Few
    <3> QED BY <3>1, <3>2, <3>3 DEF Open
  <2>4. fd = d
    BY <1>3, <2>2, <2>3, MinFree
  <2>5. f \in FreeFiles
    BY <1>3, FreeIs
  <2>6. /\ f \in Files /\ f # console /\ file[f].type = "NONE" /\ file[f].ref = 0
        /\ \A q \in Procs, e \in Fds : proc[q].ofile[e] # f
    BY <2>5, FreeFile
  <2>7. PICK o2 \in [Fds -> Files \cup {NoFile}] : o2 = [o EXCEPT ![d] = f]
    BY <2>6
  <2>8. Open(o2) = Std
    <3>1. \A e \in Fds : e \in Open(o2) <=> e \in Open(o) \/ e = d
      BY <2>3, <2>6, <2>7, Constants DEF Open
    <3>2. \A e \in Open(o2) : e \in Fds
      BY DEF Open
    <3> QED BY <2>1, <2>2, <3>1, <3>2, Constants DEF Std
  <2>9. proc[p].p \in (Fds \cup {NoFd}) \X (Fds \cup {NoFd}) /\ proc \in [Procs -> Records]
    BY <1>1 DEF Ready, Records, Inv, ProcInv
  <2>10. [proc EXCEPT ![p].ofile[fd] = f] = [proc EXCEPT ![p] = Reopened(p, o2, proc[p].p)]
    BY <1>1, <2>2, <2>4, <2>7, <2>9 DEF Reopened, Ready, Records
  <2>11. PICK r \in Records :
           /\ Return([proc EXCEPT ![p] = Reopened(p, o2, proc[p].p)], p) = [proc EXCEPT ![p] = r]
           /\ Sane(r, p) /\ r.state = proc[p].state /\ r.parent = proc[p].parent
           /\ r.ofile = o2 /\ r.pend = NoPend /\ r.pc = "user" /\ r.chan = NoChan
    <3>1. Task(Onward(Tail(proc[p].todo)), Open(o2), proc[p].p)
      BY <2>1, <2>8
    <3>2. Reopens(p, o2, proc[p].p)
      BY <1>1, <2>9, <3>1, Reopen
    <3> QED BY <3>2 DEF Reopens
  <2>12. proc' = [proc EXCEPT ![p] = r]
    BY <1>3, <2>10, <2>11
  <2>13. proc'[p] = r /\ \A q \in Procs \ {p} : proc'[q] = proc[q]
    BY <2>12, Update DEF Inv
  <2>14. PICK x \in FileRecs : /\ x = Inode(Next1(p).fd = 0, Next1(p).fd # 0)
                               /\ x.ref = 1 /\ x.type = "INODE" /\ x.pipe = NoPipe
    BY InodeIs
  <2>15. /\ file \in [Files -> FileRecs] /\ file' \in [Files -> FileRecs]
         /\ file'[f] = x /\ \A g \in Files \ {f} : file'[g] = file[g]
    BY <1>3, <2>6, <2>14 DEF Inv, FileInv
  <2>16. EndsSame
    BY <2>6, <2>14, <2>15 DEF EndsSame
  <2>17. HeldKept(p)
    <3> SUFFICES ASSUME NEW q \in Procs \ {p}, NEW e \in Fds, proc[q].ofile[e] # NoFile
                 PROVE  LET g == proc[q].ofile[e] IN file'[g].type = file[g].type /\ file'[g].pipe = file[g].pipe
      BY DEF HeldKept
    <3>1. proc[q].ofile[e] \in Files \ {f}
      BY <2>6, <2>9 DEF Records
    <3> QED BY <2>15, <3>1
  <2>18. ASSUME NEW g \in Files
         PROVE  /\ file'[g].ref + Cardinality(Named(proc[p].ofile, g))
                      = file[g].ref + Cardinality(Named(proc'[p].ofile, g))
                /\ file'[g].ref = 0 <=> file'[g].type = "NONE"
                /\ IF file'[g].type = "PIPE" THEN file'[g].pipe \in Pipes ELSE file'[g].pipe = NoPipe
    <3>1. Cardinality(Named(o2, g)) = Cardinality(Named(o, g)) + (IF g = f THEN 1 ELSE 0)
      <4>1. Cardinality(Named([o EXCEPT ![d] = f], g)) = Cardinality(Named(o, g)) + (IF g = f THEN 1 ELSE 0)
        BY <2>3, <2>6, NamedSet, Zenon
      <4> QED BY <2>7, <4>1, Zenon
    <3>2. Cardinality(Named(o, g)) \in Nat
      BY NamedFinite
    <3>3. /\ file[g].ref = 0 <=> file[g].type = "NONE"
          /\ IF file[g].type = "PIPE" THEN file[g].pipe \in Pipes ELSE file[g].pipe = NoPipe
      BY DEF Inv, FileInv
    <3>4. CASE g = f
      BY <2>2, <2>6, <2>11, <2>13, <2>14, <2>15, <3>1, <3>2, <3>4
    <3>5. CASE g # f
      BY <2>2, <2>11, <2>13, <2>15, <3>1, <3>2, <3>3, <3>5
    <3> QED BY <3>4, <3>5
  <2>19. file'[console].type = "INODE"
    BY <2>6, <2>15, Constants DEF Inv, FileInv
  <2>20. FileInv'
    BY <2>13, <2>15, <2>18, <2>19, RefsStep DEF Inv
  <2>21. PipeInv'
    <3>1. \A q \in Procs : proc'[q].pend = proc[q].pend
      BY <1>1, <2>11, <2>13 DEF Ready
    <3> QED BY <1>1, <2>16, <3>1, PipesSame, PageSame DEF Inv
  <2>22. LocksKept /\ Rouses(p)
    BY <1>1, PageSame, RousesNone DEF Inv
  <2> QED BY <2>11, <2>12, <2>17, <2>20, <2>21, <2>22, ReturnedStep
<1> QED BY <1>2, <1>3 DEF sys_open

(* The descriptor that a call names.                                       *)
LEMMA FdIs == \A p \in Procs : \A f : Fd(p, f) = FdOf(f, proc[p].p)
BY Ends DEF Fd, FdOf

(* A file that a descriptor names. *)
LEMMA HeldFile ==
  ASSUME Inv, NEW p \in Procs, NEW d \in Fds, proc[p].ofile[d] # NoFile
  PROVE  LET f == proc[p].ofile[d]
         IN /\ f \in Files /\ file[f].ref >= 1 + Extra(f) /\ file[f].type \in {"INODE", "PIPE"}
            /\ file[f].ref = 1 => \A q \in Procs \ {p}, e \in Fds : proc[q].ofile[e] # f
<1>1. PICK f : f = proc[p].ofile[d]
  OBVIOUS
<1>2. f \in Files
  BY <1>1 DEF Inv, ProcInv, Records
<1>3. file[f].ref = Cardinality(Holders(f)) + Extra(f) /\ (file[f].ref = 0 <=> file[f].type = "NONE")
      /\ file[f].type \in {"NONE", "INODE", "PIPE"}
  BY <1>2 DEF Inv, FileInv, FileRecs
<1>4. /\ Cardinality(Others(p, f)) \in Nat
      /\ Cardinality(Holders(f)) = Cardinality(Others(p, f)) + Cardinality(Named(proc[p].ofile, f))
  BY Split
<1>5. IsFiniteSet(Named(proc[p].ofile, f)) /\ Cardinality(Named(proc[p].ofile, f)) \in Nat
  BY NamedFinite
<1>6. Cardinality(Named(proc[p].ofile, f)) # 0
  <2>1. d \in Named(proc[p].ofile, f)
    BY <1>1 DEF Named
  <2> QED BY <1>5, <2>1, FS_EmptySet
<1>7. ASSUME file[f].ref = 1, NEW q \in Procs \ {p}, NEW e \in Fds, proc[q].ofile[e] = f PROVE FALSE
  <2>1. <<q, e>> \in Others(p, f)
    BY <1>7 DEF Others
  <2>2. IsFiniteSet(Others(p, f))
    <3>1. Others(p, f) \subseteq Holders(f)
      BY DEF Others, Holders
    <3> QED BY <3>1, HoldersFinite, FS_Subset
  <2>3. Cardinality(Others(p, f)) # 0
    BY <2>1, <2>2, FS_EmptySet
  <2>4. Extra(f) \in Nat
    BY DEF Extra
  <2> QED BY <1>3, <1>4, <1>5, <1>6, <1>7, <2>3, <2>4
<1>8. Extra(f) \in Nat
  BY DEF Extra
<1>9. file[f].ref >= 1 + Extra(f)
  BY <1>3, <1>4, <1>5, <1>6, <1>8
<1>10. file[f].type \in {"INODE", "PIPE"}
  BY <1>3, <1>8, <1>9
<1> QED BY <1>1, <1>2, <1>7, <1>9, <1>10

(* sys_dup() gives the descriptor closed before: a reference more.         *)
LEMMA DupStep ==
  ASSUME Inv, NEW p \in Procs, sys_dup(p)
  PROVE  Inv'
<1>1. Ready(p) /\ Head(proc[p].todo).op = "dup" /\ UNCHANGED pipe
  BY AtReady DEF sys_dup
<1>2. PICK c : c = Fd(p, Next1(p).fd)
  OBVIOUS
<1>3. /\ c \in Open(proc[p].ofile) /\ Task(Onward(Tail(proc[p].todo)), Both, proc[p].p)
      /\ \E d \in {0, 1} : Open(proc[p].ofile) = Both \ {d}
  BY <1>1, <1>2, FdIs DEF Ready, Leads, Next1
<1>4. PICK d \in {0, 1} : Open(proc[p].ofile) = Both \ {d}
  BY <1>3
<1>5. PICK o \in [Fds -> Files \cup {NoFile}] : o = proc[p].ofile
  BY <1>1 DEF Ready, Records
<1>6. PICK f : f = o[c]
  OBVIOUS
<1>7. c \in Fds /\ f # NoFile
  BY <1>3, <1>5, <1>6 DEF Open
<1>8. f \in Files /\ file[f].ref >= 1 + Extra(f) /\ file[f].type \in {"INODE", "PIPE"}
  BY <1>5, <1>6, <1>7, HeldFile
<1>9. o[d] = NoFile /\ d \in Fds /\ \A e \in Fds : e < d => o[e] # NoFile
  <2>1. 0 \in Fds /\ 1 \in Fds /\ d \in Fds
    BY Few
  <2>2. d \notin Open(o) /\ (d = 1 => 0 \in Open(o))
    BY <1>4, <1>5 DEF Both
  <2>3. \A e \in Fds : e < d => d = 1 /\ e = 0
    BY Few
  <2> QED BY <2>1, <2>2, <2>3 DEF Open
<1>10. Min(FreeFds(proc[p].ofile)) = d
  BY <1>5, <1>9, MinFree
<1>11. PICK o2 \in [Fds -> Files \cup {NoFile}] : o2 = [o EXCEPT ![d] = f]
  BY <1>8
<1>12. Open(o2) = Both
  <2>1. \A e \in Fds : e \in Open(o2) <=> e \in Open(o) \/ e = d
    BY <1>7, <1>9, <1>11 DEF Open
  <2>2. \A e \in Open(o2) : e \in Fds
    BY DEF Open
  <2> QED BY <1>4, <1>5, <2>1, <2>2, Constants DEF Both
<1>13. proc[p].p \in (Fds \cup {NoFd}) \X (Fds \cup {NoFd}) /\ proc \in [Procs -> Records]
  BY <1>1 DEF Ready, Records, Inv, ProcInv
<1>14. proc' = Return([proc EXCEPT ![p].ofile[d] = f], p) /\ file' = [file EXCEPT ![f].ref = @ + 1]
  BY <1>2, <1>5, <1>6, <1>10 DEF sys_dup
<1>15. [proc EXCEPT ![p].ofile[d] = f] = [proc EXCEPT ![p] = Reopened(p, o2, proc[p].p)]
  BY <1>1, <1>5, <1>11, <1>13 DEF Reopened, Ready, Records
<1>16. PICK r \in Records :
         /\ Return([proc EXCEPT ![p] = Reopened(p, o2, proc[p].p)], p) = [proc EXCEPT ![p] = r]
         /\ Sane(r, p) /\ r.state = proc[p].state /\ r.parent = proc[p].parent
         /\ r.ofile = o2 /\ r.pend = NoPend /\ r.pc = "user" /\ r.chan = NoChan
  <2>1. Task(Onward(Tail(proc[p].todo)), Open(o2), proc[p].p)
    BY <1>3, <1>12
  <2>2. Reopens(p, o2, proc[p].p)
    BY <1>1, <1>13, <2>1, Reopen
  <2> QED BY <2>2 DEF Reopens
<1>17. proc' = [proc EXCEPT ![p] = r]
  BY <1>14, <1>15, <1>16
<1>18. proc'[p] = r /\ \A q \in Procs \ {p} : proc'[q] = proc[q]
  BY <1>17, Update DEF Inv
<1>19. file \in [Files -> FileRecs]
  BY DEF Inv, FileInv
<1>20. /\ file' \in [Files -> FileRecs] /\ file'[f].ref = file[f].ref + 1 /\ file'[f].type = file[f].type
       /\ file'[f].pipe = file[f].pipe /\ file'[f].writable = file[f].writable
       /\ \A g \in Files \ {f} : file'[g] = file[g]
  BY <1>8, <1>14, <1>19 DEF FileRecs
<1>21. EndsSame /\ file'[console].type = "INODE"
  BY <1>20, Constants DEF EndsSame, Inv, FileInv
<1>22. HeldKept(p)
  <2> SUFFICES ASSUME NEW q \in Procs \ {p}, NEW e \in Fds, proc[q].ofile[e] # NoFile
               PROVE  LET g == proc[q].ofile[e] IN file'[g].type = file[g].type /\ file'[g].pipe = file[g].pipe
    BY DEF HeldKept
  <2>1. proc[q].ofile[e] \in Files
    BY <1>13 DEF Records
  <2> QED BY <1>20, <2>1
<1>23. ASSUME NEW g \in Files
       PROVE  /\ file'[g].ref + Cardinality(Named(proc[p].ofile, g))
                    = file[g].ref + Cardinality(Named(proc'[p].ofile, g))
              /\ file'[g].ref = 0 <=> file'[g].type = "NONE"
              /\ IF file'[g].type = "PIPE" THEN file'[g].pipe \in Pipes ELSE file'[g].pipe = NoPipe
  <2>1. Cardinality(Named(o2, g)) = Cardinality(Named(o, g)) + (IF g = f THEN 1 ELSE 0)
    <3>1. Cardinality(Named([o EXCEPT ![d] = f], g)) = Cardinality(Named(o, g)) + (IF g = f THEN 1 ELSE 0)
      BY <1>8, <1>9, NamedSet, Zenon
    <3> QED BY <1>11, <3>1, Zenon
  <2>2. Cardinality(Named(o, g)) \in Nat /\ file[g].ref \in Nat
    BY <1>19, NamedFinite DEF FileRecs
  <2>3. /\ file[g].ref = 0 <=> file[g].type = "NONE"
        /\ IF file[g].type = "PIPE" THEN file[g].pipe \in Pipes ELSE file[g].pipe = NoPipe
    BY DEF Inv, FileInv
  <2>4. CASE g = f
    BY <1>5, <1>8, <1>16, <1>18, <1>20, <2>1, <2>2, <2>3, <2>4
  <2>5. CASE g # f
    BY <1>5, <1>16, <1>18, <1>20, <2>1, <2>2, <2>3, <2>5
  <2> QED BY <2>4, <2>5
<1>24. FileInv'
  BY <1>18, <1>20, <1>21, <1>23, RefsStep DEF Inv
<1>25. PipeInv'
  <2>1. \A q \in Procs : proc'[q].pend = proc[q].pend
    BY <1>1, <1>16, <1>18 DEF Ready
  <2> QED BY <1>1, <1>21, <2>1, PipesSame, PageSame DEF Inv
<1>26. LocksKept /\ Rouses(p)
  BY <1>1, PageSame, RousesNone DEF Inv
<1> QED BY <1>16, <1>17, <1>22, <1>24, <1>25, <1>26, ReturnedStep
-----------------------------------------------------------------------------
(* No file is an end of a page that is not in use, or of one both of whose *)
(* ends were closed; so nobody has such a page locked.                     *)
LEMMA ShutPage ==
  ASSUME Inv, NEW k \in Pipes, ~pipe[k].readopen, ~pipe[k].writeopen
  PROVE  /\ Unlocked(k) /\ \A w \in BOOLEAN : /\ \A f \in Files : ~IsEnd(f, k, w)
                                              /\ \A q \in Procs : ~Closes(q, k, w)
         /\ \A f \in Files : file[f].type = "PIPE" => file[f].pipe # k
<1>1. \A w \in BOOLEAN : ~IsOpen(k, w)
  BY DEF IsOpen
<1>2. \A w \in BOOLEAN : /\ \A f \in Files : ~IsEnd(f, k, w)
                         /\ \A q \in Procs : ~Closes(q, k, w)
  BY <1>1 DEF Inv, PipeInv
<1>3. \A f \in Files : file[f].type = "PIPE" => file[f].pipe # k
  <2> SUFFICES ASSUME NEW f \in Files, file[f].type = "PIPE", file[f].pipe = k PROVE FALSE
    OBVIOUS
  <2>1. PICK w \in BOOLEAN : w = file[f].writable
    BY DEF Inv, FileInv, FileRecs
  <2>2. IsEnd(f, k, w)
    BY <2>1 DEF IsEnd
  <2> QED BY <1>2, <2>2
<1>4. Unlocked(k)
  <2> SUFFICES ASSUME NEW q \in Procs, proc[q].pc = "doze",
                      file[proc[q].ofile[IF Next1(q).op = "read" THEN 0 ELSE 1]].pipe = k
               PROVE  FALSE
    BY DEF Unlocked
  <2>1. proc[q] \in Records /\ Sane(proc[q], q) /\ Standing(q)
    BY DEF Inv, ProcInv
  <2>2. Head(proc[q].todo).op \in {"read", "write"}
    BY <2>1 DEF Sane
  <2>3. proc[q].ofile[0] \in Files /\ proc[q].ofile[1] \in Files
    BY <2>1, <2>2, InsideOpen
  <2>4. PICK f : f = proc[q].ofile[IF Next1(q).op = "read" THEN 0 ELSE 1]
    OBVIOUS
  <2>5. f \in Files
    BY <2>3, <2>4
  <2>6. file[f].type = "PIPE"
    BY <2>1, <2>4 DEF Standing, Dozing
  <2> QED BY <1>3, <2>4, <2>5, <2>6
<1> QED BY <1>2, <1>3, <1>4

(* A file of pipealloc().                                                  *)
LEMMA EndIs ==
  ASSUME NEW k \in Pipes, NEW w \in BOOLEAN
  PROVE  /\ End(k, w) \in FileRecs /\ End(k, w).ref = 1 /\ End(k, w).type = "PIPE"
         /\ End(k, w).pipe = k /\ End(k, w).writable = w
BY DEF End, FileRecs

(* The page k is taken, with the files rf and wf for its ends. *)
Made(k, rf, wf) ==
  /\ pipe' \in [Pipes -> PageRecs] /\ file' \in [Files -> FileRecs]
  /\ \A l \in Pipes \ {k} : pipe'[l] = pipe[l]
  /\ pipe'[k].used /\ pipe'[k].readopen /\ pipe'[k].writeopen
  /\ \A f \in Files \ {rf, wf} : file'[f] = file[f]
  /\ file'[rf].type = "PIPE" /\ file'[rf].pipe = k /\ file'[rf].writable = FALSE /\ file'[rf].ref = 1
  /\ file'[wf].type = "PIPE" /\ file'[wf].pipe = k /\ file'[wf].writable = TRUE /\ file'[wf].ref = 1

(* pipealloc() makes one file for each end of a page that was free.        *)
LEMMA MadeEnds ==
  ASSUME Inv, NEW k \in Pipes, NEW rf \in Files, NEW wf \in Files, rf # wf, ~pipe[k].used, Made(k, rf, wf),
         file[rf].type = "NONE", file[wf].type = "NONE", \A q \in Procs : proc'[q].pend = proc[q].pend
  PROVE  PipeInv'
<1>1. pipe[k] = NoPage
  BY DEF Inv, PipeInv
<1>2. ~pipe[k].readopen /\ ~pipe[k].writeopen
  BY <1>1 DEF NoPage
<1>3. \A w \in BOOLEAN : /\ \A f \in Files : ~IsEnd(f, k, w)
                         /\ \A q \in Procs : ~Closes(q, k, w)
  BY <1>2, ShutPage
<1>4. \A l \in Pipes, q \in Procs : Frees(q, l)' <=> Frees(q, l)
  BY DEF Frees
<1>5. \A l \in Pipes, w \in BOOLEAN, q \in Procs : Closes(q, l, w)' <=> Closes(q, l, w)
  BY DEF Closes
<1>6. ASSUME NEW l \in Pipes \ {k}, NEW w \in BOOLEAN
      PROVE  /\ IsOpen(l, w)' = IsOpen(l, w) /\ \A f \in Files : IsEnd(f, l, w)' <=> IsEnd(f, l, w)
             /\ EndOpen(l, w) => EndOpen(l, w)'
  <2>1. IsOpen(l, w)' = IsOpen(l, w)
    BY DEF Made, IsOpen
  <2>2. \A f \in Files : IsEnd(f, l, w)' <=> IsEnd(f, l, w)
    BY DEF Made, IsEnd
  <2>3. EndOpen(l, w) => EndOpen(l, w)'
    BY <2>2, <1>5 DEF EndOpen, IsEnd, Closes
  <2> QED BY <2>1, <2>2, <2>3
<1>7. ASSUME NEW w \in BOOLEAN
      PROVE  /\ IsOpen(k, w)' /\ EndOpen(k, w)'
             /\ \A f \in Files : IsEnd(f, k, w)' => f = (IF w THEN wf ELSE rf)
  <2>1. IsOpen(k, w)'
    BY DEF Made, IsOpen
  <2>2. EndOpen(k, w)'
    BY DEF Made, EndOpen
  <2>3. ASSUME NEW f \in Files, IsEnd(f, k, w)' PROVE f = (IF w THEN wf ELSE rf)
    <3>1. CASE f = rf \/ f = wf
      BY <2>3, <3>1 DEF Made, IsEnd
    <3>2. CASE f \notin {rf, wf}
      <4>1. IsEnd(f, k, w)
        BY <2>3, <3>2 DEF Made, IsEnd
      <4> QED BY <1>3, <4>1
    <3> QED BY <3>1, <3>2
  <2> QED BY <2>1, <2>2, <2>3
<1>8. \A q \in Procs : ~Frees(q, k)
  BY <1>1 DEF Inv, PipeInv, NoPage
<1>9. ASSUME NEW l \in Pipes
      PROVE  /\ ~pipe'[l].used => pipe'[l] = NoPage
             /\ \A w \in BOOLEAN :
                  /\ \A f \in Files : IsEnd(f, l, w)' => IsOpen(l, w)' /\ \A g \in Files : IsEnd(g, l, w)' => f = g
                  /\ \A p \in Procs : Closes(p, l, w)' => IsOpen(l, w)' /\ \A q \in Procs : Closes(q, l, w)' => p = q
                  /\ \A f \in Files, p \in Procs : ~(IsEnd(f, l, w)' /\ Closes(p, l, w)')
                  /\ IsOpen(l, w)' => EndOpen(l, w)'
             /\ \A p, q \in Procs : Frees(p, l)' /\ Frees(q, l)' => p = q
             /\ (pipe'[l].used /\ ~pipe'[l].readopen /\ ~pipe'[l].writeopen) <=> \E p \in Procs : Frees(p, l)'
  <2>1. CASE l = k
    <3>1. pipe'[k].used /\ pipe'[k].readopen
      BY DEF Made
    <3>2. \A p \in Procs : ~Frees(p, k)'
      BY <1>4, <1>8
    <3>3. \A w \in BOOLEAN, p \in Procs : ~Closes(p, k, w)'
      BY <1>3, <1>5
    <3> QED BY <1>7, <2>1, <3>1, <3>2, <3>3
  <2>2. CASE l # k
    <3>1. pipe'[l] = pipe[l]
      BY <2>2 DEF Made
    <3> QED BY <1>4, <1>5, <1>6, <2>2, <3>1 DEF Inv, PipeInv
  <2> QED BY <2>1, <2>2
<1> QED BY <1>9 DEF PipeInv, Made

(* sys_pipe() gives descriptors 3 and 4 for the two ends, or fails and     *)
(* keeps none of what it took.                                             *)
LEMMA PipeStep ==
  ASSUME Inv, NEW p \in Procs, sys_pipe(p)
  PROVE  Inv'
<1>1. Ready(p) /\ Head(proc[p].todo).op = "pipe"
  BY AtReady DEF sys_pipe
<1>2. ASSUME proc' = Panic(proc, p), UNCHANGED <<file, pipe>> PROVE Inv'
  BY <1>1, <1>2, PanicStep
<1>3. ASSUME Cardinality(FreeFiles) >= 2, FreePages # {}, NEW k, k = Min(FreePages),
             NEW rf, rf = Min(FreeFiles), NEW wf, wf = Min(FreeFiles \ {rf}),
             NEW fd0, fd0 = Min(FreeFds(proc[p].ofile)), NEW fd1, fd1 = Min(FreeFds(proc[p].ofile) \ {fd0}),
             file' = [file EXCEPT ![rf] = End(k, FALSE), ![wf] = End(k, TRUE)],
             pipe' = [pipe EXCEPT ![k] = [used |-> TRUE, n |-> 0, readopen |-> TRUE,
                                          writeopen |-> TRUE, cut |-> FALSE]],
             proc' = Return([proc EXCEPT ![p].ofile[fd0] = rf, ![p].ofile[fd1] = wf, ![p].p = <<fd0, fd1>>], p)
      PROVE  Inv'
  <2>1. Open(proc[p].ofile) = Std /\ Task(Onward(Tail(proc[p].todo)), Both, <<3, 4>>)
    BY <1>1 DEF Ready, Leads
  <2>2. PICK o \in [Fds -> Files \cup {NoFile}] : o = proc[p].ofile
    BY <1>1 DEF Ready, Records
  <2>3. \A e \in Fds : o[e] # NoFile <=> e \in Std
    BY <2>1, <2>2 DEF Open
  <2>4. fd0 = 3
    <3>1. 3 \in Fds /\ 3 \notin Std /\ \A e \in Fds : e < 3 => e \in Std
      BY Few DEF Std
    <3> QED BY <1>3, <2>2, <2>3, <3>1, MinFree
  <2>5. fd1 = 4
    <3>1. 3 \in Fds /\ 4 \in Fds /\ 4 \notin Std /\ 3 # 4 /\ \A e \in Fds : e < 4 /\ e # 3 => e \in Std
      BY Few DEF Std
    <3>2. Min(FreeFds(o) \ {3}) = 4
      BY <2>3, <3>1, MinFree2
    <3> QED BY <1>3, <2>2, <2>4, <3>2
  <2>6. rf \in FreeFiles /\ wf \in FreeFiles /\ rf # wf /\ k \in FreePages
    BY <1>3, FreeIs
  <2>7. /\ rf \in Files /\ rf # console /\ file[rf].type = "NONE" /\ file[rf].ref = 0
        /\ \A q \in Procs, e \in Fds : proc[q].ofile[e] # rf
    BY <2>6, FreeFile
  <2>8. /\ wf \in Files /\ wf # console /\ file[wf].type = "NONE" /\ file[wf].ref = 0
        /\ \A q \in Procs, e \in Fds : proc[q].ofile[e] # wf
    BY <2>6, FreeFile
  <2>9. k \in Pipes /\ ~pipe[k].used
    BY <2>6 DEF FreePages
  <2>10. PICK o1 \in [Fds -> Files \cup {NoFile}] : o1 = [o EXCEPT ![3] = rf]
    BY <2>7
  <2>11. PICK o2 \in [Fds -> Files \cup {NoFile}] : o2 = [o1 EXCEPT ![4] = wf]
    BY <2>8
  <2>12. /\ 3 \in Fds /\ 4 \in Fds /\ o[3] = NoFile /\ o1[4] = NoFile
         /\ \A e \in Fds : o2[e] = IF e = 3 THEN rf ELSE IF e = 4 THEN wf ELSE o[e]
    <3>1. 3 \in Fds /\ 4 \in Fds /\ 3 \notin Std /\ 4 \notin Std /\ 3 # 4
      BY Few DEF Std
    <3> QED BY <2>3, <2>10, <2>11, <3>1
  <2>13. Open(o2) = Both
    <3>1. \A e \in Fds : e \in Open(o2) <=> e \in Std \/ e = 3 \/ e = 4
      BY <2>3, <2>7, <2>8, <2>12, Constants DEF Open
    <3>2. \A e \in Open(o2) : e \in Fds
      BY DEF Open
    <3> QED BY <3>1, <3>2, Constants DEF Both, Std
  <2>14. PICK x \in (Fds \cup {NoFd}) \X (Fds \cup {NoFd}) : x = <<3, 4>>
    BY <2>12
  <2>15. proc \in [Procs -> Records]
    BY DEF Inv, ProcInv
  <2>16. [proc EXCEPT ![p].ofile[fd0] = rf, ![p].ofile[fd1] = wf, ![p].p = <<fd0, fd1>>]
           = [proc EXCEPT ![p] = Reopened(p, o2, x)]
    <3>1. PICK u \in Records : u = proc[p]
      BY <1>1 DEF Ready
    <3>2. [u EXCEPT !.ofile[3] = rf, !.ofile[4] = wf, !.p = x] = [u EXCEPT !.ofile = o2, !.p = x]
      BY <2>2, <2>10, <2>11, <3>1 DEF Records
    <3>3. [proc EXCEPT ![p].ofile[3] = rf, ![p].ofile[4] = wf, ![p].p = x]
            = [proc EXCEPT ![p] = [u EXCEPT !.ofile[3] = rf, !.ofile[4] = wf, !.p = x]]
      BY <2>15, <3>1
    <3> QED BY <2>4, <2>5, <2>14, <3>1, <3>2, <3>3 DEF Reopened
  <2>17. PICK r \in Records :
           /\ Return([proc EXCEPT ![p] = Reopened(p, o2, x)], p) = [proc EXCEPT ![p] = r]
           /\ Sane(r, p) /\ r.state = proc[p].state /\ r.parent = proc[p].parent
           /\ r.ofile = o2 /\ r.pend = NoPend /\ r.pc = "user" /\ r.chan = NoChan
    <3>1. Task(Onward(Tail(proc[p].todo)), Open(o2), x)
      BY <2>1, <2>13, <2>14
    <3>2. Reopens(p, o2, x)
      BY <1>1, <3>1, Reopen
    <3> QED BY <3>2 DEF Reopens
  <2>18. proc' = [proc EXCEPT ![p] = r]
    BY <1>3, <2>16, <2>17, Zenon
  <2>19. proc'[p] = r /\ \A q \in Procs \ {p} : proc'[q] = proc[q]
    BY <2>18, Update DEF Inv
  <2>20. PICK a \in FileRecs : /\ a = End(k, FALSE) /\ a.ref = 1 /\ a.type = "PIPE" /\ a.pipe = k
                               /\ a.writable = FALSE
    BY <2>9, EndIs
  <2>21. PICK b \in FileRecs : /\ b = End(k, TRUE) /\ b.ref = 1 /\ b.type = "PIPE" /\ b.pipe = k
                               /\ b.writable = TRUE
    BY <2>9, EndIs
  <2>22. PICK s \in PageRecs : /\ s = [used |-> TRUE, n |-> 0, readopen |-> TRUE, writeopen |-> TRUE, cut |-> FALSE]
                               /\ s.used /\ s.readopen /\ s.writeopen
    <3>1. 0 \in 0..PIPESIZE
      BY Constants
    <3>2. PICK s : s = [used |-> TRUE, n |-> 0, readopen |-> TRUE, writeopen |-> TRUE, cut |-> FALSE]
      OBVIOUS
    <3>3. s \in PageRecs /\ s.used /\ s.readopen /\ s.writeopen
      BY <3>1, <3>2 DEF PageRecs
    <3> QED BY <3>2, <3>3, Zenon
  <2>23. file \in [Files -> FileRecs] /\ pipe \in [Pipes -> PageRecs] /\ file[console].type = "INODE"
    BY DEF Inv, FileInv, PipeInv
  <2>24. /\ file' \in [Files -> FileRecs] /\ file'[rf] = a /\ file'[wf] = b
         /\ \A g \in Files \ {rf, wf} : file'[g] = file[g]
    <3>1. file' = [file EXCEPT ![rf] = a, ![wf] = b]
      BY <1>3, <2>20, <2>21, Zenon
    <3> QED BY <2>6, <2>7, <2>8, <2>23, <3>1
  <2>25. /\ pipe' \in [Pipes -> PageRecs] /\ pipe'[k] = s /\ \A l \in Pipes \ {k} : pipe'[l] = pipe[l]
    <3>1. pipe' = [pipe EXCEPT ![k] = s]
      BY <1>3, <2>22, Zenon
    <3> QED BY <2>9, <2>23, <3>1
  <2>26. Made(k, rf, wf)
    BY <2>20, <2>21, <2>22, <2>24, <2>25 DEF Made
  <2>27. PipeInv'
    <3>1. \A q \in Procs : proc'[q].pend = proc[q].pend
      BY <1>1, <2>17, <2>19 DEF Ready
    <3> QED BY <2>6, <2>7, <2>8, <2>9, <2>26, <3>1, MadeEnds
  <2>28. ~pipe[k].readopen /\ ~pipe[k].writeopen
    BY <2>9 DEF Inv, PipeInv, NoPage
  <2>29. LocksKept
    BY <2>9, <2>25, <2>28, ShutPage DEF LocksKept
  <2>30. Rouses(p)
    <3>1. ~Empty(k) /\ ~Full(k)
      BY <2>28 DEF Empty, Full
    <3> QED BY <2>9, <2>25, <3>1, PageRouses
  <2>31. HeldKept(p)
    <3> SUFFICES ASSUME NEW q \in Procs \ {p}, NEW e \in Fds, proc[q].ofile[e] # NoFile
                 PROVE  LET g == proc[q].ofile[e] IN file'[g].type = file[g].type /\ file'[g].pipe = file[g].pipe
      BY DEF HeldKept
    <3>1. proc[q].ofile[e] \in Files \ {rf, wf}
      BY <2>7, <2>8, <2>15 DEF Records
    <3> QED BY <2>24, <3>1
  <2>32. ASSUME NEW g \in Files
         PROVE  /\ file'[g].ref + Cardinality(Named(proc[p].ofile, g))
                      = file[g].ref + Cardinality(Named(proc'[p].ofile, g))
                /\ file'[g].ref = 0 <=> file'[g].type = "NONE"
                /\ IF file'[g].type = "PIPE" THEN file'[g].pipe \in Pipes ELSE file'[g].pipe = NoPipe
    <3>1. Cardinality(Named(o2, g)) = Cardinality(Named(o, g)) + (IF g \in {rf, wf} THEN 1 ELSE 0)
      <4>1. Cardinality(Named([o EXCEPT ![3] = rf], g)) = Cardinality(Named(o, g)) + (IF g = rf THEN 1 ELSE 0)
        BY <2>7, <2>12, NamedSet, Zenon
      <4>2. Cardinality(Named([o1 EXCEPT ![4] = wf], g)) = Cardinality(Named(o1, g)) + (IF g = wf THEN 1 ELSE 0)
        BY <2>8, <2>12, NamedSet, Zenon
      <4>3. Cardinality(Named(o1, g)) = Cardinality(Named(o, g)) + (IF g = rf THEN 1 ELSE 0)
        BY <2>10, <4>1, Zenon
      <4>4. Cardinality(Named(o2, g)) = Cardinality(Named(o1, g)) + (IF g = wf THEN 1 ELSE 0)
        BY <2>11, <4>2, Zenon
      <4>5. Cardinality(Named(o, g)) \in Nat
        BY NamedFinite
      <4> QED BY <2>6, <4>3, <4>4, <4>5
    <3>2. Cardinality(Named(o, g)) \in Nat
      BY NamedFinite
    <3>3. /\ file[g].ref = 0 <=> file[g].type = "NONE"
          /\ IF file[g].type = "PIPE" THEN file[g].pipe \in Pipes ELSE file[g].pipe = NoPipe
      BY DEF Inv, FileInv
    <3>4. CASE g \in {rf, wf}
      <4>1. /\ file'[g].ref = 1 /\ file'[g].type = "PIPE" /\ file'[g].pipe = k /\ file[g].ref = 0
        BY <2>7, <2>8, <2>20, <2>21, <2>24, <3>4
      <4> QED BY <2>2, <2>9, <2>17, <2>19, <3>1, <3>2, <3>4, <4>1
    <3>5. CASE g \notin {rf, wf}
      BY <2>2, <2>17, <2>19, <2>24, <3>1, <3>2, <3>3, <3>5
    <3> QED BY <3>4, <3>5
  <2>33. file'[console].type = "INODE"
    BY <2>7, <2>8, <2>23, <2>24, Constants
  <2>34. FileInv'
    BY <2>19, <2>24, <2>32, <2>33, RefsStep DEF Inv
  <2> QED BY <2>17, <2>18, <2>27, <2>29, <2>30, <2>31, <2>34, ReturnedStep
<1> QED BY <1>2, <1>3 DEF sys_pipe
-----------------------------------------------------------------------------
(* A file without references.                                              *)
ClosedIs == Closed \in FileRecs /\ Closed.ref = 0 /\ Closed.type = "NONE" /\ Closed.pipe = NoPipe

(* It is one.                                                              *)
LEMMA ClosedFile == ClosedIs
BY DEF Closed, FileRecs, ClosedIs

(* fileclose() of a descriptor of p; r is its record once that is cleared. *)
Clears(p, d, r) ==
  /\ r \in Records /\ Sane(r, p) /\ r.state = proc[p].state /\ r.parent = proc[p].parent
  /\ r.ofile = [proc[p].ofile EXCEPT ![d] = NoFile] /\ r.pend = NoPend /\ r.pc = "user" /\ r.chan = NoChan

(* The references after it. *)
LEMMA CloseRefs ==
  ASSUME Inv, NEW p \in Procs, NEW d \in Fds, proc[p].ofile[d] # NoFile,
         proc'[p].ofile = [proc[p].ofile EXCEPT ![d] = NoFile],
         \A q \in Procs \ {p} : proc'[q].ofile = proc[q].ofile,
         NEW f \in Files, f = proc[p].ofile[d], NEW x \in FileRecs, file' = [file EXCEPT ![f] = x],
         x.ref = file[f].ref - 1, x.ref = 0 <=> x.type = "NONE",
         IF x.type = "PIPE" THEN x.pipe \in Pipes ELSE x.pipe = NoPipe,
         f = console => x.type = "INODE"
  PROVE  FileInv'
<1>1. PICK o \in [Fds -> Files \cup {NoFile}] : o = proc[p].ofile
  BY DEF Inv, ProcInv, Records
<1>2. file \in [Files -> FileRecs] /\ file[console].type = "INODE"
  BY DEF Inv, FileInv
<1>3. file' \in [Files -> FileRecs] /\ file'[f] = x /\ \A g \in Files \ {f} : file'[g] = file[g]
  BY <1>2
<1>4. ASSUME NEW g \in Files
      PROVE  /\ file'[g].ref + Cardinality(Named(proc[p].ofile, g))
                      = file[g].ref + Cardinality(Named(proc'[p].ofile, g))
             /\ file'[g].ref = 0 <=> file'[g].type = "NONE"
             /\ IF file'[g].type = "PIPE" THEN file'[g].pipe \in Pipes ELSE file'[g].pipe = NoPipe
  <2>1. Cardinality(Named(proc'[p].ofile, g)) = Cardinality(Named(o, g)) - (IF g = o[d] THEN 1 ELSE 0)
    <3>1. Cardinality(Named([o EXCEPT ![d] = NoFile], g)) = Cardinality(Named(o, g)) - (IF g = o[d] THEN 1 ELSE 0)
      BY NamedCleared, Zenon
    <3>2. proc'[p].ofile = [o EXCEPT ![d] = NoFile]
      BY <1>1
    <3> QED BY <3>1, <3>2, Zenon
  <2>2. Cardinality(Named(o, g)) \in Nat /\ file[g].ref \in Nat /\ x.ref \in Nat
    BY <1>2, NamedFinite DEF FileRecs
  <2>3. /\ file[g].ref = 0 <=> file[g].type = "NONE"
        /\ IF file[g].type = "PIPE" THEN file[g].pipe \in Pipes ELSE file[g].pipe = NoPipe
    BY DEF Inv, FileInv
  <2>4. CASE g = f
    BY <1>1, <1>3, <2>1, <2>2, <2>4
  <2>5. CASE g # f
    BY <1>1, <1>3, <2>1, <2>2, <2>3, <2>5
  <2> QED BY <2>4, <2>5
<1>5. file'[console].type = "INODE"
  BY <1>2, <1>3, Constants
<1> QED BY <1>3, <1>4, <1>5, RefsStep DEF Inv

(* The last reference to an end of a pipe is gone, and p is to close it. *)
LEMMA LastEnd ==
  ASSUME Inv, NEW p \in Procs, NEW f \in Files, file[f].type = "PIPE",
         file' = [file EXCEPT ![f] = Closed], pipe' = pipe, proc[p].pend = NoPend,
         proc'[p].pend = [what |-> "close", pipe |-> file[f].pipe, writable |-> file[f].writable],
         \A q \in Procs \ {p} : proc'[q].pend = proc[q].pend
  PROVE  PipeInv'
<1>1. PICK k \in Pipes, w \in BOOLEAN : k = file[f].pipe /\ w = file[f].writable
  BY DEF Inv, FileInv, FileRecs
<1>2. IsEnd(f, k, w)
  BY <1>1 DEF IsEnd
<1>3. ClosedIs
  BY ClosedFile
<1>4. file'[f] = Closed /\ \A g \in Files \ {f} : file'[g] = file[g]
  BY DEF Inv, FileInv
<1>5. ASSUME NEW l \in Pipes, NEW v \in BOOLEAN
      PROVE  /\ IsOpen(l, v)' = IsOpen(l, v)
             /\ \A g \in Files : IsEnd(g, l, v)' <=> IsEnd(g, l, v) /\ g # f
             /\ \A q \in Procs : Closes(q, l, v)' <=> Closes(q, l, v) \/ (q = p /\ l = k /\ v = w)
  <2>1. IsOpen(l, v)' = IsOpen(l, v)
    BY DEF IsOpen
  <2>2. ASSUME NEW g \in Files PROVE IsEnd(g, l, v)' <=> IsEnd(g, l, v) /\ g # f
    <3>1. CASE g = f
      BY <1>3, <1>4, <3>1 DEF IsEnd, ClosedIs
    <3>2. CASE g # f
      BY <1>4, <3>2 DEF IsEnd
    <3> QED BY <3>1, <3>2
  <2>3. ASSUME NEW q \in Procs PROVE Closes(q, l, v)' <=> Closes(q, l, v) \/ (q = p /\ l = k /\ v = w)
    <3>1. CASE q = p
      <4>1. ~Closes(p, l, v)
        BY DEF Closes, NoPend
      <4>2. Closes(p, l, v)' <=> l = k /\ v = w
        BY <1>1 DEF Closes
      <4> QED BY <3>1, <4>1, <4>2
    <3>2. CASE q # p
      BY <3>2 DEF Closes
    <3> QED BY <3>1, <3>2
  <2> QED BY <2>1, <2>2, <2>3
<1>6. ASSUME NEW l \in Pipes, NEW q \in Procs PROVE Frees(q, l)' <=> Frees(q, l)
  <2>1. CASE q = p
    BY <2>1 DEF Frees, NoPend
  <2>2. CASE q # p
    BY <2>2 DEF Frees
  <2> QED BY <2>1, <2>2
<1>7. ASSUME NEW l \in Pipes, NEW v \in BOOLEAN
      PROVE  /\ \A g \in Files : IsEnd(g, l, v)' => IsOpen(l, v)' /\ \A h \in Files : IsEnd(h, l, v)' => g = h
             /\ \A x \in Procs : Closes(x, l, v)' => IsOpen(l, v)' /\ \A q \in Procs : Closes(q, l, v)' => x = q
             /\ \A g \in Files, x \in Procs : ~(IsEnd(g, l, v)' /\ Closes(x, l, v)')
             /\ IsOpen(l, v)' => EndOpen(l, v)'
  <2>1. /\ \A g \in Files : IsEnd(g, l, v) => IsOpen(l, v) /\ \A h \in Files : IsEnd(h, l, v) => g = h
        /\ \A x \in Procs : Closes(x, l, v) => IsOpen(l, v) /\ \A q \in Procs : Closes(q, l, v) => x = q
        /\ \A g \in Files, x \in Procs : ~(IsEnd(g, l, v) /\ Closes(x, l, v))
        /\ IsOpen(l, v) => EndOpen(l, v)
    BY DEF Inv, PipeInv
  <2>2. CASE l = k /\ v = w
    <3>1. IsOpen(l, v) /\ (\A x \in Procs : ~Closes(x, l, v)) /\ \A g \in Files : IsEnd(g, l, v) => g = f
      BY <1>2, <2>1, <2>2
    <3>2. Closes(p, l, v)'
      BY <1>5, <2>2
    <3>3. EndOpen(l, v)'
      BY <3>2 DEF EndOpen, Closes
    <3> QED BY <1>5, <3>1, <3>3
  <2>3. CASE ~(l = k /\ v = w)
    <3>1. ~IsEnd(f, l, v)
      BY <1>1, <2>3 DEF IsEnd
    <3>2. EndOpen(l, v) <=> (\E g \in Files : IsEnd(g, l, v)) \/ \E x \in Procs : Closes(x, l, v)
      BY DEF EndOpen, IsEnd, Closes
    <3>3. EndOpen(l, v)' <=> (\E g \in Files : IsEnd(g, l, v)') \/ \E x \in Procs : Closes(x, l, v)'
      BY DEF EndOpen, IsEnd, Closes
    <3> QED BY <1>5, <2>1, <2>3, <3>1, <3>2, <3>3
  <2> QED BY <2>2, <2>3
<1>8. ASSUME NEW l \in Pipes
      PROVE  /\ ~pipe'[l].used => pipe'[l] = NoPage
             /\ \A x, q \in Procs : Frees(x, l)' /\ Frees(q, l)' => x = q
             /\ (pipe'[l].used /\ ~pipe'[l].readopen /\ ~pipe'[l].writeopen) <=> \E x \in Procs : Frees(x, l)'
  BY <1>6 DEF Inv, PipeInv
<1>9. pipe' \in [Pipes -> PageRecs]
  BY DEF Inv, PipeInv
<1> QED BY <1>7, <1>8, <1>9 DEF PipeInv

(* fileclose() of any descriptor, whether others name the file or not.     *)
LEMMA CloseStep ==
  ASSUME Inv, NEW p \in Procs, NEW d \in Fds, proc[p].ofile[d] # NoFile, proc[p].pend = NoPend,
         NEW r, Clears(p, d, r), fileclose([proc EXCEPT ![p] = r], p, proc[p].ofile[d]), UNCHANGED pipe
  PROVE  Inv'
<1>1. PICK f : f = proc[p].ofile[d]
  OBVIOUS
<1>2. /\ f \in Files /\ file[f].ref >= 1 + Extra(f) /\ file[f].type \in {"INODE", "PIPE"}
      /\ file[f].ref = 1 => \A q \in Procs \ {p}, e \in Fds : proc[q].ofile[e] # f
  BY <1>1, HeldFile
<1>3. /\ file \in [Files -> FileRecs] /\ file[f] \in FileRecs /\ file[f].ref \in Nat
      /\ IF file[f].type = "PIPE" THEN file[f].pipe \in Pipes ELSE file[f].pipe = NoPipe
  BY <1>2 DEF Inv, FileInv, FileRecs
<1>4. r \in Records /\ proc \in [Procs -> Records]
  BY DEF Clears, Inv, ProcInv
<1>5. LocksKept /\ Rouses(p) /\ OpenSame
  BY PageSame, RousesNone DEF Inv
<1>6. f = console => file[f].ref > 1 /\ file[f].type = "INODE"
  BY <1>2, <1>3 DEF Extra, Inv, FileInv
<1>7. CASE file[f].ref > 1
  <2>1. file' = [file EXCEPT ![f].ref = @ - 1] /\ proc' = [proc EXCEPT ![p] = r]
    BY <1>1, <1>7 DEF fileclose
  <2>2. PICK x : x = [file[f] EXCEPT !.ref = @ - 1]
    OBVIOUS
  <2>3. x \in FileRecs /\ x.ref = file[f].ref - 1 /\ x.type = file[f].type /\ x.pipe = file[f].pipe
        /\ x.writable = file[f].writable
    BY <1>3, <1>7, <2>2 DEF FileRecs
  <2>4. file' = [file EXCEPT ![f] = x]
    BY <1>2, <1>3, <2>1, <2>2
  <2>5. file'[f] = x /\ \A g \in Files \ {f} : file'[g] = file[g]
    BY <1>2, <1>3, <2>4
  <2>6. EndsSame
    BY <2>3, <2>5 DEF EndsSame
  <2>7. HeldKept(p)
    <3> SUFFICES ASSUME NEW q \in Procs \ {p}, NEW e \in Fds, proc[q].ofile[e] # NoFile
                 PROVE  LET g == proc[q].ofile[e] IN file'[g].type = file[g].type /\ file'[g].pipe = file[g].pipe
      BY DEF HeldKept
    <3>1. proc[q].ofile[e] \in Files
      BY <1>4 DEF Records
    <3> QED BY <2>3, <2>5, <3>1
  <2>8. proc'[p] = r /\ \A q \in Procs \ {p} : proc'[q] = proc[q]
    BY <1>4, <2>1
  <2>9. FileInv'
    <3>1. proc'[p].ofile = [proc[p].ofile EXCEPT ![d] = NoFile]
      BY <2>8 DEF Clears
    <3>2. x.ref # 0 /\ x.type # "NONE"
      BY <1>2, <1>3, <1>7, <2>3
    <3>3. \A q \in Procs \ {p} : proc'[q].ofile = proc[q].ofile
      BY <2>8
    <3> QED BY <1>1, <1>2, <1>3, <1>6, <2>3, <2>4, <3>1, <3>2, <3>3, CloseRefs
  <2>10. PipeInv'
    <3>1. \A q \in Procs : proc'[q].pend = proc[q].pend
      BY <2>8 DEF Clears
    <3> QED BY <1>5, <2>6, <3>1, PipesSame DEF Inv
  <2> QED BY <1>4, <1>5, <2>1, <2>7, <2>9, <2>10, ReturnedStep DEF Clears
<1>8. CASE ~(file[f].ref > 1)
  <2>1. file[f].ref = 1 /\ f # console /\ \A q \in Procs \ {p}, e \in Fds : proc[q].ofile[e] # f
    BY <1>2, <1>3, <1>6, <1>8 DEF Extra
  <2>2. PICK y : y = IF file[f].type # "PIPE" THEN NoPend
                     ELSE [what |-> "close", pipe |-> file[f].pipe, writable |-> file[f].writable]
    OBVIOUS
  <2>3. y \in Pends /\ (y = NoPend \/ (y.what # "none" /\ y.pipe \in Pipes))
    BY <1>3, <2>2 DEF Pends, NoPend, FileRecs
  <2>4. PICK s : s = [r EXCEPT !.pend = y]
    OBVIOUS
  <2>5. /\ s \in Records /\ s.state = r.state /\ s.parent = r.parent /\ s.killed = r.killed /\ s.chan = r.chan
        /\ s.ofile = r.ofile /\ s.p = r.p /\ s.todo = r.todo /\ s.pc = r.pc /\ s.pend = y
    BY <1>4, <2>3, <2>4 DEF Records
  <2>6. file' = [file EXCEPT ![f] = Closed] /\ proc' = [proc EXCEPT ![p] = s]
    <3>1. file' = [file EXCEPT ![f] = Closed] /\ proc' = [[proc EXCEPT ![p] = r] EXCEPT ![p].pend = y]
      BY <1>1, <1>8, <2>2 DEF fileclose
    <3> QED BY <1>4, <2>4, <3>1
  <2>7. proc'[p] = s /\ \A q \in Procs \ {p} : proc'[q] = proc[q]
    BY <1>4, <2>5, <2>6
  <2>8. Sane(s, p)
    <3>1. r.state = "LIVE"
      <4>1. proc[p].state # "LIVE" => proc[p].ofile = NoFiles
        BY DEF Inv, ProcInv, Sane, Idle
      <4>2. proc[p].state = "LIVE"
        BY <4>1 DEF NoFiles
      <4> QED BY <4>2 DEF Clears
    <3> QED BY <2>3, <2>5, <3>1 DEF Clears, Sane, Sleeps
  <2>9. ClosedIs
    BY ClosedFile
  <2>10. file'[f] = Closed /\ \A g \in Files \ {f} : file'[g] = file[g]
    BY <1>2, <1>3, <2>6
  <2>11. HeldKept(p)
    <3> SUFFICES ASSUME NEW q \in Procs \ {p}, NEW e \in Fds, proc[q].ofile[e] # NoFile
                 PROVE  LET g == proc[q].ofile[e] IN file'[g].type = file[g].type /\ file'[g].pipe = file[g].pipe
      BY DEF HeldKept
    <3>1. proc[q].ofile[e] \in Files \ {f}
      BY <1>4, <2>1 DEF Records
    <3> QED BY <2>10, <3>1
  <2>12. FileInv'
    <3>1. proc'[p].ofile = [proc[p].ofile EXCEPT ![d] = NoFile]
      BY <2>5, <2>7 DEF Clears
    <3>2. PICK x \in FileRecs : x = Closed
      BY <2>9 DEF ClosedIs
    <3>3. /\ x.ref = file[f].ref - 1 /\ x.ref = 0 /\ x.type = "NONE" /\ x.pipe = NoPipe
          /\ file' = [file EXCEPT ![f] = x]
      BY <2>1, <2>6, <2>9, <3>2 DEF ClosedIs
    <3>4. \A q \in Procs \ {p} : proc'[q].ofile = proc[q].ofile
      BY <2>7
    <3> QED BY <1>1, <1>2, <2>1, <3>1, <3>3, <3>4, CloseRefs
  <2>13. PipeInv'
    <3>1. CASE file[f].type = "PIPE"
      <4>1. proc'[p].pend = [what |-> "close", pipe |-> file[f].pipe, writable |-> file[f].writable]
        BY <2>2, <2>5, <2>7, <3>1
      <4>2. \A q \in Procs \ {p} : proc'[q].pend = proc[q].pend
        BY <2>7
      <4> QED BY <1>2, <2>6, <3>1, <4>1, <4>2, LastEnd
    <3>2. CASE file[f].type # "PIPE"
      <4>1. EndsSame
        BY <2>9, <2>10, <3>2 DEF EndsSame, ClosedIs
      <4>2. \A q \in Procs : proc'[q].pend = proc[q].pend
        BY <2>2, <2>5, <2>7, <3>2
      <4> QED BY <1>5, <4>1, <4>2, PipesSame DEF Inv
    <3> QED BY <3>1, <3>2
  <2> QED BY <1>5, <2>5, <2>6, <2>8, <2>11, <2>12, <2>13, ReturnedStep DEF Clears
<1> QED BY <1>7, <1>8
-----------------------------------------------------------------------------
(* sys_close() and what is left after it.                                  *)
LEMMA SysCloseStep ==
  ASSUME Inv, NEW p \in Procs, sys_close(p)
  PROVE  Inv'
<1>1. Ready(p) /\ Head(proc[p].todo).op = "close" /\ UNCHANGED pipe
  BY AtReady DEF sys_close
<1>2. PICK d : d = Fd(p, Next1(p).fd)
  OBVIOUS
<1>3. d \in Open(proc[p].ofile) /\ Task(Onward(Tail(proc[p].todo)), Open(proc[p].ofile) \ {d}, proc[p].p)
  BY <1>1, <1>2, FdIs DEF Ready, Leads, Next1
<1>4. PICK o \in [Fds -> Files \cup {NoFile}] : o = proc[p].ofile
  BY <1>1 DEF Ready, Records
<1>5. d \in Fds /\ o[d] # NoFile
  BY <1>3, <1>4 DEF Open
<1>6. PICK o2 \in [Fds -> Files \cup {NoFile}] : o2 = [o EXCEPT ![d] = NoFile]
  OBVIOUS
<1>7. Open(o2) = Open(o) \ {d}
  BY <1>5, <1>6 DEF Open
<1>8. proc \in [Procs -> Records] /\ proc[p].p \in (Fds \cup {NoFd}) \X (Fds \cup {NoFd})
  BY <1>1 DEF Ready, Records, Inv, ProcInv
<1>9. [proc EXCEPT ![p].ofile[d] = NoFile] = [proc EXCEPT ![p] = Reopened(p, o2, proc[p].p)]
  BY <1>1, <1>4, <1>6, <1>8 DEF Reopened, Ready, Records
<1>10. Reopens(p, o2, proc[p].p)
  <2>1. Task(Onward(Tail(proc[p].todo)), Open(o2), proc[p].p)
    BY <1>3, <1>4, <1>7
  <2> QED BY <1>1, <1>8, <2>1, Reopen
<1>11. PICK r \in Records :
         /\ Return([proc EXCEPT ![p] = Reopened(p, o2, proc[p].p)], p) = [proc EXCEPT ![p] = r]
         /\ Sane(r, p) /\ r.state = proc[p].state /\ r.parent = proc[p].parent
         /\ r.ofile = o2 /\ r.pend = NoPend /\ r.pc = "user" /\ r.chan = NoChan
  BY <1>10 DEF Reopens
<1>12. Clears(p, d, r)
  BY <1>4, <1>6, <1>11 DEF Clears
<1>13. fileclose(Return([proc EXCEPT ![p].ofile[d] = NoFile], p), p, proc[p].ofile[d])
  BY <1>2 DEF sys_close
<1>14. Return([proc EXCEPT ![p].ofile[d] = NoFile], p) = [proc EXCEPT ![p] = r]
  BY <1>9, <1>11
<1>15. fileclose([proc EXCEPT ![p] = r], p, proc[p].ofile[d])
  BY <1>13, <1>14, Zenon
<1>16. proc[p].ofile[d] # NoFile /\ proc[p].pend = NoPend
  BY <1>1, <1>4, <1>5 DEF Ready
<1> QED BY <1>1, <1>5, <1>12, <1>15, <1>16, CloseStep

(* exit() closes what is open, one descriptor after the other.             *)
LEMMA ExitCloseStep ==
  ASSUME Inv, NEW p \in Procs, ExitClose(p)
  PROVE  Inv'
<1>1. /\ proc[p].state = "LIVE" /\ proc[p].chan = NoChan /\ proc[p].pend = NoPend /\ proc[p].pc = "user"
      /\ proc[p].killed \/ (proc[p].todo # <<>> /\ Head(proc[p].todo).op = "exit")
      /\ OpenFds(p) # {} /\ UNCHANGED pipe
  BY DEF ExitClose, Exiting, Live, Next1
<1>2. PICK d : d = Min(OpenFds(p))
  OBVIOUS
<1>3. d \in Fds /\ proc[p].ofile[d] # NoFile
  <2>1. OpenFds(p) \in SUBSET Nat
    BY DEF OpenFds, Fds
  <2>2. d \in OpenFds(p)
    BY <1>1, <1>2, <2>1, MinOf
  <2> QED BY <2>2 DEF OpenFds, FreeFds
<1>4. proc[p] \in Records /\ Sane(proc[p], p) /\ proc \in [Procs -> Records]
  BY DEF Inv, ProcInv
<1>5. PICK o \in [Fds -> Files \cup {NoFile}] : o = proc[p].ofile
  BY <1>4 DEF Records
<1>6. PICK o2 \in [Fds -> Files \cup {NoFile}] : o2 = [o EXCEPT ![d] = NoFile]
  OBVIOUS
<1>7. PICK r : r = [proc[p] EXCEPT !.ofile = o2]
  OBVIOUS
<1>8. /\ r \in Records /\ r.state = proc[p].state /\ r.parent = proc[p].parent
      /\ r.ofile = o2 /\ r.pend = proc[p].pend /\ r.pc = proc[p].pc /\ r.chan = proc[p].chan
      /\ r.todo = proc[p].todo /\ r.killed = proc[p].killed /\ r.p = proc[p].p
  BY <1>4, <1>7 DEF Records
<1>9. ~proc[p].killed => Task(r.todo, Open(o2), r.p)
  <2> SUFFICES ASSUME ~proc[p].killed PROVE Task(r.todo, Open(o2), r.p)
    OBVIOUS
  <2>1. Task(proc[p].todo, Open(proc[p].ofile), proc[p].p)
    BY <1>1, <1>4 DEF Sane
  <2>2. proc[p].todo = <<Do("exit")>>
    BY <1>1, <2>1, TaskLeads DEF Leads
  <2> QED BY <1>8, <2>2 DEF Task
<1>10. Sane(r, p)
  BY <1>1, <1>8, <1>9 DEF Sane, Sleeps
<1>11. Clears(p, d, r)
  BY <1>1, <1>5, <1>6, <1>8, <1>10 DEF Clears
<1>12. [proc EXCEPT ![p].ofile[d] = NoFile] = [proc EXCEPT ![p] = r]
  BY <1>4, <1>5, <1>6, <1>7 DEF Records
<1>13. fileclose([proc EXCEPT ![p].ofile[d] = NoFile], p, proc[p].ofile[d])
  BY <1>2 DEF ExitClose
<1>14. fileclose([proc EXCEPT ![p] = r], p, proc[p].ofile[d])
  BY <1>12, <1>13, Zenon
<1> QED BY <1>1, <1>3, <1>11, <1>14, CloseStep
-----------------------------------------------------------------------------
(* The page k changes, and with it what p has to do about it. *)
LEMMA PageShut ==
  ASSUME Inv, NEW p \in Procs, NEW k \in Pipes, NEW s \in PageRecs, pipe' = [pipe EXCEPT ![k] = s],
         file' = file, \A q \in Procs \ {p} : proc'[q].pend = proc[q].pend,
         proc[p].pend.pipe = k, proc[p].pend.what # "none",
         proc'[p].pend = NoPend \/ (proc'[p].pend.what = "kfree" /\ proc'[p].pend.pipe = k),
         ~s.used => s = NoPage,
         \A w \in BOOLEAN : (IF w THEN s.writeopen ELSE s.readopen) <=> IsOpen(k, w) /\ ~Closes(p, k, w),
         \A q \in Procs \ {p} : ~Frees(q, k),
         (s.used /\ ~s.readopen /\ ~s.writeopen) <=> proc'[p].pend.what = "kfree"
  PROVE  PipeInv'
<1>1. pipe' \in [Pipes -> PageRecs] /\ pipe'[k] = s /\ \A l \in Pipes \ {k} : pipe'[l] = pipe[l]
  BY DEF Inv, PipeInv
<1>2. \A f \in Files, l \in Pipes, w \in BOOLEAN : IsEnd(f, l, w)' <=> IsEnd(f, l, w)
  BY DEF IsEnd
<1>3. \A l \in Pipes \ {k}, w \in BOOLEAN : IsOpen(l, w)' = IsOpen(l, w)
  BY <1>1 DEF IsOpen
<1>4. \A w \in BOOLEAN : IsOpen(k, w)' <=> IsOpen(k, w) /\ ~Closes(p, k, w)
  BY <1>1 DEF IsOpen
<1>5. \A l \in Pipes, w \in BOOLEAN : ~Closes(p, l, w)'
  BY DEF Closes, NoPend
<1>6. \A l \in Pipes, w \in BOOLEAN, q \in Procs \ {p} : Closes(q, l, w)' <=> Closes(q, l, w)
  BY DEF Closes
<1>7. \A l \in Pipes \ {k}, w \in BOOLEAN : ~Closes(p, l, w)
  BY DEF Closes
<1>8. ASSUME NEW l \in Pipes, NEW w \in BOOLEAN
      PROVE  /\ EndOpen(l, w) <=> (\E g \in Files : IsEnd(g, l, w)) \/ \E x \in Procs : Closes(x, l, w)
             /\ EndOpen(l, w)' <=> (\E g \in Files : IsEnd(g, l, w)') \/ \E x \in Procs : Closes(x, l, w)'
  BY DEF EndOpen, IsEnd, Closes
<1>9. ASSUME NEW l \in Pipes, NEW w \in BOOLEAN
      PROVE  /\ \A f \in Files : IsEnd(f, l, w)' => IsOpen(l, w)' /\ \A g \in Files : IsEnd(g, l, w)' => f = g
             /\ \A x \in Procs : Closes(x, l, w)' => IsOpen(l, w)' /\ \A q \in Procs : Closes(q, l, w)' => x = q
             /\ \A f \in Files, x \in Procs : ~(IsEnd(f, l, w)' /\ Closes(x, l, w)')
             /\ IsOpen(l, w)' => EndOpen(l, w)'
  <2>1. /\ \A g \in Files : IsEnd(g, l, w) => IsOpen(l, w) /\ \A h \in Files : IsEnd(h, l, w) => g = h
        /\ \A x \in Procs : Closes(x, l, w) => IsOpen(l, w) /\ \A q \in Procs : Closes(q, l, w) => x = q
        /\ \A g \in Files, x \in Procs : ~(IsEnd(g, l, w) /\ Closes(x, l, w))
        /\ IsOpen(l, w) => EndOpen(l, w)
    BY DEF Inv, PipeInv
  <2>2. IsOpen(l, w)' <=> IsOpen(l, w) /\ ~Closes(p, l, w)
    BY <1>3, <1>4, <1>7
  <2>3. \A x \in Procs : Closes(x, l, w)' <=> Closes(x, l, w) /\ x # p
    BY <1>5, <1>6
  <2> QED BY <1>2, <1>8, <2>1, <2>2, <2>3
<1>10. \A l \in Pipes, q \in Procs \ {p} : Frees(q, l)' <=> Frees(q, l)
  BY DEF Frees
<1>11. \A l \in Pipes : Frees(p, l)' <=> l = k /\ proc'[p].pend.what = "kfree"
  BY DEF Frees, NoPend
<1>12. \A l \in Pipes \ {k} : ~Frees(p, l)
  BY DEF Frees
<1>13. ASSUME NEW l \in Pipes
       PROVE  /\ ~pipe'[l].used => pipe'[l] = NoPage
              /\ \A x, q \in Procs : Frees(x, l)' /\ Frees(q, l)' => x = q
              /\ (pipe'[l].used /\ ~pipe'[l].readopen /\ ~pipe'[l].writeopen) <=> \E x \in Procs : Frees(x, l)'
  <2>1. CASE l = k
    BY <1>1, <1>10, <1>11, <2>1
  <2>2. CASE l # k
    <3>1. \A q \in Procs : Frees(q, l)' <=> Frees(q, l)
      BY <1>10, <1>11, <1>12, <2>2
    <3>2. pipe'[l] = pipe[l]
      BY <1>1, <2>2
    <3> QED BY <3>1, <3>2 DEF Inv, PipeInv
  <2> QED BY <2>1, <2>2
<1> QED BY <1>1, <1>9, <1>13 DEF PipeInv
-----------------------------------------------------------------------------
(* pipeclose() shuts the end, wakes the other side, and finds out whether  *)
(* both ends are shut.                                                     *)
LEMMA PipecloseStep ==
  ASSUME Inv, NEW p \in Procs, pipeclose(p)
  PROVE  Inv'
<1>1. proc[p] \in Records /\ Sane(proc[p], p) /\ proc[p].pend.what = "close" /\ UNCHANGED file
  BY DEF pipeclose, Inv, ProcInv
<1>2. proc[p].pend # NoPend
  BY <1>1 DEF NoPend
<1>3. proc[p].pend.pipe \in Pipes /\ proc[p].pend.writable \in BOOLEAN /\ proc[p].pend \in Pends
  BY <1>1, <1>2 DEF Sane, Records, Pends
<1>4. PICK k \in Pipes, w \in BOOLEAN : k = proc[p].pend.pipe /\ w = proc[p].pend.writable
  BY <1>3
<1>5. \A v \in BOOLEAN : Closes(p, k, v) <=> v = w
  BY <1>1, <1>3, <1>4 DEF Closes, Pends
<1>6. IsOpen(k, w)
  BY <1>5 DEF Inv, PipeInv
<1>7. PICK t \in PageRecs : t = pipe[k]
  BY DEF Inv, PipeInv
<1>8. t.used /\ (t.readopen \/ t.writeopen)
  BY <1>6, <1>7 DEF IsOpen, Inv, PipeInv, NoPage
<1>9. PICK s : s = IF w THEN [t EXCEPT !.writeopen = FALSE] ELSE [t EXCEPT !.readopen = FALSE]
  OBVIOUS
<1>10. /\ s \in PageRecs /\ s.used = t.used /\ s.n = t.n /\ s.cut = t.cut
       /\ s.writeopen = (IF w THEN FALSE ELSE t.writeopen) /\ s.readopen = (IF w THEN t.readopen ELSE FALSE)
  BY <1>7, <1>9 DEF PageRecs
<1>11. PICK y : y = IF s.readopen \/ s.writeopen THEN NoPend ELSE [proc[p].pend EXCEPT !.what = "kfree"]
  OBVIOUS
<1>12. PICK r : r = [proc[p] EXCEPT !.pend = y]
  OBVIOUS
<1>13. /\ Unlocked(k) /\ pipe' = [pipe EXCEPT ![k] = s]
       /\ proc' = wakeup([proc EXCEPT ![p] = r], Waiters(k, w))
  <2>1. [proc EXCEPT ![p].pend = y] = [proc EXCEPT ![p] = r]
    BY <1>12 DEF Inv, ProcInv
  <2>2. /\ Unlocked(k) /\ pipe' = [pipe EXCEPT ![k] = s]
    BY <1>4, <1>7, <1>9 DEF pipeclose
  <2>3. [proc EXCEPT ![p].pend = IF s.readopen \/ s.writeopen THEN NoPend ELSE [@ EXCEPT !.what = "kfree"]]
           = [proc EXCEPT ![p].pend = y]
    BY <1>11 DEF Inv, ProcInv
  <2>4. proc' = wakeup([proc EXCEPT ![p].pend = IF s.readopen \/ s.writeopen THEN NoPend
                                                ELSE [@ EXCEPT !.what = "kfree"]], Waiters(k, w))
    BY <1>4, <1>7, <1>9 DEF pipeclose
  <2> QED BY <2>1, <2>2, <2>3, <2>4
<1>14. /\ y \in Pends /\ (y = NoPend \/ (y.what = "kfree" /\ y.pipe = k))
       /\ (y.what = "kfree" <=> ~s.readopen /\ ~s.writeopen)
  <2>1. NoPend \in Pends /\ NoPend.what = "none"
    BY DEF NoPend, Pends
  <2>2. PICK z \in Pends : z = proc[p].pend
    BY <1>3
  <2>3. /\ [z EXCEPT !.what = "kfree"] \in Pends /\ [z EXCEPT !.what = "kfree"].what = "kfree"
        /\ [z EXCEPT !.what = "kfree"].pipe = z.pipe
    BY DEF Pends
  <2>4. CASE s.readopen \/ s.writeopen
    BY <1>11, <2>1, <2>4
  <2>5. CASE ~(s.readopen \/ s.writeopen)
    BY <1>4, <1>11, <2>2, <2>3, <2>5
  <2> QED BY <2>4, <2>5
<1>15. proc[p].pc = "user" /\ proc[p].chan = NoChan /\ proc[p].state = "LIVE"
  BY <1>1, <1>2 DEF Sane, Idle, Records
<1>16. /\ r \in Records /\ r.state = proc[p].state /\ r.parent = proc[p].parent /\ r.ofile = proc[p].ofile
       /\ r.killed = proc[p].killed /\ r.chan = NoChan /\ r.pc = "user" /\ r.p = proc[p].p
       /\ r.todo = proc[p].todo /\ r.pend = y
  BY <1>1, <1>12, <1>14, <1>15 DEF Records
<1>17. Waiters(k, w) # NoChan
  BY Channels DEF Waiters
<1>18. /\ Alike(p) /\ \A q \in Procs : proc'[q].chan # Waiters(k, w)
       /\ proc'[p] \in Records
       /\ proc'[p].state = r.state /\ proc'[p].killed = r.killed /\ proc'[p].parent = r.parent
       /\ proc'[p].ofile = r.ofile /\ proc'[p].p = r.p /\ proc'[p].todo = r.todo
       /\ proc'[p].pc = r.pc /\ proc'[p].pend = r.pend /\ proc'[p].chan = NoChan
  BY <1>13, <1>16, <1>17, UpdateWake DEF Inv
<1>19. Sane(proc'[p], p)
  BY <1>1, <1>14, <1>15, <1>16, <1>18 DEF Sane, Sleeps
<1>20. Standing(p)'
  BY <1>16, <1>18, UserStands
<1>21. Framed(p) /\ KidsKept(p)
  BY <1>16, <1>18, KidsSame DEF Alike, Frame, Framed
<1>22. FileInv' /\ HeldKept(p)
  <2>1. \A q \in Procs : proc'[q].ofile = proc[q].ofile
    BY <1>16, <1>18 DEF Alike, Frame, SameBut
  <2> QED BY <1>1, <2>1, FilesSame, FileSame DEF Inv
<1>23. pipe'[k] = s /\ \A l \in Pipes \ {k} : pipe'[l] = pipe[l]
  BY <1>13 DEF Inv, PipeInv
<1>24. LocksKept
  BY <1>13, <1>23 DEF LocksKept
<1>25. Rouses(p)
  <2>1. CASE w
    <3>1. Full(k) => Full(k)'
      BY <1>7, <1>10, <1>23, <2>1 DEF Full
    <3> QED BY <1>18, <1>23, <2>1, <3>1, PageRouses DEF Waiters
  <2>2. CASE ~w
    <3>1. Empty(k) => Empty(k)'
      BY <1>7, <1>10, <1>23, <2>2 DEF Empty
    <3> QED BY <1>18, <1>23, <2>2, <3>1, PageRouses DEF Waiters
  <2> QED BY <2>1, <2>2
<1>26. PipeInv'
  <2>1. \A q \in Procs \ {p} : proc'[q].pend = proc[q].pend
    BY <1>18 DEF Alike, Frame, SameBut
  <2>2. \A v \in BOOLEAN : (IF v THEN s.writeopen ELSE s.readopen) <=> IsOpen(k, v) /\ ~Closes(p, k, v)
    BY <1>5, <1>7, <1>10 DEF IsOpen
  <2>3. \A q \in Procs : ~Frees(q, k)
    BY <1>7, <1>8 DEF Inv, PipeInv
  <2>4. proc'[p].pend = y
    BY <1>16, <1>18
  <2> QED BY <1>1, <1>4, <1>8, <1>10, <1>13, <1>14, <2>1, <2>2, <2>3, <2>4, PageShut
<1> QED BY <1>19, <1>20, <1>21, <1>22, <1>24, <1>25, <1>26, StepInv

(* The page is freed by who found both ends shut; nobody else has it.      *)
LEMMA KfreeStep ==
  ASSUME Inv, NEW p \in Procs, kfree(p)
  PROVE  Inv'
<1>1. proc[p] \in Records /\ Sane(proc[p], p) /\ proc[p].pend.what = "kfree" /\ UNCHANGED file
  BY DEF kfree, Inv, ProcInv
<1>2. proc[p].pend # NoPend
  BY <1>1 DEF NoPend
<1>3. PICK k \in Pipes : k = proc[p].pend.pipe
  BY <1>1, <1>2 DEF Sane
<1>4. Frees(p, k)
  BY <1>1, <1>3 DEF Frees
<1>5. pipe[k].used /\ ~pipe[k].readopen /\ ~pipe[k].writeopen /\ \A q \in Procs \ {p} : ~Frees(q, k)
  BY <1>4 DEF Inv, PipeInv
<1>6. Unlocked(k) /\ \A w \in BOOLEAN : ~Closes(p, k, w)
  BY <1>5, ShutPage
<1>7. PICK s : s = NoPage
  OBVIOUS
<1>8. s \in PageRecs /\ ~s.used /\ ~s.readopen /\ ~s.writeopen
  <2>1. 0 \in 0..PIPESIZE
    BY Constants
  <2>2. s = [used |-> FALSE, n |-> 0, readopen |-> FALSE, writeopen |-> FALSE, cut |-> FALSE]
    BY <1>7 DEF NoPage
  <2> QED BY <2>1, <2>2 DEF PageRecs
<1>9. PICK r : r = [proc[p] EXCEPT !.pend = NoPend]
  OBVIOUS
<1>10. pipe' = [pipe EXCEPT ![k] = s] /\ proc' = [proc EXCEPT ![p] = r]
  BY <1>3, <1>7, <1>9 DEF kfree, Inv, ProcInv
<1>11. proc[p].pc = "user" /\ proc[p].chan = NoChan /\ proc[p].state = "LIVE"
  BY <1>1, <1>2 DEF Sane, Idle, Records
<1>12. /\ r \in Records /\ r.state = proc[p].state /\ r.parent = proc[p].parent /\ r.ofile = proc[p].ofile
       /\ r.killed = proc[p].killed /\ r.chan = NoChan /\ r.pc = "user" /\ r.p = proc[p].p
       /\ r.todo = proc[p].todo /\ r.pend = NoPend
  <2>1. NoPend \in Pends
    BY DEF NoPend, Pends
  <2> QED BY <1>1, <1>9, <1>11, <2>1 DEF Records
<1>13. Sane(r, p)
  BY <1>1, <1>11, <1>12 DEF Sane, Sleeps
<1>14. proc'[p] = r /\ \A q \in Procs \ {p} : proc'[q] = proc[q]
  BY <1>10, <1>12, Update DEF Inv
<1>15. FileInv' /\ HeldKept(p)
  <2>1. \A q \in Procs : proc'[q].ofile = proc[q].ofile
    BY <1>12, <1>14
  <2> QED BY <1>1, <2>1, FilesSame, FileSame DEF Inv
<1>16. pipe'[k] = s /\ \A l \in Pipes \ {k} : pipe'[l] = pipe[l]
  BY <1>10 DEF Inv, PipeInv
<1>17. LocksKept
  BY <1>6, <1>16 DEF LocksKept
<1>18. Rouses(p)
  <2>1. ~Empty(k) /\ ~Full(k)
    BY <1>5 DEF Empty, Full
  <2> QED BY <1>16, <2>1, PageRouses
<1>19. PipeInv'
  <2>1. proc'[p].pend = NoPend /\ NoPend.what = "none"
    BY <1>12, <1>14 DEF NoPend
  <2>2. \A w \in BOOLEAN : (IF w THEN s.writeopen ELSE s.readopen) <=> IsOpen(k, w) /\ ~Closes(p, k, w)
    BY <1>5, <1>8 DEF IsOpen
  <2>3. \A q \in Procs \ {p} : proc'[q].pend = proc[q].pend
    BY <1>14
  <2> QED BY <1>1, <1>3, <1>5, <1>7, <1>8, <1>10, <2>1, <2>2, <2>3, PageShut
<1> QED BY <1>10, <1>12, <1>13, <1>15, <1>17, <1>18, <1>19, ReturnedStep
-----------------------------------------------------------------------------
(* init has started a shell, with the console as 0, 1 and 2.               *)
LEMMA InitInv == Init => Inv
<1> SUFFICES ASSUME Init PROVE Inv
  OBVIOUS
<1>1. shell \in Procs /\ console \in Files
  BY Constants
<1>2. \A q \in Procs : proc[q] = (IF q = shell THEN Shell ELSE Unused) /\ proc[q] \in Records /\ Sane(proc[q], q)
  BY ShellIs, UnusedIs DEF Init
<1>3. ProcInv
  <2>1. proc = [q \in Procs |-> proc[q]]
    BY DEF Init
  <2> QED BY <1>2, <2>1 DEF ProcInv
<1>4. \A q \in Procs : proc[q].chan = NoChan /\ proc[q].pend = NoPend /\ proc[q].pc = "user"
  BY <1>2, ShellIs, UnusedIs DEF Idle
<1>5. \A q \in Procs : Standing(q)
  BY <1>4, Channels DEF Standing, Dozing, Reading, Writing, Waiting
<1>6. \A f \in Files : file[f] = IF f = console THEN [Inode(TRUE, TRUE) EXCEPT !.ref = 6] ELSE Closed
  BY DEF Init
<1>7. PICK x \in FileRecs : x = Inode(TRUE, TRUE) /\ x.type = "INODE" /\ x.pipe = NoPipe
  BY InodeIs
<1>8. [x EXCEPT !.ref = 6] \in FileRecs /\ [x EXCEPT !.ref = 6].ref = 6
      /\ [x EXCEPT !.ref = 6].type = "INODE" /\ [x EXCEPT !.ref = 6].pipe = NoPipe
  BY <1>7 DEF FileRecs
<1>9. PICK c \in FileRecs : c = [x EXCEPT !.ref = 6]
  BY <1>8
<1>10. PICK z \in FileRecs : z = Closed /\ z.ref = 0 /\ z.type = "NONE" /\ z.pipe = NoPipe
  BY ClosedFile DEF ClosedIs
<1>11. \A f \in Files : file[f] = IF f = console THEN c ELSE z
  BY <1>6, <1>7, <1>9, <1>10
<1>12. file \in [Files -> FileRecs]
  <2>1. file = [f \in Files |-> file[f]]
    BY DEF Init
  <2> QED BY <1>11, <2>1
<1>13. ASSUME NEW f \in Files PROVE Cardinality(Holders(f)) = Extra(f)
  <2>1. Others(shell, f) = {}
    <3>1. \A q \in Procs \ {shell}, d \in Fds : proc[q].ofile[d] = NoFile
      BY <1>2, UnusedIs DEF Idle, NoFiles
    <3> QED BY <3>1, Constants DEF Others
  <2>2. Cardinality(Others(shell, f)) = 0
    BY <2>1, FS_EmptySet
  <2>3. Cardinality(Named(proc[shell].ofile, f)) = Extra(f)
    BY <1>1, <1>2, NamedNone
  <2>4. Cardinality(Holders(f)) = Cardinality(Others(shell, f)) + Cardinality(Named(proc[shell].ofile, f))
    BY <1>1, Split
  <2>5. Extra(f) \in Nat
    BY DEF Extra
  <2> QED BY <2>2, <2>3, <2>4, <2>5
<1>14. FileInv
  <2>1. ASSUME NEW f \in Files
        PROVE  /\ file[f].ref = Cardinality(Holders(f)) + Extra(f)
               /\ file[f].ref = 0 <=> file[f].type = "NONE"
               /\ IF file[f].type = "PIPE" THEN file[f].pipe \in Pipes ELSE file[f].pipe = NoPipe
    <3>1. CASE f = console
      <4>1. file[f] = c /\ Extra(f) = 3
        BY <1>11, <3>1 DEF Extra
      <4>2. c.ref = 6 /\ c.type = "INODE" /\ c.pipe = NoPipe
        BY <1>8, <1>9
      <4> QED BY <1>13, <4>1, <4>2
    <3>2. CASE f # console
      <4>1. file[f] = z /\ Extra(f) = 0
        BY <1>11, <3>2 DEF Extra
      <4> QED BY <1>10, <1>13, <4>1
    <3> QED BY <3>1, <3>2
  <2>2. file[console].type = "INODE"
    BY <1>1, <1>8, <1>9, <1>11
  <2> QED BY <1>12, <2>1, <2>2 DEF FileInv
<1>15. PICK s : s = NoPage
  OBVIOUS
<1>16. s \in PageRecs /\ ~s.used /\ ~s.readopen /\ ~s.writeopen
  <2>1. 0 \in 0..PIPESIZE
    BY Constants
  <2>2. s = [used |-> FALSE, n |-> 0, readopen |-> FALSE, writeopen |-> FALSE, cut |-> FALSE]
    BY <1>15 DEF NoPage
  <2> QED BY <2>1, <2>2 DEF PageRecs
<1>17. pipe = [k \in Pipes |-> s]
  BY <1>15 DEF Init
<1>18. PipeInv
  <2>1. pipe \in [Pipes -> PageRecs] /\ \A k \in Pipes : pipe[k] = s
    BY <1>16, <1>17
  <2>2. \A k \in Pipes, w \in BOOLEAN : ~IsOpen(k, w)
    BY <1>16, <2>1 DEF IsOpen
  <2>3. \A f \in Files : file[f].type # "PIPE"
    BY <1>8, <1>9, <1>10, <1>11
  <2>4. \A f \in Files, k \in Pipes, w \in BOOLEAN : ~IsEnd(f, k, w)
    BY <2>3 DEF IsEnd
  <2>5. \A q \in Procs : proc[q].pend.what = "none"
    BY <1>4 DEF NoPend
  <2>6. \A q \in Procs, k \in Pipes, w \in BOOLEAN : ~Closes(q, k, w) /\ ~Frees(q, k)
    BY <2>5 DEF Closes, Frees
  <2> QED BY <1>15, <1>16, <2>1, <2>2, <2>4, <2>6 DEF PipeInv
<1> QED BY <1>3, <1>5, <1>14, <1>18 DEF Inv

(* Every step keeps the invariant.                                         *)
LEMMA InvNext == Inv /\ [Next]_vars => Inv'
<1> SUFFICES ASSUME Inv, [Next]_vars PROVE Inv'
  OBVIOUS
<1>1. ASSUME NEW cmd \in Commands, Prompt(cmd) PROVE Inv'
  BY <1>1, PromptStep
<1>2. ASSUME NEW p \in Procs, Step(p) PROVE Inv'
  <2>1. CASE ForkFails(p) BY <2>1, ForkFailsStep
  <2>2. CASE ForkOk(p) BY <2>2, ForkStep
  <2>3. CASE sys_pipe(p) BY <2>3, PipeStep
  <2>4. CASE sys_dup(p) BY <2>4, DupStep
  <2>5. CASE sys_open(p) BY <2>5, OpenStep
  <2>6. CASE sys_close(p) BY <2>6, SysCloseStep
  <2>7. CASE pipeclose(p) BY <2>7, PipecloseStep
  <2>8. CASE kfree(p) BY <2>8, KfreeStep
  <2>9. CASE Enter(p) BY <2>9, EnterStep
  <2>10. CASE sys_read(p) BY <2>10, ReadStep
  <2>11. CASE sys_write(p) BY <2>11, WriteStep
  <2>12. CASE sleep(p) BY <2>12, SleepStep
  <2>13. CASE wait(p) BY <2>13, WaitStep
  <2>14. CASE ExitClose(p) BY <2>14, ExitCloseStep
  <2>15. CASE Exit(p) BY <2>15, ExitStep
  <2>16. CASE InitWaits(p) BY <2>16, InitStep
  <2> QED
    BY <1>2, <2>1, <2>2, <2>3, <2>4, <2>5, <2>6, <2>7, <2>8, <2>9, <2>10, <2>11, <2>12, <2>13, <2>14, <2>15, <2>16
    DEF Step, Call1
<1>3. ASSUME NEW q \in Killable, kill(q) PROVE Inv'
  BY <1>3, Constants, KillStep
<1>4. CASE UNCHANGED vars
  <2>1. proc' = proc /\ file' = file /\ pipe' = pipe
    BY <1>4 DEF vars
  <2>2. ProcInv'
    BY <2>1 DEF Inv, ProcInv, Sane
  <2>3. FileInv'
    BY <2>1, FilesSame DEF Inv
  <2>4. PipeInv'
    BY <2>1, PipesSame, PageSame, FileSame DEF Inv
  <2>5. ASSUME NEW q \in Procs PROVE Standing(q)'
    BY <2>1 DEF Inv, Standing, Dozing, Reading, Writing, Waiting, Zombies, Children, Empty, Full, Next1
  <2> QED BY <2>2, <2>3, <2>4, <2>5 DEF Inv
<1> QED BY <1>1, <1>2, <1>3, <1>4 DEF Next

(* The invariant holds in every state: the descriptors of every process    *)
(* fit what sh.c has it do next, every reference and every end of a pipe   *)
(* is counted once, and every sleeper of piperead(), pipewrite() and       *)
(* wait() has its cause.                                                   *)
THEOREM Invariant == Spec => []Inv
BY InitInv, InvNext, PTL DEF Spec
-----------------------------------------------------------------------------
(* What FilesExact says is part of it.                                     *)
LEMMA InvFilesExact == Inv => FilesExact
<1> SUFFICES ASSUME Inv PROVE FilesExact
  OBVIOUS
<1>1. TypeOK
  <2>1. ASSUME NEW p \in Procs
        PROVE  /\ proc[p].state \in {"UNUSED", "LIVE", "ZOMBIE"} /\ proc[p].parent \in Procs \cup {init}
               /\ proc[p].ofile \in [Fds -> Files \cup {NoFile}]
               /\ proc[p].pc \in {"user", "in", "doze"} /\ proc[p].left \in 0..BYTES
    BY DEF Inv, ProcInv, Records
  <2>2. ASSUME NEW f \in Files PROVE file[f].ref \in Nat /\ file[f].type \in {"NONE", "INODE", "PIPE"}
    BY DEF Inv, FileInv, FileRecs
  <2>3. ASSUME NEW k \in Pipes PROVE pipe[k].n \in 0..PIPESIZE
    BY DEF Inv, PipeInv, PageRecs
  <2> QED BY <2>1, <2>2, <2>3 DEF TypeOK
<1>2. ASSUME NEW f \in Files
      PROVE  /\ file[f].ref = Cardinality(Holders(f)) + (IF f = console THEN 3 ELSE 0)
             /\ file[f].ref = 0 <=> file[f].type = "NONE"
  BY DEF Inv, FileInv, Extra
<1>3. ASSUME NEW k \in Pipes
      PROVE  /\ EndOpen(k, TRUE) <=> pipe[k].writeopen
             /\ EndOpen(k, FALSE) <=> pipe[k].readopen
  <2>1. ASSUME NEW w \in BOOLEAN PROVE EndOpen(k, w) <=> IsOpen(k, w)
    <3>1. /\ \A g \in Files : IsEnd(g, k, w) => IsOpen(k, w)
          /\ \A x \in Procs : Closes(x, k, w) => IsOpen(k, w)
          /\ IsOpen(k, w) => EndOpen(k, w)
      BY DEF Inv, PipeInv
    <3>2. EndOpen(k, w) <=> (\E g \in Files : IsEnd(g, k, w)) \/ \E x \in Procs : Closes(x, k, w)
      BY DEF EndOpen, IsEnd, Closes
    <3> QED BY <3>1, <3>2
  <2> QED BY <2>1 DEF IsOpen
<1>4. ASSUME NEW k \in Pipes
      PROVE  Cardinality(Freeing(k)) = IF pipe[k].used /\ ~pipe[k].readopen /\ ~pipe[k].writeopen THEN 1 ELSE 0
  <2>1. \A p : p \in Freeing(k) <=> p \in Procs /\ Frees(p, k)
    BY DEF Freeing, Frees
  <2>2. /\ \A p, q \in Procs : Frees(p, k) /\ Frees(q, k) => p = q
        /\ (pipe[k].used /\ ~pipe[k].readopen /\ ~pipe[k].writeopen) <=> \E p \in Procs : Frees(p, k)
    BY DEF Inv, PipeInv
  <2>3. CASE \E p \in Procs : Frees(p, k)
    <3>1. PICK p \in Procs : Frees(p, k)
      BY <2>3
    <3>2. Freeing(k) = {p}
      BY <2>1, <2>2, <3>1
    <3> QED BY <2>2, <3>1, <3>2, FS_Singleton
  <2>4. CASE ~\E p \in Procs : Frees(p, k)
    <3>1. Freeing(k) = {}
      BY <2>1, <2>4
    <3> QED BY <2>2, <2>4, <3>1, FS_EmptySet
  <2> QED BY <2>3, <2>4
<1> QED BY <1>1, <1>2, <1>3, <1>4 DEF FilesExact

(* And so is what SleepersHaveCause says.                                  *)
LEMMA InvSleepers == Inv => SleepersHaveCause
<1> SUFFICES ASSUME Inv, NEW k \in Pipes, NEW p \in Procs
             PROVE  /\ proc[p].chan = nread(k) =>
                         pipe[k].used /\ pipe[k].writeopen /\ (pipe[k].n = 0 \/ pipe[k].cut)
                    /\ proc[p].chan = nwrite(k) =>
                         pipe[k].used /\ pipe[k].readopen /\ pipe[k].n = PIPESIZE
                    /\ proc[p].chan = child(p) => Zombies(p) = {} /\ Children(p) # {}
  BY DEF SleepersHaveCause
<1>1. Reading(p) /\ Writing(p) /\ Waiting(p)
  BY DEF Inv, Standing
<1>2. ~pipe[k].used => ~pipe[k].writeopen /\ ~pipe[k].readopen
  BY DEF Inv, PipeInv, NoPage
<1> QED BY <1>1, <1>2 DEF Reading, Writing, Waiting, Empty, Full

(* For any number of processes, files, pipes, descriptors (five or more),  *)
(* bytes and commands: file->ref is the number of descriptors that name    *)
(* the file, after fork, dup, close, failed pipe() and exit, and a page of *)
(* a pipe is in use as long as an end of it is open or being closed, and   *)
(* freed once, after that.                                                 *)
THEOREM FilesAreExact == Spec => []FilesExact
BY Invariant, InvFilesExact, PTL

(* No process sleeps in piperead() for bytes that are there or from        *)
(* writers that are gone, in pipewrite() for room that is there or readers *)
(* that are gone, or in wait() beside a zombie of its own: every wakeup()  *)
(* that is due has been sent.                                              *)
THEOREM SleepersAreRight == Spec => []SleepersHaveCause
BY Invariant, InvSleepers, PTL
=============================================================================
