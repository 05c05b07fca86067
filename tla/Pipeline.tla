------------------------------ MODULE Pipeline ------------------------------
(***************************************************************************)
(* Command lines of the xv6 shell at work: user/sh.c on top of the calls   *)
(* fork, exit, wait and kill (kernel/proc.c), of descriptors and open      *)
(* files (kernel/file.c, sysfile.c) and of pipes (kernel/pipe.c).  The     *)
(* shell is slot 1; a process is the list of the calls it has yet to make, *)
(* which runcmd() gives it.  The bytes in a pipe are a number.             *)
(*                                                                         *)
(* A section under ftable.lock, ptable.lock or a pipe's lock is one step,  *)
(* but kill() can come between the look at killed in a read or write and   *)
(* the sleep that follows ("doze"), during which the pipe stays locked.    *)
(***************************************************************************)
EXTENDS Integers, Sequences, FiniteSets, FiniteSetsExt

CONSTANTS NPROC, NFILE, NOFILE, NPIPE,   \* slots, files, descriptors, pages
          PIPESIZE,
          Cmds,                          \* commands, and their parts,
          Commands,                      \* and those typed at the shell
          BYTES,                         \* how many one write() carries
          Killable,                      \* slots that kill() may name
          MaxEvents                      \* bound: command lines, kills and
                                         \* forks without memory, together

Procs == 1..NPROC
shell == 1
init == 0
Files == 1..NFILE
NoFile == 0
console == 1
Fds == 0..(NOFILE - 1)
Pipes == 1..NPIPE
NoPipe == 0
NoFd == -1
P0 == NOFILE                     \* p[0] and p[1] of runcmd()
P1 == NOFILE + 1

(* Commands, as parsecmd() builds them. *)
NoCmd == [type |-> "none"]
EXEC(prog) == [type |-> "EXEC", prog |-> prog]
REDIR(f, cmd) == [type |-> "REDIR", fd |-> f, cmd |-> cmd]
LIST(left, right) == [type |-> "LIST", left |-> left, right |-> right]
PIPE(left, right) == [type |-> "PIPE", left |-> left, right |-> right]
BACK(cmd) == [type |-> "BACK", cmd |-> cmd]
Parsed(c) ==
  \/ \E prog \in {"writer", "reader", "fails"} : c = EXEC(prog)
  \/ \E d \in Cmds : c = REDIR(0, d) \/ c = REDIR(1, d) \/ c = BACK(d)
  \/ \E d, e \in Cmds : c = LIST(d, e) \/ c = PIPE(d, e)

(* Three descriptors and the ends of a pipe are the most that runcmd() has *)
(* open at a time.                                                         *)
PipelineAssumption ==
  /\ NPROC \in Nat \ {0} /\ NFILE \in Nat \ {0} /\ NOFILE \in Nat /\ NOFILE >= 5
  /\ NPIPE \in Nat \ {0} /\ PIPESIZE \in Nat \ {0}
  /\ BYTES \in Nat \ {0} /\ MaxEvents \in Nat
  /\ Killable \subseteq 1..NPROC
  /\ Commands \subseteq Cmds /\ \A c \in Cmds : Parsed(c)

ASSUME PipelineAssumption

VARIABLES proc,      \* struct proc, and what the program has yet to do
          file,      \* ftable.file[]
          pipe,      \* the pages that hold pipes; cut is for the properties:
                     \* bytes were left by a killed writer, which wakes nobody

          events     \* how many there were

vars == <<proc, file, pipe, events>>

NoChan == <<"none", 0>>
nread(k) == <<"nread", k>>       \* channels
nwrite(k) == <<"nwrite", k>>
child(p) == <<"proc", p>>

NoPend == [what |-> "none", pipe |-> NoPipe, writable |-> FALSE]
Unused == [state |-> "UNUSED", parent |-> init, killed |-> FALSE, chan |-> NoChan,
           ofile |-> [f \in Fds |-> NoFile], p |-> <<NoFd, NoFd>>, todo |-> <<>>,
           pc |-> "user", left |-> 0, pend |-> NoPend]
Shell == [Unused EXCEPT !.state = "LIVE",
                        !.ofile = [f \in Fds |-> IF f < 3 THEN console ELSE NoFile]]
NoPage == [used |-> FALSE, n |-> 0, readopen |-> FALSE, writeopen |-> FALSE, cut |-> FALSE]
Closed == [ref |-> 0, type |-> "NONE", readable |-> FALSE, writable |-> FALSE,
           pipe |-> NoPipe]
Inode(r, w) == [ref |-> 1, type |-> "INODE", readable |-> r, writable |-> w,
                pipe |-> NoPipe]
End(k, w) == [ref |-> 1, type |-> "PIPE", readable |-> ~w, writable |-> w, pipe |-> k]

(* init holds the console three times, and so does the shell. *)
Init ==
  /\ proc = [p \in Procs |-> IF p = shell THEN Shell ELSE Unused]
  /\ file = [f \in Files |-> IF f = console THEN [Inode(TRUE, TRUE) EXCEPT !.ref = 6]
                             ELSE Closed]
  /\ pipe = [k \in Pipes |-> NoPage]
  /\ events = 0

-----------------------------------------------------------------------------
(* The calls of a command, runcmd().  The child of a fork() for one end of *)
(* a pipe first makes that end its descriptor fd, standard input or output. *)
Call(op, f, cmd) == [op |-> op, fd |-> f, cmd |-> cmd]
Do(op) == Call(op, NoFd, NoCmd)
Close(f) == Call("close", f, NoCmd)
Dup(f) == Call("dup", f, NoCmd)
Fork(f, cmd) == Call("fork", f, cmd)
Run(cmd) == Call("run", NoFd, cmd)

ForkChild_KeepEnds(f, cmd) ==
  IF f = NoFd THEN <<Run(cmd)>>
  ELSE <<Close(f), Dup(IF f = 0 THEN P0 ELSE P1), Run(cmd)>>
ForkChild(f, cmd) ==
  IF f = NoFd THEN <<Run(cmd)>>
  ELSE <<Close(f), Dup(IF f = 0 THEN P0 ELSE P1), Close(P0), Close(P1), Run(cmd)>>

(* A program that is exec'd: it writes to descriptor 1 and does not look   *)
(* at the result, or reads descriptor 0 to its end, or could not be  *)
(* started.                                                                *)
Program(prog) == CASE prog = "writer" -> <<Do("write"), Do("exit")>>
                   [] prog = "reader" -> <<Do("read"), Do("exit")>>
                   [] prog = "fails" -> <<Do("exit")>>

runcmd(cmd) ==
  CASE cmd.type = "EXEC" -> Program(cmd.prog)
    [] cmd.type = "REDIR" -> <<Close(cmd.fd), Call("open", cmd.fd, NoCmd), Run(cmd.cmd)>>
    [] cmd.type = "LIST" -> <<Fork(NoFd, cmd.left), Do("wait"), Run(cmd.right)>>
    [] cmd.type = "PIPE" ->
         <<Do("pipe"), Fork(1, cmd.left), Fork(0, cmd.right),
           Close(P0), Close(P1), Do("wait"), Do("wait"), Do("exit")>>
    [] cmd.type = "BACK" -> <<Fork(NoFd, cmd.cmd), Do("exit")>>

-----------------------------------------------------------------------------
Live(p) == proc[p].state = "LIVE" /\ proc[p].chan = NoChan /\ proc[p].pend = NoPend
Next1(p) == Head(proc[p].todo)

(* In user mode at the next call, which a killed process does not enter. *)
At(p, op) ==
  /\ Live(p) /\ proc[p].pc = "user" /\ ~proc[p].killed
  /\ proc[p].todo # <<>> /\ Next1(p).op = op

(* Inside of a call that may sleep, at the start of its loop. *)
In(p, op) == Live(p) /\ proc[p].pc = "in" /\ Next1(p).op = op

(* The call returns, and runcmd() is called again if that comes next. *)
Onward(t) == IF t # <<>> /\ Head(t).op = "run" THEN runcmd(Head(t).cmd) ELSE t
Return(P, p) == [P EXCEPT ![p].todo = Onward(Tail(@)), ![p].pc = "user"]
Panic(P, p) == [P EXCEPT ![p].todo = <<Do("exit")>>, ![p].pc = "user"]

wakeup(P, c) == [q \in DOMAIN P |-> IF P[q].chan = c THEN [P[q] EXCEPT !.chan = NoChan]
                                    ELSE P[q]]

Fd(p, f) == CASE f = P0 -> proc[p].p[1] [] f = P1 -> proc[p].p[2] [] OTHER -> f
FreeFds(o) == {f \in Fds : o[f] = NoFile}
FreeFiles == {f \in Files : file[f].ref = 0}
FreePages == {k \in Pipes : ~pipe[k].used}
FreeSlots == {q \in Procs : proc[q].state = "UNUSED"}

Event == events < MaxEvents /\ events' = events + 1

(* The shell reads a line and forks for it. *)
Prompt(cmd) ==
  /\ Live(shell) /\ ~proc[shell].killed /\ proc[shell].todo = <<>>
  /\ Event
  /\ proc' = [proc EXCEPT ![shell].todo = <<Fork(NoFd, cmd), Do("wait")>>]
  /\ UNCHANGED <<file, pipe>>

(* fork1(): the child has the parent's descriptors; without a slot or      *)
(* memory fork() fails and the shell gives up.                             *)
Dups_Once(p, f) == IF \E d \in Fds : proc[p].ofile[d] = f THEN 1 ELSE 0
Dups(p, f) == Cardinality({d \in Fds : proc[p].ofile[d] = f})
ForkOk(p) ==
  /\ At(p, "fork") /\ FreeSlots # {}
  /\ LET q == Min(FreeSlots)
         c == [Unused EXCEPT !.state = "LIVE", !.parent = p, !.ofile = proc[p].ofile,
                             !.p = proc[p].p,
                             !.todo = Onward(ForkChild(Next1(p).fd, Next1(p).cmd))]
     IN proc' = Return([proc EXCEPT ![q] = c], p)
  /\ file' = [f \in Files |-> [file[f] EXCEPT !.ref = @ + Dups(p, f)]]
  /\ UNCHANGED pipe

ForkFails(p) ==
  /\ At(p, "fork")
  /\ IF FreeSlots = {} THEN UNCHANGED events ELSE Event
  /\ proc' = Panic(proc, p)
  /\ UNCHANGED <<file, pipe>>

(* sys_pipe(): two files and a page, or nothing and a panic of the shell. *)
sys_pipe(p) ==
  /\ At(p, "pipe")
  /\ \/ /\ Cardinality(FreeFiles) >= 2 /\ FreePages # {}
        /\ LET k == Min(FreePages)
               rf == Min(FreeFiles)
               wf == Min(FreeFiles \ {rf})
               fd0 == Min(FreeFds(proc[p].ofile))
               fd1 == Min(FreeFds(proc[p].ofile) \ {fd0})
           IN /\ file' = [file EXCEPT ![rf] = End(k, FALSE), ![wf] = End(k, TRUE)]
              /\ pipe' = [pipe EXCEPT ![k] = [used |-> TRUE, n |-> 0, readopen |-> TRUE,
                                              writeopen |-> TRUE, cut |-> FALSE]]
              /\ proc' = Return([proc EXCEPT ![p].ofile[fd0] = rf, ![p].ofile[fd1] = wf,
                                             ![p].p = <<fd0, fd1>>], p)
     \/ /\ Cardinality(FreeFiles) < 2 \/ FreePages = {}
        /\ proc' = Panic(proc, p)
        /\ UNCHANGED <<file, pipe>>

sys_dup(p) ==
  /\ At(p, "dup")
  /\ LET f == proc[p].ofile[Fd(p, Next1(p).fd)]
         fd == Min(FreeFds(proc[p].ofile))
     IN /\ proc' = Return([proc EXCEPT ![p].ofile[fd] = f], p)
        /\ file' = [file EXCEPT ![f].ref = @ + 1]
  /\ UNCHANGED pipe

(* sys_open() of the file of a redirection, or no such file. *)
sys_open(p) ==
  /\ At(p, "open")
  /\ \/ /\ FreeFiles # {}
        /\ LET f == Min(FreeFiles)
               fd == Min(FreeFds(proc[p].ofile))
           IN /\ file' = [file EXCEPT ![f] = Inode(Next1(p).fd = 0, Next1(p).fd # 0)]
              /\ proc' = Return([proc EXCEPT ![p].ofile[fd] = f], p)
     \/ proc' = Panic(proc, p) /\ UNCHANGED file
  /\ UNCHANGED pipe

(* fileclose(): the last reference to an end of a pipe goes on to it. *)
fileclose(P, p, f) ==
  IF file[f].ref > 1
  THEN file' = [file EXCEPT ![f].ref = @ - 1] /\ proc' = P
  ELSE /\ file' = [file EXCEPT ![f] = Closed]
       /\ proc' = [P EXCEPT ![p].pend =
                     IF file[f].type # "PIPE" THEN NoPend
                     ELSE [what |-> "close", pipe |-> file[f].pipe,
                           writable |-> file[f].writable]]

sys_close(p) ==
  /\ At(p, "close")
  /\ LET fd == Fd(p, Next1(p).fd)
         f == proc[p].ofile[fd]
     IN fileclose(Return([proc EXCEPT ![p].ofile[fd] = NoFile], p), p, f)
  /\ UNCHANGED pipe

(* The pipe's lock is held by nobody else. *)
Unlocked(k) == \A q \in Procs : ~(proc[q].pc = "doze" /\
                                  file[proc[q].ofile[IF Next1(q).op = "read" THEN 0 ELSE 1]].pipe = k)

Waiters_Swapped(k, writable) == IF writable THEN nwrite(k) ELSE nread(k)
Waiters(k, writable) == IF writable THEN nread(k) ELSE nwrite(k)
pipeclose(p) ==
  LET k == proc[p].pend.pipe
      w == proc[p].pend.writable
      q == IF w THEN [pipe[k] EXCEPT !.writeopen = FALSE]
           ELSE [pipe[k] EXCEPT !.readopen = FALSE]
  IN /\ proc[p].pend.what = "close" /\ Unlocked(k)
     /\ pipe' = [pipe EXCEPT ![k] = q]
     /\ proc' = wakeup([proc EXCEPT ![p].pend = IF q.readopen \/ q.writeopen THEN NoPend
                                                ELSE [@ EXCEPT !.what = "kfree"]],
                       Waiters(k, w))
     /\ UNCHANGED file

(* ... which is freed after its lock was released. *)
kfree(p) ==
  /\ proc[p].pend.what = "kfree"
  /\ pipe' = [pipe EXCEPT ![proc[p].pend.pipe] = NoPage]
  /\ proc' = [proc EXCEPT ![p].pend = NoPend]
  /\ UNCHANGED file
-----------------------------------------------------------------------------
(* trap() was passed; from here on it is the call that looks at killed. *)
Enter(p) ==
  /\ At(p, "read") \/ At(p, "write")
  /\ proc' = [proc EXCEPT ![p].pc = "in",
                          ![p].left = IF Next1(p).op = "write" THEN BYTES ELSE 0]
  /\ UNCHANGED <<file, pipe>>

Again(P, p) == [P EXCEPT ![p].pc = "user"]

(* piperead(), up to its sleep; a program reads until nothing comes.  The  *)
(* console or a file is read to its end at once.                           *)
sys_read(p) ==
  /\ In(p, "read")
  /\ LET f == file[proc[p].ofile[0]]
         k == f.pipe
     IN \/ f.type # "PIPE" /\ proc' = Return(proc, p) /\ UNCHANGED pipe
        \/ /\ f.type = "PIPE" /\ Unlocked(k)
           /\ pipe[k].n = 0 /\ pipe[k].writeopen
           /\ proc' = IF proc[p].killed THEN Return(proc, p)
                      ELSE [proc EXCEPT ![p].pc = "doze"]
           /\ UNCHANGED pipe
        \/ /\ f.type = "PIPE" /\ Unlocked(k)
           /\ pipe[k].n > 0
           /\ \E m \in 1..pipe[k].n :
                pipe' = [pipe EXCEPT ![k].n = @ - m, ![k].cut = @ /\ m < pipe[k].n]
           /\ proc' = wakeup(Again(proc, p), nwrite(k))
        \/ /\ f.type = "PIPE" /\ Unlocked(k)
           /\ pipe[k].n = 0 /\ ~pipe[k].writeopen
           /\ proc' = wakeup(Return(proc, p), nwrite(k))
           /\ UNCHANGED pipe
  /\ UNCHANGED file

(* pipewrite(), up to its sleep: what there is room for, and then the rest *)
(* waits, unless nobody can read it or the writer was killed.              *)
sys_write(p) ==
  /\ In(p, "write")
  /\ LET f == file[proc[p].ofile[1]]
         k == f.pipe
         m == Min({proc[p].left, PIPESIZE - pipe[k].n})
         full == m < proc[p].left
         Q == [pipe EXCEPT ![k].n = @ + m]
     IN \/ f.type # "PIPE" /\ proc' = Return(proc, p) /\ UNCHANGED pipe
        \/ /\ f.type = "PIPE" /\ Unlocked(k) /\ ~full
           /\ pipe' = [Q EXCEPT ![k].cut = FALSE]
           /\ proc' = wakeup(Return([proc EXCEPT ![p].left = 0], p), nread(k))
        \/ /\ f.type = "PIPE" /\ Unlocked(k) /\ full
           /\ ~pipe[k].readopen \/ proc[p].killed
           /\ pipe' = [Q EXCEPT ![k].cut = @ \/ m > 0]
           /\ proc' = Return([proc EXCEPT ![p].left = 0], p)
        \/ /\ f.type = "PIPE" /\ Unlocked(k) /\ full
           /\ pipe[k].readopen /\ ~proc[p].killed
           /\ pipe' = [Q EXCEPT ![k].cut = FALSE]
           /\ proc' = wakeup([proc EXCEPT ![p].left = @ - m, ![p].pc = "doze"], nread(k))
  /\ UNCHANGED file

(* sleep(), which gives the pipe's lock back. *)
sleep(p) ==
  /\ proc[p].pc = "doze"
  /\ LET c == IF Next1(p).op = "read" THEN nread(file[proc[p].ofile[0]].pipe)
              ELSE nwrite(file[proc[p].ofile[1]].pipe)
     IN proc' = [proc EXCEPT ![p].pc = "in", ![p].chan = c]
  /\ UNCHANGED <<file, pipe>>

Children(p) == {q \in Procs : proc[q].parent = p /\ proc[q].state # "UNUSED"}
Zombies(p) == {q \in Children(p) : proc[q].state = "ZOMBIE"}

wait(p) ==
  /\ At(p, "wait") \/ In(p, "wait")
  /\ proc' = IF Zombies(p) # {}
             THEN Return([proc EXCEPT ![Min(Zombies(p))] = Unused], p)
             ELSE IF Children(p) = {} \/ proc[p].killed THEN Return(proc, p)
             ELSE [proc EXCEPT ![p].chan = child(p), ![p].pc = "in"]
  /\ UNCHANGED <<file, pipe>>

(* exit(), from the call or because the process was killed: the open files *)
(* one by one, then the parent is woken and init gets the children.        *)
Exiting(p) ==
  /\ Live(p) /\ proc[p].pc = "user"
  /\ proc[p].killed \/ (proc[p].todo # <<>> /\ Next1(p).op = "exit")
OpenFds(p) == Fds \ FreeFds(proc[p].ofile)

ExitClose(p) ==
  /\ Exiting(p) /\ OpenFds(p) # {}
  /\ LET fd == Min(OpenFds(p))
     IN fileclose([proc EXCEPT ![p].ofile[fd] = NoFile], p, proc[p].ofile[fd])
  /\ UNCHANGED pipe

Exit(p) ==
  /\ Exiting(p) /\ OpenFds(p) = {}
  /\ LET W == wakeup(proc, child(proc[p].parent))
         Z == [Unused EXCEPT !.state = "ZOMBIE", !.parent = proc[p].parent]
     IN proc' = [q \in Procs |-> IF q = p THEN Z
                                 ELSE IF W[q].parent = p THEN [W[q] EXCEPT !.parent = init]
                                 ELSE W[q]]
  /\ UNCHANGED <<file, pipe>>

(* init's loop: it waits for its children, and forks a new shell when it   *)
(* got the old one, in the slot that wait() freed.                         *)
InitWaits(q) ==
  /\ q \in Zombies(init)
  /\ proc' = [proc EXCEPT ![q] = IF q = shell THEN Shell ELSE Unused]
  /\ file' = IF q = shell THEN [file EXCEPT ![console].ref = @ + 3] ELSE file
  /\ UNCHANGED pipe

kill(q) ==
  /\ proc[q].state = "LIVE" /\ ~proc[q].killed
  /\ Event
  /\ proc' = [proc EXCEPT ![q].killed = TRUE, ![q].chan = NoChan]
  /\ UNCHANGED <<file, pipe>>

Call1(p) == \/ ForkOk(p) \/ sys_pipe(p) \/ sys_dup(p) \/ sys_open(p) \/ sys_close(p)
            \/ pipeclose(p) \/ kfree(p) \/ Enter(p) \/ sys_read(p) \/ sys_write(p)
            \/ sleep(p) \/ wait(p) \/ ExitClose(p) \/ Exit(p) \/ InitWaits(p)
Step(p) == ForkFails(p) \/ (Call1(p) /\ UNCHANGED events)

Next ==
  \/ \E cmd \in Commands : Prompt(cmd)
  \/ \E p \in Procs : Step(p)
  \/ \E q \in Killable : kill(q)

Spec == Init /\ [][Next]_vars

(* Every process gets a CPU, and a lock it waits for; init runs.  Nobody   *)
(* has to type or to kill anything.                                        *)
Fairness == \A p \in Procs : WF_vars(Step(p))

FairSpec == Spec /\ Fairness

-----------------------------------------------------------------------------
TypeOK ==
  /\ \A p \in Procs :
       /\ proc[p].state \in {"UNUSED", "LIVE", "ZOMBIE"}
       /\ proc[p].parent \in Procs \cup {init}
       /\ proc[p].ofile \in [Fds -> Files \cup {NoFile}]
       /\ proc[p].pc \in {"user", "in", "doze"}
       /\ proc[p].left \in 0..BYTES
  /\ \A f \in Files : file[f].ref \in Nat /\ file[f].type \in {"NONE", "INODE", "PIPE"}
  /\ \A k \in Pipes : pipe[k].n \in 0..PIPESIZE

(* References are exact whatever dies or fails in between: of a file by    *)
(* the descriptors that name it, of a pipe's page by the open ends and by  *)
(* the one process that is about to free it.  The page is freed once, and  *)
(* nobody gets at it after.                                                *)
Holders(f) == {pd \in Procs \X Fds : proc[pd[1]].ofile[pd[2]] = f}
EndOpen(k, w) == \/ \E f \in Files : file[f].type = "PIPE" /\ file[f].pipe = k
                                       /\ file[f].writable = w
                 \/ \E p \in Procs : proc[p].pend = [what |-> "close", pipe |-> k,
                                                      writable |-> w]
Freeing(k) == {p \in Procs : proc[p].pend.what = "kfree" /\ proc[p].pend.pipe = k}
FilesExact ==
  /\ TypeOK
  /\ \A f \in Files :
       /\ file[f].ref = Cardinality(Holders(f)) + (IF f = console THEN 3 ELSE 0)
       /\ file[f].ref = 0 <=> file[f].type = "NONE"
  /\ \A k \in Pipes :
       /\ EndOpen(k, TRUE) <=> pipe[k].writeopen
       /\ EndOpen(k, FALSE) <=> pipe[k].readopen
       /\ Cardinality(Freeing(k)) =
            IF pipe[k].used /\ ~pipe[k].readopen /\ ~pipe[k].writeopen THEN 1 ELSE 0

(* Nobody sleeps for what is there already: a reader has no bytes to read  *)
(* (save those that a killed writer left behind, for it returns without a  *)
(* wakeup) and no end to see, a writer has no room and a reader to wait    *)
(* for, a parent no zombie to collect.                                     *)
SleepersHaveCause ==
  \A k \in Pipes, p \in Procs :
    /\ proc[p].chan = nread(k) =>
         pipe[k].used /\ pipe[k].writeopen /\ (pipe[k].n = 0 \/ pipe[k].cut)
    /\ proc[p].chan = nwrite(k) =>
         pipe[k].used /\ pipe[k].readopen /\ pipe[k].n = PIPESIZE
    /\ proc[p].chan = child(p) => Zombies(p) = {} /\ Children(p) # {}

(* In the end nothing is left but the shell at its prompt: every command   *)
(* line ends, also when a fork fails half-way or somebody is *)
(* killed: nobody is left waiting for an end of a pipe to be closed that   *)
(* the waiter itself, or another one who waits, holds open.                *)
Quiet == \A p \in Procs : proc[p] = IF p = shell THEN Shell ELSE Unused
CommandsEnd == <>[]Quiet
=============================================================================
