----------------------------- MODULE MCProcTable -----------------------------
(* The workloads: anything with threads, kill() and failing allocations;   *)
(* programs that exec and wait for devices, disciplined and not killed.    *)
EXTENDS ProcTable
AnyThreads == [calls |-> {"fork", "clone", "wait", "join", "kill", "exit"},
               fail |-> TRUE, disciplined |-> FALSE, MaxPid |-> 5]
JoinedThreads == [calls |-> {"fork", "clone", "exec", "wait", "join", "io", "exit"},
                  fail |-> FALSE, disciplined |-> TRUE, MaxPid |-> 4]
Served == [calls |-> {"fork", "clone", "wait", "join", "kill"},
           fail |-> FALSE, disciplined |-> FALSE, MaxPid |-> 3]
SafetyLoads == {AnyThreads, JoinedThreads}
LiveLoads == {Served}
==============================================================================
