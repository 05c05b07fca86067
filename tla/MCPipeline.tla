------------------------------ MODULE MCPipeline ------------------------------
(* The lines that are typed: a pipe in the background; a list that writes  *)
(* into a pipe, whose reader's output goes to a file; a pipe whose reader  *)
(* does not start; and programs that read a file and write to the console. *)
EXTENDS Pipeline
W == EXEC("writer")
R == EXEC("reader")
MCCommands == {BACK(PIPE(W, R)), PIPE(LIST(W, W), REDIR(1, R)),
               PIPE(W, EXEC("fails")), LIST(REDIR(0, R), W)}
MCCmds == MCCommands \cup {W, R, EXEC("fails"), PIPE(W, R), LIST(W, W), REDIR(1, R), REDIR(0, R)}
===============================================================================
