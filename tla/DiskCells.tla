------------------------------ MODULE DiskCells ------------------------------
(***************************************************************************)
(* What the buffer cache promises its callers (kernel/bio.c, lines 8 to    *)
(* 14): a sector is a cell that one process at a time uses, between        *)
(* bread() and brelse(), and that keeps the last contents written to it.   *)
(* Contents are counted: cell s holds the number of updates made to it,    *)
(* or Junk after the drive reported an error.                              *)
(***************************************************************************)
EXTENDS Naturals

CONSTANTS Procs, Sectors, NoOne, Junk

VARIABLES val,          \* the contents of each sector
          user          \* the process between bread() and brelse() of it

vars == <<val, user>>

Init ==
  /\ val = [s \in Sectors |-> 0]
  /\ user = [s \in Sectors |-> NoOne]

Get(p, s) ==
  /\ user[s] = NoOne
  /\ user' = [user EXCEPT ![s] = p]
  /\ UNCHANGED val

Update(p, s) ==
  /\ user[s] = p
  /\ val' = [val EXCEPT ![s] = IF @ = Junk THEN Junk ELSE @ + 1]
  /\ UNCHANGED user

Put(p, s) ==
  /\ user[s] = p
  /\ user' = [user EXCEPT ![s] = NoOne]
  /\ UNCHANGED val

(* A drive error, of which iderw() tells its caller nothing. *)
Spoil(s) ==
  /\ user[s] # NoOne
  /\ val' = [val EXCEPT ![s] = Junk]
  /\ UNCHANGED user

Next == \E s \in Sectors : \/ \E p \in Procs : Get(p, s) \/ Update(p, s) \/ Put(p, s)
                           \/ Spoil(s)

Spec == Init /\ [][Next]_vars
=============================================================================
