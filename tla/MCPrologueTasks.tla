-------------------------- MODULE MCPrologueTasks --------------------------
(***************************************************************************)
(* Transactions 0 and 1 are the first of their senders, 2 is the second of *)
(* the sender of 1.  The prologues of 1 and 2 read the account of that     *)
(* sender, which 0 creates and funds; the sequence number of 1 is not the  *)
(* account's before or after, so its prologue always refuses it.           *)
(***************************************************************************)
EXTENDS PrologueTasks

MCPrologueReads == [t \in 0 .. 2 |-> IF t = 0 THEN {} ELSE {0}]

MCBodyReads == [t \in 0 .. 2 |-> IF t = 2 THEN {1} ELSE {}]

MCPrologueOK(t, seen) == t # 1
=============================================================================
