--------------------------- MODULE PrologueTasks ---------------------------
(***************************************************************************)
(* The prologues that idle workers run ahead of execution (executor.rs:    *)
(* SchedulerTask::PrologueTask) and how execute_user_transaction           *)
(* (aptos_vm.rs) uses their results.  prologue_map has one lock and one    *)
(* flag per transaction; only the first transaction of each sender takes   *)
(* part (block_executor/mod.rs: execute_block).                            *)
(*                                                                         *)
(* Scheduler and BlockExecutor model execution and validation in full;     *)
(* here a transaction is executed when ready, validated and aborted at any *)
(* time, and committed in order once its recorded reads are current, which *)
(* is the best that those modules allow.  A transaction writes one         *)
(* location, unless its prologue refuses it: then it is discarded and      *)
(* writes nothing.                                                         *)
(***************************************************************************)
EXTENDS Integers, FiniteSets

CONSTANTS
    NumTxns,
    Threads,
    FirstOfSender,       \* set of transactions with prologue_map[t].0
    PrologueReads,       \* [Txns -> lower transactions whose writes the prologue reads]
    BodyReads,           \* the same for the rest of the transaction
    PrologueOK(_, _),    \* (t, the transactions whose writes it sees) -> BOOLEAN
    MaxIncarnation,
    NoThread, NoTxn

Txns == 0 .. NumTxns - 1

VARIABLES
    status,              \* per transaction
    incarnation,         \* per transaction, from 1
    written,             \* per transaction, the incarnation in the map, or 0
    estimate,            \* transactions whose entry is an ESTIMATE
    read_set,            \* per transaction, [lower transaction -> written then]
    prologue_done,       \* per transaction, the flag under prologue_map[t].1
    lock,                \* per transaction, who holds prologue_map[t].1
    prologue_index,
    last_ind,            \* per thread
    pc, txn,             \* per thread, its step and its transaction
    captured,            \* per thread, the reads of the running execution
    commit_idx

vars == <<status, incarnation, written, estimate, read_set, prologue_done, lock,
          prologue_index, last_ind, pc, txn, captured, commit_idx>>

Init ==
    /\ status = [t \in Txns |-> "ready"]
    /\ incarnation = [t \in Txns |-> 1]
    /\ written = [t \in Txns |-> 0]
    /\ estimate = {}
    /\ read_set = [t \in Txns |-> << >>]
    /\ prologue_done = [t \in Txns |-> FALSE]
    /\ lock = [t \in Txns |-> NoThread]
    /\ prologue_index = 0
    /\ last_ind = [th \in Threads |-> 0]
    /\ pc = [th \in Threads |-> "idle"]
    /\ txn = [th \in Threads |-> NoTxn]
    /\ captured = [th \in Threads |-> << >>]
    /\ commit_idx = 0

\* What reading the writes of S returns; a reader of an ESTIMATE waits.
Readable(S) == S \cap estimate = {}
Read(S) == [j \in S |-> written[j]]
Visible(reads) == {j \in DOMAIN reads : reads[j] # 0}

Merge(r, s) == [j \in DOMAIN r \cup DOMAIN s |-> IF j \in DOMAIN s THEN s[j] ELSE r[j]]

Go(th, step, t) ==
    /\ pc' = [pc EXCEPT ![th] = step]
    /\ txn' = [txn EXCEPT ![th] = t]

(***************************************************************************)
(* Prologue tasks of idle workers.                                         *)
(***************************************************************************)

PrologueTask(th) ==
    /\ pc[th] = "idle"
    /\ last_ind[th] < NumTxns
    /\ prologue_index' = prologue_index + 1
    /\ last_ind' = [last_ind EXCEPT ![th] = prologue_index]
    /\ LET t == prologue_index
           takes == t < NumTxns /\ t \in FirstOfSender /\ lock[t] = NoThread
       IN  IF takes /\ ~prologue_done[t]
           THEN /\ lock' = [lock EXCEPT ![t] = th]
                /\ Go(th, "ahead", t)
           ELSE UNCHANGED <<lock, pc, txn>>
    /\ UNCHANGED <<status, incarnation, written, estimate, read_set, prologue_done,
                   captured, commit_idx>>

\* The reads of this run are dropped with its view.
ExecutePrologue(th) ==
    LET t == txn[th] IN
    /\ pc[th] = "ahead"
    /\ Readable(PrologueReads[t])
    /\ prologue_done' = [prologue_done EXCEPT
            ![t] = PrologueOK(t, Visible(Read(PrologueReads[t])))]
    /\ lock' = [lock EXCEPT ![t] = NoThread]
    /\ Go(th, "idle", NoTxn)
    /\ UNCHANGED <<status, incarnation, written, estimate, read_set, prologue_index,
                   last_ind, captured, commit_idx>>

(***************************************************************************)
(* Execution: the prologue, under the lock where the map has one, and then *)
(* the transaction itself.                                                 *)
(***************************************************************************)

StartExecution(th, t) ==
    /\ pc[th] = "idle"
    /\ status[t] = "ready"
    /\ status' = [status EXCEPT ![t] = "executing"]
    /\ captured' = [captured EXCEPT ![th] = << >>]
    /\ Go(th, IF t \in FirstOfSender THEN "lock" ELSE "check", t)
    /\ UNCHANGED <<incarnation, written, estimate, read_set, prologue_done, lock,
                   prologue_index, last_ind, commit_idx>>

Lock(th) ==
    LET t == txn[th] IN
    /\ pc[th] = "lock"
    /\ lock[t] = NoThread
    /\ IF prologue_done[t]
       THEN Go(th, "body", t) /\ UNCHANGED <<lock, prologue_done>>
       ELSE /\ lock' = [lock EXCEPT ![t] = th]
            /\ prologue_done' = [prologue_done EXCEPT ![t] = TRUE]
            /\ Go(th, "check", t)
    /\ UNCHANGED <<status, incarnation, written, estimate, read_set, prologue_index,
                   last_ind, captured, commit_idx>>

\* Applying the output, recording the reads and finish_execution.
Finish(th, reads, writes) ==
    LET t == txn[th] IN
    /\ written' = [written EXCEPT ![t] = IF writes THEN incarnation[t] ELSE 0]
    /\ estimate' = estimate \ {t}
    /\ read_set' = [read_set EXCEPT ![t] = reads]
    /\ status' = [status EXCEPT ![t] = "executed"]
    /\ Go(th, "idle", NoTxn)

\* validate_signature_checked_transaction; a failure discards the transaction.
CheckPrologue(th) ==
    LET t == txn[th]
        reads == Read(PrologueReads[t])
    IN
    /\ pc[th] = "check"
    /\ Readable(PrologueReads[t])
    /\ lock' = [lock EXCEPT ![t] = IF @ = th THEN NoThread ELSE @]
    /\ \/ /\ PrologueOK(t, Visible(reads))
          /\ captured' = [captured EXCEPT ![th] = reads]
          /\ Go(th, "body", t)
          /\ UNCHANGED <<written, estimate, read_set, status>>
       \/ /\ ~PrologueOK(t, Visible(reads))
          /\ Finish(th, reads, FALSE)
          /\ UNCHANGED captured
    /\ UNCHANGED <<incarnation, prologue_done, prologue_index, last_ind, commit_idx>>

ExecuteBody(th) ==
    LET t == txn[th] IN
    /\ pc[th] = "body"
    /\ Readable(BodyReads[t])
    /\ Finish(th, Merge(Read(BodyReads[t]), captured[th]), TRUE)
    /\ UNCHANGED <<incarnation, prologue_done, lock, prologue_index, last_ind,
                   captured, commit_idx>>

(***************************************************************************)
(* Validation, abort and commit.                                           *)
(***************************************************************************)

Valid(t) ==
    \A j \in DOMAIN read_set[t] : j \notin estimate /\ read_set[t][j] = written[j]

Abort(t) ==
    /\ status[t] = "executed"
    /\ ~Valid(t)
    /\ incarnation[t] < MaxIncarnation
    /\ status' = [status EXCEPT ![t] = "ready"]
    /\ incarnation' = [incarnation EXCEPT ![t] = @ + 1]
    /\ estimate' = IF written[t] # 0 THEN estimate \cup {t} ELSE estimate
    /\ UNCHANGED <<written, read_set, prologue_done, lock, prologue_index, last_ind,
                   pc, txn, captured, commit_idx>>

Commit ==
    /\ commit_idx < NumTxns
    /\ status[commit_idx] = "executed"
    /\ Valid(commit_idx)
    /\ status' = [status EXCEPT ![commit_idx] = "committed"]
    /\ commit_idx' = commit_idx + 1
    /\ UNCHANGED <<incarnation, written, estimate, read_set, prologue_done, lock,
                   prologue_index, last_ind, pc, txn, captured>>

Next ==
    \/ \E th \in Threads :
        \/ PrologueTask(th) \/ ExecutePrologue(th)
        \/ Lock(th) \/ CheckPrologue(th) \/ ExecuteBody(th)
        \/ \E t \in Txns : StartExecution(th, t)
    \/ \E t \in Txns : Abort(t)
    \/ Commit

Spec == Init /\ [][Next]_vars

\* execute_transactions_sequential gives every transaction the entry
\* (false, true), so each prologue runs on the state below it.
Kept[t \in Txns] == PrologueOK(t, {j \in PrologueReads[t] : Kept[j]})

\* Serialization of prologues (lib.rs: "the results of the transaction execution are
\* no longer applicable and must be discarded" when what was read has changed): a
\* committed transaction was refused by its prologue exactly when the sequential
\* executor refuses it, although a prologue may have run before lower transactions
\* wrote what it reads, and a re-execution does not repeat it.
PrologueMatchesSequential ==
    \A t \in Txns : status[t] = "committed" => (written[t] # 0) = Kept[t]
=============================================================================
