----------------------------- MODULE Scheduler -----------------------------
(***************************************************************************)
(* The collaborative scheduler of the parallel block executor              *)
(* (block-executor/src/scheduler.rs) and the loop of the worker threads    *)
(* that drive it (executor.rs, work_task_with_scope).                      *)
(*                                                                         *)
(* A step is one access to shared memory: one lock acquisition, one        *)
(* channel operation, one atomic operation or one push.  What the          *)
(* transactions read and write is left open: whether a validation          *)
(* succeeds, and whether an execution meets the ESTIMATE marker of a lower *)
(* transaction, is a choice of the environment.  Module BlockExecutor      *)
(* makes those choices from the multi-version map.                         *)
(***************************************************************************)
EXTENDS Integers, Sequences

CONSTANTS
    NumTxns,         \* num_txns, the length of the block
    Threads,         \* the worker threads of the scope
    Committer,       \* the one whose committing.swap(false) returned true
    HintGraph,       \* hint_graph: the hinted parents of every transaction
    GasEstimates,    \* gas_estimates
    NoParent,        \* the value that marks "no parent" in new(), 50000
    MaxIncarnation,  \* bound: no validation aborts this incarnation
    MaxList          \* bound: length to which spinning readers grow a list

Txns == 0 .. NumTxns - 1

ASSUME BlockAssumption ==
    /\ NumTxns \in Nat \ {0}
    /\ Committer \in Threads
    /\ MaxIncarnation \in Nat
    /\ MaxList \in Nat

\* A hint names a transaction that is lower in the block.
ASSUME HintAssumption ==
    /\ HintGraph \in [Txns -> Seq(Txns)]
    /\ \A t \in Txns : \A i \in 1 .. Len(HintGraph[t]) : HintGraph[t][i] < t

ASSUME GasAssumption ==
    /\ GasEstimates \in [Txns -> Nat]
    /\ NoParent \in Nat

VARIABLES
    txn_status,                \* execution status of each transaction
    maybe_max_validated_wave,  \* validation status: -1 is None
    max_triggered_wave,        \* validation status
    validation_idx,            \* the packed (index, wave) pair
    commit_state,              \* (commit_idx, commit_wave), of the committer
    done_marker,
    priochannels,              \* FIFO of indices that have children
    channels,                  \* FIFO of indices that have none
    critical_path_parent,      \* per transaction, who is to be sent after it
    pc,                        \* per thread, the next step
    task,                      \* per thread, scheduler_task
    finished_val_flag,         \* per thread
    call,                      \* per thread, locals of the call in progress
    iter                       \* per thread, the loop of finish_execution

waves == <<maybe_max_validated_wave, max_triggered_wave, validation_idx>>
commits == <<commit_state, done_marker>>
queues == <<priochannels, channels>>
locals == <<pc, task, finished_val_flag, call, iter>>
vars == <<txn_status, waves, commits, queues, critical_path_parent, locals>>

-----------------------------------------------------------------------------
(* Types *)

StatusNames == {"ReadyToExecute", "Executing", "Executed", "Committed",
                "Aborting"}

Status(st, inc) == [st |-> st, inc |-> inc]

TaskOf(kind, t, inc, wave) ==
    [kind |-> kind, txn |-> t, inc |-> inc, wave |-> wave]

NoTask == TaskOf("NoTask", 0, 0, 0)

NoCall == [txn |-> 0, dep |-> 0, inc |-> 0, caller |-> "none"]

NoIter == [txn |-> 0, pos |-> 1, cnt |-> 0]

Max2(a, b) == IF a >= b THEN a ELSE b

-----------------------------------------------------------------------------
(* Scheduler::new *)

\* The hinted children of t.
children(t) ==
    {c \in Txns : \E i \in 1 .. Len(HintGraph[c]) : HintGraph[c][i] = t}

\* The loop over the hinted parents of t keeps the first one of the highest
\* path cost, if any cost exceeds 0.  path_cost holds the costs of the lower
\* transactions.
SlowestParent(t, path_cost) ==
    LET cost(i) == path_cost[HintGraph[t][i]]
        Best == {i \in 1 .. Len(HintGraph[t]) :
                    /\ cost(i) > 0
                    /\ \A j \in 1 .. Len(HintGraph[t]) : cost(j) <= cost(i)
                    /\ \A j \in 1 .. (i - 1) : cost(j) < cost(i)}
    IN  IF Best = {} THEN NoParent ELSE HintGraph[t][CHOOSE i \in Best : TRUE]

\* path_cost[n] is the vector after the iterations 0 .. n - 1.
path_cost[n \in 0 .. NumTxns] ==
    IF n = 0
    THEN GasEstimates
    ELSE LET prev == path_cost[n - 1]
             p == SlowestParent(n - 1, prev)
             hinted == \E i \in 1 .. Len(HintGraph[n - 1]) :
                           prev[HintGraph[n - 1][i]] > 0
         IN  IF hinted THEN [prev EXCEPT ![n - 1] = @ + prev[p]] ELSE prev

parent(t) == SlowestParent(t, path_cost[t])

\* What a loop over 0..num_txns leaves in a queue when it sends the members
\* of S: the sequence of S in ascending order, the one element of this set.
Ascending(S) ==
    {s \in UNION {[1 .. n -> S] : n \in 0 .. NumTxns} :
        /\ \A i, j \in 1 .. Len(s) : i < j => s[i] < s[j]
        /\ \A t \in S : \E i \in 1 .. Len(s) : s[i] = t}

\* send_vec, and the transactions that wait for p instead.
send_vec == {t \in Txns : parent(t) = NoParent}

assigned(p) == {t \in Txns : parent(t) = p /\ p # NoParent}

Init ==
    /\ txn_status = [t \in Txns |-> Status("ReadyToExecute", 0)]
    /\ maybe_max_validated_wave = [t \in Txns |-> -1]
    /\ max_triggered_wave = [t \in Txns |-> 0]
    /\ validation_idx = [idx |-> 0, wave |-> 0]
    /\ commit_state = [idx |-> 0, wave |-> 0]
    /\ done_marker = FALSE
    /\ critical_path_parent \in
          [Txns -> UNION {Ascending(assigned(p)) : p \in Txns}]
    /\ \A p \in Txns : critical_path_parent[p] \in Ascending(assigned(p))
    /\ channels \in Ascending({t \in send_vec : children(t) = {}})
    /\ priochannels \in Ascending({t \in send_vec : children(t) # {}})
    /\ pc = [th \in Threads |-> IF th = Committer THEN "commit" ELSE "work"]
    /\ task = [th \in Threads |-> NoTask]
    /\ finished_val_flag = [th \in Threads |-> FALSE]
    /\ call = [th \in Threads |-> NoCall]
    /\ iter = [th \in Threads |-> NoIter]

-----------------------------------------------------------------------------
(* Locks.  A thread holds the status lock of t while try_incarnate(t) is    *)
(* past its acquisition, the validation lock of t throughout                *)
(* finish_abort(t), and valock in try_validate_next_version.                *)

\* Faulty: try_incarnate gives up the write lock before it updates the status.
StatusUnlocked(t) == FALSE

StatusLocked(t) ==
    \E th \in Threads :
        /\ pc[th] \in {"dep", "push", "recheck"}
        /\ call[th].txn = t

ValidationLocked(t) ==
    \E th \in Threads :
        \/ pc[th] = "decrease" /\ task[th].txn = t
        \/ /\ pc[th] \in {"lock", "dep", "push", "recheck"}
           /\ call[th].caller = "abort"
           /\ call[th].txn = t

valock == \E th \in Threads : pc[th] \in {"valcheck", "valadd"}

\* is_executed(t, include_committed), under the read lock of t.
is_executed(t, include_committed) ==
    \/ txn_status[t].st = "Executed"
    \/ include_committed /\ txn_status[t].st = "Committed"

-----------------------------------------------------------------------------
(* The worker loop *)

\* The top of the loop: the committing thread first tries to commit.
Top(th) == IF th = Committer THEN "commit" ELSE "work"

Goto(th, label) == pc' = [pc EXCEPT ![th] = label]

Call(th, t, caller) ==
    /\ call' = [call EXCEPT ![th] = [NoCall EXCEPT !.txn = t, !.caller = caller]]
    /\ Goto(th, "lock")

AtTask(th, kind) == pc[th] = "work" /\ task[th].kind = kind

\* try_commit finds the next transaction executed and can take its locks.
CommitCandidate ==
    /\ commit_state.idx < NumTxns
    /\ ~ValidationLocked(commit_state.idx)
    /\ ~StatusLocked(commit_state.idx)
    /\ txn_status[commit_state.idx].st = "Executed"

CommitWave ==
    Max2(commit_state.wave, max_triggered_wave[commit_state.idx])

CanCommit ==
    /\ CommitCandidate
    /\ maybe_max_validated_wave[commit_state.idx] >= CommitWave

\* try_commit returns Some(index): the committing loop goes round again.
\* required_wave is never assigned after new(), where it is 0.
TryCommit(th) ==
    /\ pc[th] = "commit"
    /\ CanCommit
    /\ txn_status' = [txn_status EXCEPT ![commit_state.idx].st = "Committed"]
    /\ commit_state' = [idx |-> commit_state.idx + 1, wave |-> CommitWave]
    /\ UNCHANGED <<waves, done_marker, queues, critical_path_parent, locals>>

\* try_commit returns None.
TryCommitNone(th) ==
    /\ pc[th] = "commit"
    /\ ~CanCommit
    /\ done_marker' = (done_marker \/ commit_state.idx = NumTxns)
    /\ commit_state' =
          [commit_state EXCEPT !.wave = IF CommitCandidate THEN CommitWave ELSE @]
    /\ Goto(th, "work")
    /\ UNCHANGED <<txn_status, waves, queues, critical_path_parent,
                   task, finished_val_flag, call, iter>>

\* next_task returns Done and the thread leaves the loop.
Exit(th) ==
    /\ AtTask(th, "NoTask")
    /\ finished_val_flag[th] /\ done_marker
    /\ Goto(th, "exit")
    /\ UNCHANGED <<txn_status, waves, commits, queues, critical_path_parent,
                   task, finished_val_flag, call, iter>>

\* next_task, up to the first try_recv of try_exec.  done_marker never falls,
\* so its test and the try_recv are one step.
RecvPrio(th) ==
    /\ AtTask(th, "NoTask")
    /\ ~(finished_val_flag[th] /\ done_marker)
    /\ \/ /\ priochannels # <<>>
          /\ priochannels' = Tail(priochannels)
          /\ Call(th, Head(priochannels), "prio")
       \/ /\ priochannels = <<>>
          /\ Goto(th, "chan")
          /\ UNCHANGED <<priochannels, call>>
    /\ UNCHANGED <<txn_status, waves, commits, channels, critical_path_parent,
                   task, finished_val_flag, iter>>

\* try_exec has no task: next_task validates unless the flag is set.
NoExec(th) == IF finished_val_flag[th] THEN Top(th) ELSE "tryval"

\* The second try_recv of try_exec.
RecvChan(th) ==
    /\ pc[th] = "chan"
    /\ \/ /\ channels # <<>>
          /\ channels' = Tail(channels)
          /\ Call(th, Head(channels), "chan")
       \/ /\ channels = <<>>
          /\ Goto(th, NoExec(th))
          /\ UNCHANGED <<channels, call>>
    /\ UNCHANGED <<txn_status, waves, commits, priochannels,
                   critical_path_parent, task, finished_val_flag, iter>>

-----------------------------------------------------------------------------
(* try_validate_next_version *)

\* Faulty: the bound is tested with > instead of >=.
LoadValidationIdxPastEnd(th) ==
    /\ pc[th] = "tryval"
    /\ ~valock
    /\ validation_idx.idx <= NumTxns
    /\ call' = [call EXCEPT ![th] = [NoCall EXCEPT !.txn = validation_idx.idx]]
    /\ Goto(th, "valcheck")
    /\ UNCHANGED <<txn_status, waves, commits, queues, critical_path_parent,
                   task, finished_val_flag, iter>>

\* valock.try_lock() and the load of validation_idx.
LoadValidationIdx(th) ==
    /\ pc[th] = "tryval"
    /\ \/ /\ valock
          /\ Goto(th, Top(th))
          /\ UNCHANGED <<finished_val_flag, call>>
       \/ /\ ~valock
          /\ validation_idx.idx >= NumTxns
          /\ finished_val_flag' = [finished_val_flag EXCEPT ![th] = TRUE]
          /\ Goto(th, Top(th))
          /\ UNCHANGED call
       \/ /\ ~valock
          /\ validation_idx.idx < NumTxns
          /\ call' = [call EXCEPT ![th] = [NoCall EXCEPT !.txn = validation_idx.idx]]
          /\ Goto(th, "valcheck")
          /\ UNCHANGED finished_val_flag
    /\ UNCHANGED <<txn_status, waves, commits, queues, critical_path_parent,
                   task, iter>>

\* Faulty: a transaction that is not executed yet ends the validation.
CheckExecutedGivesUp(th) ==
    /\ pc[th] = "valcheck"
    /\ ~StatusLocked(call[th].txn)
    /\ \/ /\ is_executed(call[th].txn, FALSE)
          /\ call' = [call EXCEPT
                         ![th] = [NoCall EXCEPT !.inc = txn_status[call[th].txn].inc]]
          /\ Goto(th, "valadd")
          /\ UNCHANGED finished_val_flag
       \/ /\ ~is_executed(call[th].txn, FALSE)
          /\ call' = [call EXCEPT ![th] = NoCall]
          /\ finished_val_flag' = [finished_val_flag EXCEPT ![th] = TRUE]
          /\ Goto(th, Top(th))
    /\ UNCHANGED <<txn_status, waves, commits, queues, critical_path_parent,
                   task, iter>>

\* is_executed(idx_to_validate, false).
CheckExecuted(th) ==
    /\ pc[th] = "valcheck"
    /\ ~StatusLocked(call[th].txn)
    /\ \/ /\ is_executed(call[th].txn, FALSE)
          /\ call' = [call EXCEPT
                         ![th] = [NoCall EXCEPT !.inc = txn_status[call[th].txn].inc]]
          /\ Goto(th, "valadd")
       \/ /\ ~is_executed(call[th].txn, FALSE)
          /\ call' = [call EXCEPT ![th] = NoCall]
          /\ Goto(th, Top(th))
    /\ UNCHANGED <<txn_status, waves, commits, queues, critical_path_parent,
                   task, finished_val_flag, iter>>

\* fetch_add(1): the task takes the index and the wave read here, and the
\* incarnation that is_executed returned.
FetchAddValidationIdx(th) ==
    /\ pc[th] = "valadd"
    /\ validation_idx' = [validation_idx EXCEPT !.idx = @ + 1]
    /\ task' = [task EXCEPT ![th] = TaskOf("ValidationTask", validation_idx.idx,
                                           call[th].inc, validation_idx.wave)]
    /\ call' = [call EXCEPT ![th] = NoCall]
    /\ Goto(th, Top(th))
    /\ UNCHANGED <<txn_status, maybe_max_validated_wave, max_triggered_wave,
                   commits, queues, critical_path_parent, finished_val_flag, iter>>

-----------------------------------------------------------------------------
(* try_incarnate, called from try_exec, finish_execution and finish_abort   *)

\* Where its caller goes on when it returns None.
IncarnateFails(th) ==
    /\ call' = [call EXCEPT ![th] = NoCall]
    /\ CASE call[th].caller = "prio"   -> Goto(th, "chan") /\ UNCHANGED iter
         [] call[th].caller = "chan"   -> Goto(th, NoExec(th)) /\ UNCHANGED iter
         [] call[th].caller = "abort"  -> Goto(th, Top(th)) /\ UNCHANGED iter
         [] call[th].caller = "finish" ->
                /\ Goto(th, "items")
                /\ iter' = [iter EXCEPT ![th].pos = @ + 1]

\* The write lock, and the match on ReadyToExecute.
LockStatus(th) ==
    /\ pc[th] = "lock"
    /\ ~StatusLocked(call[th].txn)
    /\ \/ /\ txn_status[call[th].txn].st = "ReadyToExecute"
          /\ call' = [call EXCEPT ![th].dep = Len(HintGraph[call[th].txn])]
          /\ Goto(th, "dep")
          /\ UNCHANGED iter
       \/ /\ txn_status[call[th].txn].st # "ReadyToExecute"
          /\ IncarnateFails(th)
    /\ UNCHANGED <<txn_status, waves, commits, queues, critical_path_parent,
                   task, finished_val_flag>>

\* The hint the reversed loop is at.
Hint(th) == HintGraph[call[th].txn][call[th].dep]

\* The first is_executed of the loop body.
CheckHint(th) ==
    /\ pc[th] = "dep"
    /\ call[th].dep > 0
    /\ ~StatusLocked(Hint(th))
    /\ \/ /\ is_executed(Hint(th), TRUE)
          /\ call' = [call EXCEPT ![th].dep = @ - 1]
          /\ UNCHANGED pc
       \/ /\ ~is_executed(Hint(th), TRUE)
          /\ Goto(th, "push")
          /\ UNCHANGED call
    /\ UNCHANGED <<txn_status, waves, commits, queues, critical_path_parent,
                   task, finished_val_flag, iter>>

\* critical_path_parent[usize_dep].push(txn_idx), taken to be atomic.  Within
\* boxcar's push a slot is reserved before it is filled and counted; with three
\* workers or more a finisher may count a later push and meet an earlier slot that
\* is not filled yet, and is assumed to see it filled.
PushHint(th) ==
    /\ pc[th] = "push"
    /\ critical_path_parent' =
          [critical_path_parent EXCEPT ![Hint(th)] = Append(@, call[th].txn)]
    /\ Goto(th, "recheck")
    /\ UNCHANGED <<txn_status, waves, commits, queues, task, finished_val_flag,
                   call, iter>>

\* Faulty: no second look after the push.
RecheckHintSkipped(th) ==
    /\ pc[th] = "recheck"
    /\ IncarnateFails(th)
    /\ UNCHANGED <<txn_status, waves, commits, queues, critical_path_parent,
                   task, finished_val_flag>>

\* The second is_executed.
RecheckHint(th) ==
    /\ pc[th] = "recheck"
    /\ ~StatusLocked(Hint(th))
    /\ \/ /\ is_executed(Hint(th), TRUE)
          /\ call' = [call EXCEPT ![th].dep = @ - 1]
          /\ Goto(th, "dep")
          /\ UNCHANGED iter
       \/ /\ ~is_executed(Hint(th), TRUE)
          /\ IncarnateFails(th)
    /\ UNCHANGED <<txn_status, waves, commits, queues, critical_path_parent,
                   task, finished_val_flag>>

\* Past the loop: Executing(incarnation), and the task for the caller.
Incarnate(th) ==
    LET t == call[th].txn
        inc == txn_status[t].inc
    IN  /\ pc[th] = "dep"
        /\ call[th].dep = 0
        /\ txn_status' = [txn_status EXCEPT ![t] = Status("Executing", inc)]
        /\ task' = [task EXCEPT ![th] = TaskOf("ExecutionTask", t, inc, 0)]
        /\ call' = [call EXCEPT ![th] = NoCall]
        /\ \/ /\ call[th].caller = "finish"
              /\ Goto(th, "items")
              /\ iter' = [iter EXCEPT ![th].pos = @ + 1]
           \/ /\ call[th].caller # "finish"
              /\ Goto(th, Top(th))
              /\ UNCHANGED iter
        /\ UNCHANGED <<waves, commits, queues, critical_path_parent,
                       finished_val_flag>>

-----------------------------------------------------------------------------
(* Calls made while executing and validating *)

\* A read met the ESTIMATE of dep: the transaction is pushed on its list and
\* the read is tried again.  MaxList bounds what the spinning adds.
WaitForDependency(th, dep) ==
    /\ AtTask(th, "ExecutionTask")
    /\ dep < task[th].txn
    /\ Len(critical_path_parent[dep]) < MaxList
    /\ critical_path_parent' =
          [critical_path_parent EXCEPT ![dep] = Append(@, task[th].txn)]
    /\ UNCHANGED <<txn_status, waves, commits, queues, locals>>

\* finish_execution begins with set_executed_status.
SetExecuted(th) ==
    LET t == task[th].txn
    IN  /\ AtTask(th, "ExecutionTask")
        /\ ~StatusLocked(t)
        /\ txn_status' = [txn_status EXCEPT ![t] = Status("Executed", task[th].inc)]
        /\ task' = [task EXCEPT ![th] = NoTask]
        /\ iter' = [iter EXCEPT ![th] = [NoIter EXCEPT !.txn = t]]
        /\ Goto(th, "count")
        /\ UNCHANGED <<waves, commits, queues, critical_path_parent,
                       finished_val_flag, call>>

\* Faulty: the loop stops before the last child.
CountChildrenShort(th) ==
    /\ pc[th] = "count"
    /\ iter' = [iter EXCEPT
                   ![th].cnt = Max2(0, Len(critical_path_parent[iter[th].txn]) - 1)]
    /\ Goto(th, "items")
    /\ UNCHANGED <<txn_status, waves, commits, queues, critical_path_parent,
                   task, finished_val_flag, call>>

\* The range of the loop is fixed by count() when the loop starts.
CountChildren(th) ==
    /\ pc[th] = "count"
    /\ iter' = [iter EXCEPT ![th].cnt = Len(critical_path_parent[iter[th].txn])]
    /\ Goto(th, "items")
    /\ UNCHANGED <<txn_status, waves, commits, queues, critical_path_parent,
                   task, finished_val_flag, call>>

\* One iteration: send to channels, incarnate as the next task, or send to
\* priochannels once there is a next task.
ReleaseChild(th) ==
    LET tx == critical_path_parent[iter[th].txn][iter[th].pos]
    IN  /\ pc[th] = "items"
        /\ iter[th].pos <= iter[th].cnt
        /\ \/ /\ children(tx) = {}
              /\ channels' = Append(channels, tx)
              /\ iter' = [iter EXCEPT ![th].pos = @ + 1]
              /\ UNCHANGED <<priochannels, pc, call>>
           \/ /\ children(tx) # {}
              /\ task[th] = NoTask
              /\ Call(th, tx, "finish")
              /\ UNCHANGED <<queues, iter>>
           \/ /\ children(tx) # {}
              /\ task[th] # NoTask
              /\ priochannels' = Append(priochannels, tx)
              /\ iter' = [iter EXCEPT ![th].pos = @ + 1]
              /\ UNCHANGED <<channels, pc, call>>
        /\ UNCHANGED <<txn_status, waves, commits, critical_path_parent,
                       task, finished_val_flag>>

\* finish_execution returns next.
EndFinishExecution(th) ==
    /\ pc[th] = "items"
    /\ iter[th].pos > iter[th].cnt
    /\ iter' = [iter EXCEPT ![th] = NoIter]
    /\ Goto(th, Top(th))
    /\ UNCHANGED <<txn_status, waves, commits, queues, critical_path_parent,
                   task, finished_val_flag, call>>

\* Faulty: only the incarnation is compared, not the status.
TryAbortAnyStatus(th) ==
    LET t == task[th].txn
    IN  /\ AtTask(th, "ValidationTask")
        /\ ~StatusLocked(t)
        /\ txn_status[t].inc = task[th].inc
        /\ task[th].inc < MaxIncarnation
        /\ txn_status' = [txn_status EXCEPT ![t] = Status("Aborting", task[th].inc)]
        /\ Goto(th, "abort")
        /\ UNCHANGED <<waves, commits, queues, critical_path_parent,
                       task, finished_val_flag, call, iter>>

\* The validation failed: try_abort.
TryAbort(th) ==
    LET t == task[th].txn
    IN  /\ AtTask(th, "ValidationTask")
        /\ ~StatusLocked(t)
        /\ \/ /\ txn_status[t] = Status("Executed", task[th].inc)
              /\ task[th].inc < MaxIncarnation
              /\ txn_status' =
                    [txn_status EXCEPT ![t] = Status("Aborting", task[th].inc)]
              /\ Goto(th, "abort")
           \/ /\ txn_status[t] # Status("Executed", task[th].inc)
              /\ Goto(th, "finval")
              /\ UNCHANGED txn_status
        /\ UNCHANGED <<waves, commits, queues, critical_path_parent,
                       task, finished_val_flag, call, iter>>

\* finish_validation: the validation succeeded, or the abort did not.
FinishValidation(th) ==
    LET t == task[th].txn
    IN  /\ AtTask(th, "ValidationTask") \/ pc[th] = "finval"
        /\ ~ValidationLocked(t)
        /\ maybe_max_validated_wave' =
              [maybe_max_validated_wave EXCEPT ![t] = Max2(@, task[th].wave)]
        /\ task' = [task EXCEPT ![th] = NoTask]
        /\ Goto(th, Top(th))
        /\ UNCHANGED <<txn_status, max_triggered_wave, validation_idx, commits,
                       queues, critical_path_parent, finished_val_flag, call, iter>>

\* Faulty: the incarnation is not incremented.
SetAbortedSameIncarnation(th) ==
    LET t == task[th].txn
    IN  /\ pc[th] = "abort"
        /\ ~ValidationLocked(t)
        /\ ~StatusLocked(t)
        /\ txn_status' =
              [txn_status EXCEPT ![t] = Status("ReadyToExecute", task[th].inc)]
        /\ Goto(th, "decrease")
        /\ UNCHANGED <<waves, commits, queues, critical_path_parent,
                       task, finished_val_flag, call, iter>>

\* finish_abort: the validation lock, then set_aborted_status.
SetAborted(th) ==
    LET t == task[th].txn
    IN  /\ pc[th] = "abort"
        /\ ~ValidationLocked(t)
        /\ ~StatusLocked(t)
        /\ txn_status' =
              [txn_status EXCEPT ![t] = Status("ReadyToExecute", task[th].inc + 1)]
        /\ Goto(th, "decrease")
        /\ UNCHANGED <<waves, commits, queues, critical_path_parent,
                       task, finished_val_flag, call, iter>>

\* Faulty: the whole block is validated again.
DecreaseValidationIdxToZero(th) ==
    LET t == task[th].txn
    IN  /\ pc[th] = "decrease"
        /\ validation_idx' = [idx |-> 0, wave |-> validation_idx.wave + 1]
        /\ max_triggered_wave' =
              [max_triggered_wave EXCEPT ![t] = validation_idx.wave + 1]
        /\ task' = [task EXCEPT ![th] = NoTask]
        /\ Call(th, t, "abort")
        /\ UNCHANGED <<txn_status, maybe_max_validated_wave, commits, queues,
                       critical_path_parent, finished_val_flag, iter>>

\* finish_abort: decrease_validation_idx, then try_incarnate.
DecreaseValidationIdx(th) ==
    LET t == task[th].txn
    IN  /\ pc[th] = "decrease"
        /\ \/ /\ validation_idx.idx > t
              /\ validation_idx' = [idx |-> t, wave |-> validation_idx.wave + 1]
              /\ max_triggered_wave' =
                    [max_triggered_wave EXCEPT ![t] = validation_idx.wave + 1]
           \/ /\ validation_idx.idx <= t
              /\ UNCHANGED <<validation_idx, max_triggered_wave>>
        /\ task' = [task EXCEPT ![th] = NoTask]
        /\ Call(th, t, "abort")
        /\ UNCHANGED <<txn_status, maybe_max_validated_wave, commits, queues,
                       critical_path_parent, finished_val_flag, iter>>

-----------------------------------------------------------------------------
(* The specification *)

\* Steps inside the scheduler.
SchedulerStep(th) ==
    \/ TryCommit(th) \/ TryCommitNone(th) \/ Exit(th)
    \/ RecvPrio(th) \/ RecvChan(th)
    \/ LoadValidationIdx(th) \/ CheckExecuted(th) \/ FetchAddValidationIdx(th)
    \/ LockStatus(th) \/ CheckHint(th) \/ PushHint(th) \/ RecheckHint(th)
    \/ Incarnate(th)
    \/ CountChildren(th) \/ ReleaseChild(th) \/ EndFinishExecution(th)
    \/ DecreaseValidationIdx(th)

\* Steps with which the executor enters it.
ExecutorStep(th) ==
    \/ \E dep \in Txns : WaitForDependency(th, dep)
    \/ SetExecuted(th) \/ TryAbort(th) \/ FinishValidation(th) \/ SetAborted(th)

\* The scope is joined once every worker has left its loop.
Joined ==
    /\ \A th \in Threads : pc[th] = "exit"
    /\ UNCHANGED vars

Next ==
    \/ \E th \in Threads : SchedulerStep(th) \/ ExecutorStep(th)
    \/ Joined

Spec == Init /\ [][Next]_vars

-----------------------------------------------------------------------------
(* Properties *)

Labels == {"commit", "work", "chan", "tryval", "valcheck", "valadd", "lock",
           "dep", "push", "recheck", "count", "items", "finval", "abort",
           "decrease", "exit"}

TaskType ==
    [kind : {"NoTask", "ExecutionTask", "ValidationTask"},
     txn : Txns, inc : Nat, wave : Nat]

CallType ==
    [txn : Txns, dep : Nat, inc : Nat,
     caller : {"none", "prio", "chan", "finish", "abort"}]

IterType == [txn : Txns, pos : Nat \ {0}, cnt : Nat]

\* Every variable of the scheduler and every local of a worker has its type;
\* in particular validation_idx and the indices taken from it stay in the block.
TypeOK ==
    /\ txn_status \in [Txns -> [st : StatusNames, inc : Nat]]
    /\ maybe_max_validated_wave \in [Txns -> Nat \cup {-1}]
    /\ max_triggered_wave \in [Txns -> Nat]
    /\ validation_idx \in [idx : 0 .. NumTxns, wave : Nat]
    /\ commit_state \in [idx : 0 .. NumTxns, wave : Nat]
    /\ done_marker \in BOOLEAN
    /\ priochannels \in Seq(Txns)
    /\ channels \in Seq(Txns)
    /\ critical_path_parent \in [Txns -> Seq(Txns)]
    /\ pc \in [Threads -> Labels]
    /\ task \in [Threads -> TaskType]
    /\ finished_val_flag \in [Threads -> BOOLEAN]
    /\ call \in [Threads -> CallType]
    /\ iter \in [Threads -> IterType]

\* A version is executed by one thread: whoever holds an execution task finds
\* the status Executing of that incarnation, which set_executed_status asserts,
\* and no two threads hold a task for one transaction.
ExclusiveExecution ==
    \A th \in Threads :
        task[th].kind = "ExecutionTask" =>
            /\ txn_status[task[th].txn] = Status("Executing", task[th].inc)
            /\ \A other \in Threads \ {th} :
                  task[other].kind = "ExecutionTask" =>
                      task[other].txn # task[th].txn

\* Only the first abort of a version succeeds: the thread between try_abort and
\* finish_abort finds Aborting of its incarnation, which set_aborted_status
\* asserts, and it is the only such thread.
ExclusiveAbort ==
    \A th \in Threads :
        pc[th] = "abort" =>
            /\ txn_status[task[th].txn] = Status("Aborting", task[th].inc)
            /\ \A other \in Threads \ {th} :
                  pc[other] = "abort" => task[other].txn # task[th].txn

\* try_commit commits the block in order: the committed transactions are those
\* below commit_idx, whatever is aborted and executed again meanwhile.
CommitPrefix ==
    \A t \in Txns : txn_status[t].st = "Committed" <=> t < commit_state.idx

\* finished_val_flag is never reset, although an abort lowers validation_idx
\* again: while validation_idx is inside the block, some worker still validates.
SomeoneValidates ==
    validation_idx.idx < NumTxns =>
        \E th \in Threads : ~finished_val_flag[th]

\* The thread is still to try t.
InHand(th, t) ==
    \/ pc[th] \in {"lock", "dep", "push", "recheck"} /\ call[th].txn = t
    \/ pc[th] = "decrease" /\ task[th].txn = t

\* A thread in finish_execution(d) is still to reach entry i of the list of d.
StillToRelease(th, d, i) ==
    /\ iter[th].txn = d
    /\ \/ pc[th] = "count"
       \/ /\ pc[th] = "items" \/ call[th].caller = "finish"
          /\ i \in iter[th].pos .. iter[th].cnt

\* No wake-up is lost between try_incarnate, which registers a transaction and
\* looks again, and finish_execution, which sets Executed and then reads the
\* list: a transaction that is ready is in a channel, in the hands of a thread,
\* or on the list of one that is still to execute or still to release it.
NoLostWakeup ==
    \A t \in Txns :
        txn_status[t].st = "ReadyToExecute" =>
            \/ \E i \in 1 .. Len(priochannels) : priochannels[i] = t
            \/ \E i \in 1 .. Len(channels) : channels[i] = t
            \/ \E th \in Threads : InHand(th, t)
            \/ \E d \in Txns : \E i \in 1 .. Len(critical_path_parent[d]) :
                  /\ critical_path_parent[d][i] = t
                  /\ \/ ~is_executed(d, TRUE)
                     \/ \E th \in Threads : StillToRelease(th, d, i)

\* try_validate_next_version takes no committed transaction, so validation
\* would stop for ever at one: validation_idx is past everything committed.
ValidationPastCommitted == commit_state.idx <= validation_idx.idx

\* The transition diagram above ExecutionStatus: what a step does to a status.
StatusStep(old, new) ==
    \/ new = old
    \/ old.st = "ReadyToExecute" /\ new = Status("Executing", old.inc)
    \/ old.st = "Executing" /\ new = Status("Executed", old.inc)
    \/ old.st = "Executed" /\ new.st \in {"Committed", "Aborting"} /\ new.inc = old.inc
    \/ old.st = "Aborting" /\ new = Status("ReadyToExecute", old.inc + 1)

\* Statuses move along the documented diagram only; a commit is final and
\* incarnation numbers never decrease.
StatusTransitions ==
    [][\A t \in Txns : StatusStep(txn_status[t], txn_status'[t])]_txn_status

=============================================================================
