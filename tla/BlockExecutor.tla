--------------------------- MODULE BlockExecutor ---------------------------
(***************************************************************************)
(* Parallel execution of a block: the workers of executor.rs execute and   *)
(* validate transactions against the multi-version map, as the scheduler   *)
(* directs.  The module composes Scheduler with MVHashMap, and takes from  *)
(* the data the choices that Scheduler leaves open: an execution meets an  *)
(* ESTIMATE when its view (view.rs) reads one, and a validation fails when *)
(* a recorded read (txn_last_input_output.rs) no longer reads the same.    *)
(*                                                                         *)
(* A step is one operation on the map, on the recorded inputs and outputs, *)
(* or one step of the scheduler.                                           *)
(***************************************************************************)
EXTENDS Scheduler, MVHashMap

CONSTANTS
    Keys,            \* access paths
    NoKey,           \* no further read
    Storage,         \* base_view: the value of every key before the block
    NextRead(_, _),  \* the key a transaction reads after what it has seen
    Output(_, _),    \* its status, writes and deltas, from all it has seen
    MaxReads         \* bound: the reads of a transaction

ASSUME StorageAssumption ==
    /\ NoKey \notin Keys
    /\ Storage \in [Keys -> Nat \cup {Deletion}]

VARIABLES
    data,      \* versioned_data_cache: per key, the map of its versions
    inputs,    \* per transaction, the recorded read-set
    outputs,   \* per transaction, the recorded output
    reads,     \* per thread, captured reads; when validating, those unchecked
    seen,      \* per thread, the values the running transaction has read
    handled,   \* per thread, keys of the output applied, or of it marked
    stage      \* per thread, how far the task has come

locals_data == <<reads, seen, handled, stage>>
data_vars == <<data, inputs, outputs, locals_data>>
all_vars == <<vars, data_vars>>

Unrecorded == [recorded |-> FALSE]

Recorded(value) == [recorded |-> TRUE, value |-> value]

InitData ==
    /\ data = [k \in Keys |-> [t \in Txns |-> NoEntry]]
    /\ inputs = [t \in Txns |-> Unrecorded]
    /\ outputs = [t \in Txns |-> Unrecorded]
    /\ reads = [th \in Threads |-> <<>>]
    /\ seen = [th \in Threads |-> <<>>]
    /\ handled = [th \in Threads |-> {}]
    /\ stage = [th \in Threads |-> "start"]

\* The locals of a task are dropped with it.
DropLocals(th) ==
    /\ reads' = [reads EXCEPT ![th] = <<>>]
    /\ seen' = [seen EXCEPT ![th] = <<>>]
    /\ handled' = [handled EXCEPT ![th] = {}]
    /\ stage' = [stage EXCEPT ![th] = "start"]

-----------------------------------------------------------------------------
(* MVHashMapView::read and the VM *)

\* ReadKind: the value of a versioned write is not part of it.
ReadKind(result) ==
    IF result.kind = "Version"
    THEN [kind |-> "Version", idx |-> result.idx, inc |-> result.inc]
    ELSE result

Running(th) == AtTask(th, "ExecutionTask") /\ stage[th] = "start"

Wanted(th) == NextRead(task[th].txn, seen[th])

\* A read that returns to the VM.
ReadKey(th) ==
    /\ Running(th)
    /\ Wanted(th) # NoKey
    /\ LET key == Wanted(th)
           result == read(data[key], task[th].txn)
       IN  /\ result.kind # "Dependency"
           /\ reads' = [reads EXCEPT
                 ![th] = Append(@, [key |-> key, kind |-> ReadKind(result)])]
           /\ seen' = [seen EXCEPT ![th] = Append(@, ValueOf(result, Storage[key]))]
    /\ UNCHANGED <<vars, data, inputs, outputs, handled, stage>>

\* A read that meets an ESTIMATE: wait_for_dependency returns None, so the loop
\* of the view reads again.
SpinOnEstimate(th) ==
    /\ Running(th)
    /\ Wanted(th) # NoKey
    /\ LET result == read(data[Wanted(th)], task[th].txn)
       IN  /\ result.kind = "Dependency"
           /\ WaitForDependency(th, result.idx)
    /\ UNCHANGED data_vars

-----------------------------------------------------------------------------
(* execute: apply the output, record it, finish *)

Result(th) == Output(task[th].txn, seen[th])

\* modified_keys of an output; one that aborts modifies nothing.
ModifiedKeys(output) ==
    IF output.status = "Abort" THEN {}
    ELSE DOMAIN output.writes \cup DOMAIN output.deltas

modified_keys(t) ==
    IF outputs[t].recorded THEN ModifiedKeys(outputs[t].value) ELSE {}

Writes(output) == IF output.status = "Abort" THEN {} ELSE DOMAIN output.writes

Applying(th) == Running(th) /\ Wanted(th) = NoKey

\* One add_write of apply_updates.
ApplyWrite(th, k) ==
    /\ Applying(th)
    /\ k \in Writes(Result(th)) \ handled[th]
    /\ data' = [data EXCEPT ![k] = add_write(@, task[th].txn, task[th].inc,
                                             Result(th).writes[k])]
    /\ handled' = [handled EXCEPT ![th] = @ \cup {k}]
    /\ UNCHANGED <<vars, inputs, outputs, reads, seen, stage>>

\* One add_delta, after the writes.
ApplyDelta(th, k) ==
    /\ Applying(th)
    /\ Writes(Result(th)) \subseteq handled[th]
    /\ k \in ModifiedKeys(Result(th)) \ handled[th]
    /\ data' = [data EXCEPT ![k] = add_delta(@, task[th].txn, Result(th).deltas[k])]
    /\ handled' = [handled EXCEPT ![th] = @ \cup {k}]
    /\ UNCHANGED <<vars, inputs, outputs, reads, seen, stage>>

\* One delete of what only the previous incarnation modified.
DeleteStale(th, k) ==
    /\ Applying(th)
    /\ ModifiedKeys(Result(th)) \subseteq handled[th]
    /\ k \in modified_keys(task[th].txn) \ handled[th]
    /\ data' = [data EXCEPT ![k] = delete(@, task[th].txn)]
    /\ handled' = [handled EXCEPT ![th] = @ \cup {k}]
    /\ UNCHANGED <<vars, inputs, outputs, reads, seen, stage>>

\* Faulty: recorded before the updates are applied.
RecordOutputEarly(th) ==
    LET t == task[th].txn
    IN  /\ Applying(th)
        /\ inputs' = [inputs EXCEPT ![t] = Recorded(reads[th])]
        /\ outputs' = [outputs EXCEPT ![t] = Recorded(Result(th))]
        /\ stage' = [stage EXCEPT ![th] = "recorded"]
        /\ UNCHANGED <<vars, data, reads, seen, handled>>

\* last_input_output.record.
RecordOutput(th) ==
    LET t == task[th].txn
    IN  /\ Applying(th)
        /\ handled[th] = ModifiedKeys(Result(th)) \cup modified_keys(t)
        /\ inputs' = [inputs EXCEPT ![t] = Recorded(reads[th])]
        /\ outputs' = [outputs EXCEPT ![t] = Recorded(Result(th))]
        /\ stage' = [stage EXCEPT ![th] = "recorded"]
        /\ UNCHANGED <<vars, data, reads, seen, handled>>

\* scheduler.finish_execution.
FinishExecution(th) ==
    /\ stage[th] = "recorded"
    /\ SetExecuted(th)
    /\ DropLocals(th)
    /\ UNCHANGED <<data, inputs, outputs>>

-----------------------------------------------------------------------------
(* validate *)

Validating(th, s) == AtTask(th, "ValidationTask") /\ stage[th] = s

\* The read-set is loaded once; the expect needs it recorded.
LoadReadSet(th) ==
    /\ Validating(th, "start")
    /\ inputs[task[th].txn].recorded
    /\ reads' = [reads EXCEPT ![th] = inputs[task[th].txn].value]
    /\ stage' = [stage EXCEPT ![th] = "check"]
    /\ UNCHANGED <<vars, data, inputs, outputs, seen, handled>>

\* Faulty: a read from storage stays valid.
StillReadsFromStorage(r, t) ==
    r.kind = NotFound \/ ReadKind(read(data[r.key], t)) = r.kind

\* Faulty: every read-set is valid.
StillReadsAlways(r, t) == TRUE

StillReads(r, t) == ReadKind(read(data[r.key], t)) = r.kind

\* One read of the all(): the first that differs ends it.
CheckRead(th) ==
    /\ Validating(th, "check")
    /\ reads[th] # <<>>
    /\ \/ /\ StillReads(Head(reads[th]), task[th].txn)
          /\ reads' = [reads EXCEPT ![th] = Tail(@)]
          /\ UNCHANGED stage
       \/ /\ ~StillReads(Head(reads[th]), task[th].txn)
          /\ reads' = [reads EXCEPT ![th] = <<>>]
          /\ stage' = [stage EXCEPT ![th] = "invalid"]
    /\ UNCHANGED <<vars, data, inputs, outputs, seen, handled>>

\* !valid && try_abort.
AbortInvalid(th) ==
    /\ Validating(th, "invalid")
    /\ TryAbort(th)
    /\ UNCHANGED data_vars

\* One mark_estimate of the aborted incarnation.
MarkEstimate(th, k) ==
    /\ pc[th] = "abort"
    /\ k \in modified_keys(task[th].txn) \ handled[th]
    /\ data' = [data EXCEPT ![k] = mark_estimate(@, task[th].txn)]
    /\ handled' = [handled EXCEPT ![th] = @ \cup {k}]
    /\ UNCHANGED <<vars, inputs, outputs, reads, seen, stage>>

\* scheduler.finish_abort.
FinishAbort(th) ==
    /\ handled[th] = modified_keys(task[th].txn)
    /\ SetAborted(th)
    /\ DropLocals(th)
    /\ UNCHANGED <<data, inputs, outputs>>

\* scheduler.finish_validation, for a valid read-set and for a failed abort.
AcceptValidation(th) ==
    /\ (Validating(th, "check") /\ reads[th] = <<>>) \/ pc[th] = "finval"
    /\ FinishValidation(th)
    /\ DropLocals(th)
    /\ UNCHANGED <<data, inputs, outputs>>

-----------------------------------------------------------------------------
(* The specification *)

Execute(th) ==
    \/ ReadKey(th) \/ SpinOnEstimate(th)
    \/ \E k \in Keys : ApplyWrite(th, k) \/ ApplyDelta(th, k) \/ DeleteStale(th, k)
    \/ RecordOutput(th) \/ FinishExecution(th)

Validate(th) ==
    \/ LoadReadSet(th) \/ CheckRead(th) \/ AbortInvalid(th)
    \/ \E k \in Keys : MarkEstimate(th, k)
    \/ FinishAbort(th) \/ AcceptValidation(th)

Schedule(th) == SchedulerStep(th) /\ UNCHANGED data_vars

WorkTask(th) == Execute(th) \/ Validate(th) \/ Schedule(th)

BlockInit == Init /\ InitData

BlockNext ==
    \/ \E th \in Threads : WorkTask(th)
    \/ Joined /\ UNCHANGED data_vars

BlockSpec == BlockInit /\ [][BlockNext]_all_vars

\* Every worker keeps running.
FairBlockSpec == BlockSpec /\ \A th \in Threads : WF_all_vars(WorkTask(th))

-----------------------------------------------------------------------------
(* Properties *)

\* The expects of validate and mark_estimate: whoever validates finds a recorded
\* read-set, and whoever aborts finds an entry for every key it has to mark.
NothingMissing ==
    \A th \in Threads :
        /\ AtTask(th, "ValidationTask") => inputs[task[th].txn].recorded
        /\ pc[th] = "abort" =>
              \A k \in modified_keys(task[th].txn) :
                  data[k][task[th].txn].cell # "None"

\* A reader that spins waits for something that is to come: an ESTIMATE is left
\* only by a transaction that is yet to finish its next incarnation.
EstimatesArePending ==
    \A k \in Keys, t \in Txns :
        data[k][t].cell # "None" /\ data[k][t].flag = "ESTIMATE" =>
            txn_status[t].st \in {"Aborting", "ReadyToExecute", "Executing"}

\* Partial application, deletion and marking leave no trace: the entries of an
\* executed transaction are its recorded output, of its latest incarnation.
EntriesMatchOutput ==
    \A t \in Txns :
        is_executed(t, TRUE) =>
            /\ outputs[t].recorded
            /\ \A k \in Keys :
                  data[k][t] =
                      IF k \in Writes(outputs[t].value)
                      THEN WriteEntry(txn_status[t].inc, outputs[t].value.writes[k])
                      ELSE IF k \in modified_keys(t)
                      THEN DeltaEntry(outputs[t].value.deltas[k])
                      ELSE NoEntry

\* The block is committed in the preset serialization order: every read of a
\* committed transaction still reads the same, below it everything being final.
CommittedReadsCurrent ==
    \A t \in Txns :
        txn_status[t].st = "Committed" =>
            \A i \in 1 .. Len(inputs[t].value) :
                LET r == inputs[t].value[i]
                IN  ReadKind(read(data[r.key], t)) = r.kind

\* The worker's read loop meets an ESTIMATE.
Spinning(th) ==
    /\ Running(th)
    /\ Wanted(th) # NoKey
    /\ read(data[Wanted(th)], task[th].txn).kind = "Dependency"

\* The readers of ESTIMATEs wait for a worker that can run: they never all wait.
NotAllSpinning == \E th \in Threads : ~Spinning(th)

\* The state and the outputs committed so far.
CommittedValue(k) == ValueOf(read(data[k], commit_state.idx), Storage[k]).val

Sequential ==
    INSTANCE SequentialExecution WITH
        data_map <- [k \in Keys |-> CommittedValue(k)],
        ret <- [i \in 1 .. commit_state.idx |-> outputs[i - 1].value],
        result <- IF commit_state.idx = NumTxns THEN "ok" ELSE "running"

\* The parallel executor implements the sequential one on a block that neither
\* skips nor aborts: each commit is the next step of the sequential execution,
\* with its output. (That the whole block is committed is BlockTermination.)
ImplementsSequential == Sequential!SeqSpec

\* All workers leave their loop with the whole block committed.
BlockTermination ==
    <>(commit_state.idx = NumTxns /\ \A th \in Threads : pc[th] = "exit")

=============================================================================
