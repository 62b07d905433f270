------------------------ MODULE BlockExecutorProofs ------------------------
(***************************************************************************)
(* Parallel execution over the multi-version map, for any block, any       *)
(* number of workers and whatever the transactions read and write.         *)
(*                                                                         *)
(* The executor implements the scheduler's specification, which left the   *)
(* data open; so the scheduler's invariants hold here, and of two workers  *)
(* only one executes or aborts a transaction.  On them rests the invariant *)
(* of the data: what the entries of a transaction are while it is ready,   *)
(* half applied, recorded, executed or half marked, and that a transaction *)
(* which validation has reached has a recorded read-set.                   *)
(***************************************************************************)
EXTENDS BlockExecutor, SchedulerProofs, MVHashMapProofs

-----------------------------------------------------------------------------
(* The invariant of the data *)

\* The entry that an incarnation with this output leaves at k.
EntryOf(output, inc, k) ==
    IF k \in Writes(output) THEN WriteEntry(inc, output.writes[k])
    ELSE IF k \in ModifiedKeys(output) THEN DeltaEntry(output.deltas[k])
    ELSE NoEntry

\* What the last recorded incarnation left at k, perhaps marked since.
Left(k, t) ==
    IF k \in modified_keys(t) THEN data[k][t].cell \in {"Write", "Delta"}
    ELSE data[k][t] = NoEntry

\* The entries of t are the recorded output of this incarnation.
Matches(t, inc) ==
    /\ outputs[t].recorded /\ inputs[t].recorded
    /\ \A k \in Keys : data[k][t] = EntryOf(outputs[t].value, inc, k)

\* apply_updates has dealt with the keys in handled, and with no other.
HalfApplied(th) ==
    /\ \A k \in Keys :
          IF k \in handled[th] THEN data[k][task[th].txn] = EntryOf(Result(th), task[th].inc, k)
          ELSE Left(k, task[th].txn)
    /\ handled[th] \subseteq Keys
    /\ handled[th] # {} => Wanted(th) = NoKey

\* The worker executes: until it records its output, the entries are partly new.
Exec(th) ==
    task[th].kind = "ExecutionTask" =>
        /\ stage[th] \in {"start", "recorded"}
        /\ stage[th] = "start" => HalfApplied(th)
        /\ stage[th] = "recorded" => Matches(task[th].txn, task[th].inc)

\* The entries of a transaction that no worker executes.
Entered(t) ==
    /\ txn_status[t].st \in {"Executed", "Committed"} => Matches(t, txn_status[t].inc)
    /\ txn_status[t].st \in {"ReadyToExecute", "Aborting"} => \A k \in Keys : Left(k, t)
    /\ modified_keys(t) \subseteq Keys

\* The locals of a worker without a task, and of one that validates.
Fresh(th) ==
    /\ task[th].kind = "NoTask" \/ pc[th] = "decrease" =>
          handled[th] = {} /\ stage[th] = "start"
    /\ task[th].kind = "ValidationTask" =>
          stage[th] # "recorded" /\ (pc[th] # "abort" => handled[th] = {})

\* Whatever validation has reached was executed once.
Reached ==
    /\ \A t \in Txns : t < validation_idx.idx => inputs[t].recorded
    /\ \A th \in Threads :
          /\ task[th].kind = "ValidationTask" => inputs[task[th].txn].recorded
          /\ pc[th] = "valcheck" =>
                /\ validation_idx.idx <= call[th].txn
                /\ \A t \in Txns : t < call[th].txn => inputs[t].recorded
          /\ pc[th] = "valadd" => inputs[validation_idx.idx].recorded

\* f is a function on S.
On(f, S) == \E V : f \in [S -> V]

Shapes ==
    /\ \E V : data \in [Keys -> [Txns -> V]]
    /\ On(inputs, Txns) /\ On(outputs, Txns)
    /\ On(seen, Threads) /\ On(handled, Threads) /\ On(stage, Threads)

DataInv ==
    /\ Shapes
    /\ \A k \in Keys, t \in Txns : IsEntry(data[k][t])
    /\ \A th \in Threads : Exec(th) /\ Fresh(th)
    /\ \A t \in Txns : Entered(t)
    /\ Reached

BlockInv == SafetyInv /\ DataInv

-----------------------------------------------------------------------------
(* The executor implements the scheduler *)

\* Every step of a worker is one of the scheduler's, or none it can see.  A
\* read that meets an ESTIMATE pushes on the list of a transaction.
LEMMA WorkerStep ==
    ASSUME TypeOK, NEW th \in Threads, WorkTask(th)
    PROVE  Step(th) \/ UNCHANGED vars
  <1>1. CASE SpinOnEstimate(th)
    <2> DEFINE dep == read(data[Wanted(th)], task[th].txn).idx
    <2>1. WaitForDependency(th, dep)
      BY <1>1, Zenon DEF SpinOnEstimate
    <2> HIDE DEF dep
    <2>2. CASE dep \in Txns
      BY <2>1, <2>2, Zenon DEF Step, ExecutorStep
    <2>3. CASE dep \notin Txns
      <3>1. critical_path_parent \in [Txns -> Seq(Txns)]
        BY Zenon DEF TypeOK
      <3>2. critical_path_parent' = critical_path_parent
        BY <2>1, <2>3, <3>1 DEF WaitForDependency
      <3> QED
        BY <2>1, <3>2, Zenon DEF WaitForDependency, vars
    <2> QED
      BY <2>2, <2>3, Zenon
  <1>2. CASE ReadKey(th) \/ RecordOutput(th) \/ LoadReadSet(th) \/ CheckRead(th)
    BY <1>2, Zenon DEF ReadKey, RecordOutput, LoadReadSet, CheckRead
  <1>3. ASSUME NEW k \in Keys,
               ApplyWrite(th, k) \/ ApplyDelta(th, k) \/ DeleteStale(th, k) \/ MarkEstimate(th, k)
        PROVE  UNCHANGED vars
    BY <1>3, Zenon DEF ApplyWrite, ApplyDelta, DeleteStale, MarkEstimate
  <1>4. CASE FinishExecution(th)
    BY <1>4, Zenon DEF FinishExecution, Step, ExecutorStep
  <1>5. CASE AbortInvalid(th)
    BY <1>5, Zenon DEF AbortInvalid, Step, ExecutorStep
  <1>6. CASE FinishAbort(th)
    BY <1>6, Zenon DEF FinishAbort, Step, ExecutorStep
  <1>7. CASE AcceptValidation(th)
    BY <1>7, Zenon DEF AcceptValidation, Step, ExecutorStep
  <1>8. CASE Schedule(th)
    BY <1>8, Zenon DEF Schedule, Step
  <1> QED
    BY <1>1, <1>2, <1>3, <1>4, <1>5, <1>6, <1>7, <1>8, Zenon DEF WorkTask, Execute, Validate

\* So a step of the block executor is a step of the scheduler, or a stutter.
LEMMA BlockStep == TypeOK /\ [BlockNext]_all_vars => [Next]_vars
  <1> SUFFICES ASSUME TypeOK, [BlockNext]_all_vars PROVE [Next]_vars
    BY Zenon
  <1>1. CASE \E th \in Threads : WorkTask(th)
    BY <1>1, WorkerStep, Zenon DEF Step, Next
  <1>2. CASE Joined
    BY <1>2, Zenon DEF Next
  <1>3. CASE UNCHANGED all_vars
    BY <1>3, Zenon DEF all_vars
  <1> QED
    BY <1>1, <1>2, <1>3, Zenon DEF BlockNext

\* The locks, statuses, tasks and waves of parallel execution are as the
\* scheduler's specification has them.
LEMMA BlockSafety == BlockSpec => []SafetyInv
  <1>1. BlockInit => SafetyInv
    BY InitSafetyInv, Zenon DEF BlockInit
  <1>2. SafetyInv => TypeOK
    BY Zenon DEF SafetyInv, TypeInv
  <1>3. SafetyInv /\ [BlockNext]_all_vars => SafetyInv'
    BY <1>2, BlockStep, SafetyInvStep, Zenon
  <1> QED
    BY <1>1, <1>3, PTL DEF BlockSpec

\* Parallel execution implements the scheduler's specification: what validations
\* find and which reads meet an ESTIMATE comes from the data, and is among what
\* Scheduler allows.
LEMMA BlockImplementsScheduler == BlockSpec => Spec
  <1>1. BlockInit => Init
    BY Zenon DEF BlockInit
  <1>2. SafetyInv => TypeOK
    BY Zenon DEF SafetyInv, TypeInv
  <1> QED
    BY <1>1, <1>2, BlockStep, BlockSafety, PTL DEF BlockSpec, Spec

-----------------------------------------------------------------------------
(* What a step leaves alone *)

\* g is f but for its value at a, which is v.
Changed(f, g, S, a, v) ==
    On(g, S) /\ g[a] = v /\ \A b \in S : b # a => g[b] = f[b]

\* An EXCEPT on a function changes it so.
LEMMA Update ==
    ASSUME NEW f, NEW S, On(f, S), NEW a \in S, NEW v
    PROVE  Changed(f, [f EXCEPT ![a] = v], S, a, v)
  <1>1. PICK V : f \in [S -> V]
    BY Zenon DEF On
  <1>2. [f EXCEPT ![a] = v] \in [S -> V \cup {v}]
    BY <1>1
  <1> QED
    BY <1>1, <1>2, Zenon DEF On, Changed

\* One entry of the map changes, which every operation on it amounts to.
Enters(k, t, e) ==
    /\ \E V : data' \in [Keys -> [Txns -> V]]
    /\ data'[k][t] = e
    /\ \A j \in Keys, u \in Txns : j # k \/ u # t => data'[j][u] = data[j][u]

\* An EXCEPT on the map of a key changes the map so.
LEMMA MapUpdate ==
    ASSUME Shapes, NEW k \in Keys, NEW t \in Txns, NEW e,
           data' = [data EXCEPT ![k] = [data[k] EXCEPT ![t] = e]]
    PROVE  Enters(k, t, e)
  <1>1. PICK V : data \in [Keys -> [Txns -> V]]
    BY Zenon DEF Shapes
  <1>2. [data[k] EXCEPT ![t] = e] \in [Txns -> V \cup {e}]
    BY <1>1
  <1>3. \A j \in Keys : data[j] \in [Txns -> V \cup {e}]
    BY <1>1
  <1>4. data' \in [Keys -> [Txns -> V \cup {e}]]
    BY <1>1, <1>2, <1>3, Zenon
  <1> QED
    BY <1>1, <1>4, Zenon DEF Enters

\* The entries, the inputs and the output of t stay.
Kept(t) ==
    /\ \A k \in Keys : data'[k][t] = data[k][t]
    /\ inputs'[t] = inputs[t] /\ outputs'[t] = outputs[t]

\* The locals of a worker stay.
Idle(w) ==
    /\ pc'[w] = pc[w] /\ task'[w] = task[w]
    /\ seen'[w] = seen[w] /\ handled'[w] = handled[w] /\ stage'[w] = stage[w]

\* What Kept(t) keeps.
LEMMA KeptFacts ==
    ASSUME NEW t, Kept(t)
    PROVE  /\ modified_keys(t)' = modified_keys(t)
           /\ \A k \in Keys : Left(k, t)' = Left(k, t)
           /\ \A inc : Matches(t, inc)' <=> Matches(t, inc)
  <1>1. modified_keys(t)' = modified_keys(t)
    BY Zenon DEF Kept, modified_keys
  <1>2. \A k \in Keys : Left(k, t)' = Left(k, t)
    BY <1>1, Zenon DEF Kept, Left
  <1>3. \A inc : Matches(t, inc)' <=> Matches(t, inc)
    BY Zenon DEF Kept, Matches
  <1> QED
    BY <1>1, <1>2, <1>3, Zenon

\* A worker that does nothing keeps its part of the invariant as long as the
\* transaction it executes is kept.
LEMMA IdleWorker ==
    ASSUME NEW w, Idle(w), task[w].kind = "ExecutionTask" => Kept(task[w].txn),
           Exec(w), Fresh(w)
    PROVE  Exec(w)' /\ Fresh(w)'
  <1>1. Fresh(w)'
    BY Zenon DEF Idle, Fresh
  <1>a. CASE task[w].kind # "ExecutionTask"
    BY <1>1, <1>a, Zenon DEF Exec, Idle
  <1>b. SUFFICES ASSUME task[w].kind = "ExecutionTask" PROVE Exec(w)'
    BY <1>1, <1>a, Zenon
  <1>2. PICK u : u = task[w].txn /\ u = task'[w].txn
    BY Zenon DEF Idle
  <1>3. /\ \A k \in Keys : Left(k, u)' = Left(k, u) /\ data'[k][u] = data[k][u]
        /\ \A inc : Matches(u, inc)' <=> Matches(u, inc)
    BY <1>b, <1>2, KeptFacts, Zenon DEF Kept
  <1>4. Result(w)' = Result(w) /\ Wanted(w)' = Wanted(w) /\ task'[w] = task[w]
    BY Zenon DEF Result, Wanted, Idle
  <1>5. HalfApplied(w) => HalfApplied(w)'
    <2> SUFFICES ASSUME HalfApplied(w) PROVE HalfApplied(w)'
      BY Zenon
    <2>1. \A k \in Keys :
              IF k \in handled'[w] THEN data'[k][u] = EntryOf(Result(w), task[w].inc, k)
              ELSE Left(k, u)'
      BY <1>2, <1>3, Zenon DEF HalfApplied, Idle
    <2> QED
      BY <1>2, <1>4, <2>1, Zenon DEF HalfApplied, Idle
  <1>6. Matches(task[w].txn, task[w].inc) => Matches(task[w].txn, task[w].inc)'
    BY <1>2, <1>3, <1>4, Zenon
  <1>7. Exec(w)'
    BY <1>4, <1>5, <1>6, Zenon DEF Exec, Idle
  <1> QED
    BY <1>7, Zenon

\* So does a transaction that is kept, with its status.
LEMMA KeptTxn ==
    ASSUME NEW t, Kept(t), txn_status'[t] = txn_status[t], Entered(t)
    PROVE  Entered(t)'
  BY KeptFacts, Zenon DEF Entered

\* A step of th that touches only the data of u, which th executes or aborts,
\* keeps what the invariant says of the other workers and transactions.
LEMMA Frame ==
    ASSUME BlockInv, NEW th \in Threads, NEW u \in Txns,
           \A w \in Threads : w # th => Idle(w),
           \A t \in Txns : t # u => Kept(t) /\ txn_status'[t] = txn_status[t],
           \/ Kept(u)
           \/ u = task[th].txn /\ (task[th].kind = "ExecutionTask" \/ pc[th] = "abort")
    PROVE  /\ \A w \in Threads : w # th => Exec(w)' /\ Fresh(w)'
           /\ \A t \in Txns : t # u => Entered(t)'
  <1>a. /\ TypeOK /\ ExclusiveExecution /\ ExclusiveAbort
        /\ \A w \in Threads : Exec(w) /\ Fresh(w)
        /\ \A t \in Txns : Entered(t)
    BY Zenon DEF BlockInv, SafetyInv, TypeInv, StatusInv, DataInv
  <1>1. ASSUME NEW w \in Threads, w # th, task[w].kind = "ExecutionTask"
        PROVE  Kept(task[w].txn)
    <2>1. task[w].txn \in Txns
      BY <1>a, LocalTypes, Zenon
    <2>2. CASE task[th].kind = "ExecutionTask" /\ u = task[th].txn
      <3>1. task[w].txn # u
        BY <1>a, <1>1, <2>2, Zenon DEF ExclusiveExecution
      <3> QED
        BY <2>1, <3>1, Zenon
    <2>3. CASE pc[th] = "abort" /\ u = task[th].txn
      <3>1. /\ txn_status[u] = Status("Aborting", task[th].inc)
            /\ txn_status[task[w].txn] = Status("Executing", task[w].inc)
        BY <1>a, <1>1, <2>3, Zenon DEF ExclusiveExecution, ExclusiveAbort
      <3>2. task[w].txn # u
        BY <3>1 DEF Status
      <3> QED
        BY <2>1, <3>2, Zenon
    <2> QED
      BY <2>1, <2>2, <2>3, Zenon
  <1>2. \A w \in Threads : w # th => Exec(w)' /\ Fresh(w)'
    BY <1>a, <1>1, IdleWorker, Zenon
  <1>3. \A t \in Txns : t # u => Entered(t)'
    BY <1>a, KeptTxn, Zenon
  <1> QED
    BY <1>2, <1>3, Zenon

\* The locals of a task are dropped with it.
LEMMA Dropped ==
    ASSUME Shapes, NEW th \in Threads, DropLocals(th)
    PROVE  /\ Changed(seen, seen', Threads, th, <<>>)
           /\ Changed(handled, handled', Threads, th, {})
           /\ Changed(stage, stage', Threads, th, "start")
  <1>1. On(seen, Threads) /\ On(handled, Threads) /\ On(stage, Threads)
    BY Zenon DEF Shapes
  <1>2. /\ seen' = [seen EXCEPT ![th] = <<>>]
        /\ handled' = [handled EXCEPT ![th] = {}]
        /\ stage' = [stage EXCEPT ![th] = "start"]
    BY Zenon DEF DropLocals
  <1>3. Changed(seen, seen', Threads, th, <<>>)
    BY <1>1, <1>2, Update, Zenon
  <1>4. Changed(handled, handled', Threads, th, {})
    BY <1>1, <1>2, Update, Zenon
  <1>5. Changed(stage, stage', Threads, th, "start")
    BY <1>1, <1>2, Update, Zenon
  <1> QED
    BY <1>3, <1>4, <1>5, Zenon

\* The keys an output writes are among those it modifies.
LEMMA WritesModify == \A output : Writes(output) \subseteq ModifiedKeys(output)
  BY Zenon DEF Writes, ModifiedKeys

\* What a finished incarnation leaves at a key is an entry; it marks none.
LEMMA EntryOfIsEntry ==
    ASSUME NEW output, NEW inc, NEW k
    PROVE  /\ IsEntry(EntryOf(output, inc, k))
           /\ k \in ModifiedKeys(output) <=> EntryOf(output, inc, k).cell \in {"Write", "Delta"}
           /\ k \notin ModifiedKeys(output) => EntryOf(output, inc, k) = NoEntry
           /\ EntryOf(output, inc, k).cell # "None" => EntryOf(output, inc, k).flag = "DONE"
  <1>1. CASE k \in Writes(output)
    <2>1. EntryOf(output, inc, k) = WriteEntry(inc, output.writes[k]) /\ k \in ModifiedKeys(output)
      BY <1>1, WritesModify, Zenon DEF EntryOf
    <2> QED
      BY <2>1 DEF WriteEntry, IsEntry
  <1>2. CASE k \notin Writes(output) /\ k \in ModifiedKeys(output)
    <2>1. EntryOf(output, inc, k) = DeltaEntry(output.deltas[k])
      BY <1>2, Zenon DEF EntryOf
    <2> QED
      BY <1>2, <2>1 DEF DeltaEntry, IsEntry
  <1>3. CASE k \notin ModifiedKeys(output)
    <2>1. EntryOf(output, inc, k) = NoEntry
      BY <1>3, WritesModify, Zenon DEF EntryOf
    <2> QED
      BY <1>3, <2>1 DEF NoEntry, IsEntry
  <1> QED
    BY <1>1, <1>2, <1>3, Zenon

-----------------------------------------------------------------------------
(* Preservation: what validation has reached *)

\* valock is held from the load of validation_idx on.
LEMMA ValidationLabels ==
    ASSUME TypeInv, NEW th \in Threads, Step(th), ~LoadValidationIdx(th), ~CheckExecuted(th)
    PROVE  pc'[th] \notin {"valcheck", "valadd"}
  <1>a. TypeOK /\ Control(th)
    BY Zenon DEF TypeInv
  <1>b. pc \in [Threads -> Labels]
    BY <1>a, Zenon DEF TypeOK
  <1>c. Incarnating(th) /\ IncarnateFails(th) => IncarnateReturns(th)
    BY <1>a, IncarnateReturn, Zenon
  <1>d. Top(th) \in {"commit", "work"} /\ NoExec(th) \in {"commit", "work", "tryval"}
    BY Zenon DEF Top, NoExec
  <1>1. CASE TryCommit(th) \/ TryCommitNone(th) \/ Exit(th)
    BY <1>b, <1>1, Zenon DEF TryCommit, TryCommitNone, Exit, Goto, locals
  <1>2. CASE RecvPrio(th)
    BY <1>b, <1>2, Zenon DEF RecvPrio, Goto, Call
  <1>3. CASE RecvChan(th)
    BY <1>b, <1>d, <1>3, Zenon DEF RecvChan, Goto, Call
  <1>4. CASE FetchAddValidationIdx(th)
    BY <1>b, <1>d, <1>4, Zenon DEF FetchAddValidationIdx, Goto
  <1>5. CASE LockStatus(th)
    BY <1>b, <1>c, <1>5, Zenon DEF LockStatus, Goto, Incarnating, IncarnateReturns
  <1>6. CASE CheckHint(th) \/ PushHint(th)
    BY <1>b, <1>6, Zenon DEF CheckHint, PushHint, Goto
  <1>7. CASE RecheckHint(th)
    BY <1>b, <1>c, <1>7, Zenon DEF RecheckHint, Goto, Incarnating, IncarnateReturns
  <1>8. CASE Incarnate(th)
    BY <1>b, <1>d, <1>8, Zenon DEF Incarnate, Goto
  <1>9. CASE CountChildren(th) \/ EndFinishExecution(th)
    BY <1>b, <1>d, <1>9, Zenon DEF CountChildren, EndFinishExecution, Goto
  <1>10. CASE ReleaseChild(th)
    BY <1>b, <1>10, Zenon DEF ReleaseChild, Goto, Call
  <1>11. CASE DecreaseValidationIdx(th) \/ SetExecuted(th) \/ TryAbort(th) \/ SetAborted(th)
    BY <1>b, <1>11, Zenon DEF DecreaseValidationIdx, SetExecuted, TryAbort, SetAborted, Goto, Call
  <1>12. CASE FinishValidation(th)
    BY <1>b, <1>d, <1>12, Zenon DEF FinishValidation, Goto
  <1>13. ASSUME NEW dep \in Txns, WaitForDependency(th, dep)
         PROVE  pc'[th] \notin {"valcheck", "valadd"}
    BY <1>13, Zenon DEF WaitForDependency, AtTask, locals
  <1> QED
    BY <1>1, <1>2, <1>3, <1>4, <1>5, <1>6, <1>7, <1>8, <1>9, <1>10, <1>11, <1>12, <1>13, Zenon
       DEF Step, SchedulerStep, ExecutorStep

\* A read-set once recorded stays recorded, and an index is taken only past a
\* transaction that has executed; so validate finds its read-set.
LEMMA ReachedStep ==
    ASSUME SafetyInv, Reached, \A t \in Txns : Entered(t), NEW th \in Threads, Step(th),
           \A t \in Txns : inputs[t].recorded => inputs'[t].recorded
    PROVE  Reached'
  <1>a. TypeInv /\ TypeOK /\ Control(th) /\ ValidationMutex /\ TypeOK'
    <2>1. TypeInv
      BY Zenon DEF SafetyInv
    <2> QED
      BY <2>1, TypeStep, Zenon DEF TypeInv, Step
  <1>b. /\ \A w \in Threads : w # th => pc'[w] = pc[w] /\ task'[w] = task[w] /\ call'[w] = call[w]
        /\ \A w \in Threads : task[w].txn \in Txns /\ call[w].txn \in Txns /\ task'[w].txn \in Txns
    <2>1. \A w \in Threads : task[w].txn \in Txns /\ call[w].txn \in Txns
      BY <1>a, LocalTypes, Zenon
    <2>2. \A w \in Threads : task'[w].txn \in Txns
      BY <1>a, Zenon DEF TypeOK, TaskType
    <2> QED
      BY <1>a, <2>1, <2>2, Others, Zenon
  <1>c. /\ pc \in [Threads -> Labels] /\ task \in [Threads -> TaskType]
        /\ call \in [Threads -> CallType]
        /\ validation_idx \in [idx : 0 .. NumTxns, wave : Nat]
        /\ validation_idx.idx \in Nat
    BY <1>a, SharedTypes, Zenon DEF TypeOK
  <1>d. \A w \in Threads : pc[w] \in {"valcheck", "valadd"} =>
            validation_idx.idx \in Txns /\ validation_idx.idx < NumTxns
    <2>1. \A w \in Threads : pc[w] \in {"valcheck", "valadd"} => validation_idx.idx < NumTxns
      BY <1>a, Zenon DEF ValidationMutex, valock
    <2> QED
      BY <1>c, <2>1, Constants DEF Txns
  <1>1. CASE LoadValidationIdx(th)
    <2>1. validation_idx' = validation_idx /\ task' = task
      BY <1>1, Zenon DEF LoadValidationIdx, waves
    <2>2. /\ pc'[th] # "valadd"
          /\ pc'[th] = "valcheck" => call'[th].txn = validation_idx.idx
      BY <1>c, <1>1 DEF LoadValidationIdx, Goto, Top, NoCall
    <2>3. pc'[th] = "valcheck" => validation_idx.idx <= call'[th].txn
      BY <1>c, <2>2
    <2> QED
      BY <1>b, <1>d, <2>1, <2>2, <2>3, ZenonT(30) DEF Reached
  <1>2. CASE CheckExecuted(th)
    <2>1. validation_idx' = validation_idx /\ task' = task
      BY <1>2, Zenon DEF CheckExecuted, waves
    <2>2. /\ pc'[th] # "valcheck"
          /\ pc'[th] = "valadd" => is_executed(call[th].txn, FALSE) /\ pc[th] = "valcheck"
      BY <1>c, <1>2 DEF CheckExecuted, Goto, Top
    <2>3. pc'[th] = "valadd" => inputs[validation_idx.idx].recorded
      <3>1. pc'[th] = "valadd" => inputs[call[th].txn].recorded
        BY <1>b, <2>2, Zenon DEF is_executed, Entered, Matches
      <3>2. pc'[th] = "valadd" =>
                validation_idx.idx = call[th].txn \/ validation_idx.idx < call[th].txn
        BY <1>b, <1>c, <2>2, Constants DEF Reached
      <3> QED
        BY <1>d, <2>2, <3>1, <3>2, Zenon DEF Reached
    <2>4. \A w \in Threads : pc'[w] = "valadd" => inputs'[validation_idx.idx].recorded
      <3> SUFFICES ASSUME NEW w \in Threads, pc'[w] = "valadd"
                   PROVE  inputs'[validation_idx.idx].recorded
        BY Zenon
      <3>1. validation_idx.idx \in Txns
        BY <1>b, <1>d, <2>2, Zenon
      <3>2. inputs[validation_idx.idx].recorded
        BY <1>b, <2>3, Zenon DEF Reached
      <3> QED
        BY <3>1, <3>2, Zenon
    <2>5. \A w \in Threads : pc'[w] = "valcheck" => pc[w] = "valcheck" /\ call'[w] = call[w]
      BY <1>b, <2>2, Zenon
    <2> QED
      BY <1>b, <2>1, <2>4, <2>5, ZenonT(30) DEF Reached
  <1>3. CASE FetchAddValidationIdx(th)
    <2>1. /\ validation_idx'.idx = validation_idx.idx + 1
          /\ task'[th].txn = validation_idx.idx
          /\ pc[th] = "valadd" /\ pc'[th] \notin {"valcheck", "valadd"}
      BY <1>c, <1>3 DEF FetchAddValidationIdx, TaskOf, Goto, Top
    <2>2. \A w \in Threads : w # th => pc'[w] \notin {"valcheck", "valadd"}
      BY <1>a, <1>b, <2>1, Zenon DEF ValidationMutex
    <2>3. inputs[validation_idx.idx].recorded /\ validation_idx.idx \in Txns
      BY <1>d, <2>1, Zenon DEF Reached
    <2>4. \A t \in Txns : t < validation_idx'.idx => inputs'[t].recorded
      <3>1. \A t \in Txns : t < validation_idx'.idx => t < validation_idx.idx \/ t = validation_idx.idx
        BY <1>c, <2>1, Constants
      <3> QED
        BY <2>3, <3>1, Zenon DEF Reached
    <2> QED
      BY <1>b, <2>1, <2>2, <2>3, <2>4, ZenonT(30) DEF Reached
  <1>4. CASE DecreaseValidationIdx(th)
    <2>1. /\ task'[th].kind = "NoTask" /\ pc'[th] = "lock"
          /\ \/ validation_idx' = validation_idx
             \/ /\ validation_idx'.idx = task[th].txn
                /\ task[th].txn < validation_idx.idx
      BY <1>b, <1>c, <1>4, Constants DEF DecreaseValidationIdx, Call, Goto, NoTask, TaskOf
    <2>2. /\ validation_idx'.idx \in Nat /\ validation_idx'.idx <= validation_idx.idx
          /\ \A t \in Txns : t < validation_idx'.idx => t < validation_idx.idx
      BY <1>b, <1>c, <2>1, Constants
    <2>3. \A w \in Threads : pc'[w] = "valcheck" => validation_idx'.idx <= call'[w].txn
      <3>1. \A w \in Threads : pc'[w] = "valcheck" =>
                validation_idx.idx <= call'[w].txn /\ call'[w].txn \in Txns
        BY <1>b, <2>1, Zenon DEF Reached
      <3> QED
        BY <1>c, <2>2, <3>1, Constants
    <2>4. \A w \in Threads : pc'[w] = "valadd" => inputs'[validation_idx'.idx].recorded
      BY <1>b, <1>d, <2>1, Zenon DEF Reached
    <2> QED
      BY <1>b, <2>1, <2>2, <2>3, <2>4, ZenonT(30) DEF Reached
  <1>5. CASE /\ validation_idx' = validation_idx
             /\ task'[th] = task[th] \/ task'[th].kind # "ValidationTask"
             /\ pc'[th] \notin {"valcheck", "valadd"}
    BY <1>b, <1>d, <1>5, ZenonT(30) DEF Reached
  <1>6. CASE ~(LoadValidationIdx(th) \/ CheckExecuted(th) \/ FetchAddValidationIdx(th)
               \/ DecreaseValidationIdx(th))
    <2>1. pc'[th] \notin {"valcheck", "valadd"}
      BY <1>a, <1>6, ValidationLabels, Zenon
    <2>2. CASE TryCommit(th) \/ TryCommitNone(th) \/ SetAborted(th) \/ Still(th)
      BY <1>5, <2>1, <2>2, Zenon DEF TryCommit, TryCommitNone, SetAborted, Still, waves, locals
    <2>3. CASE FinishValidation(th)
      BY <1>c, <1>5, <2>1, <2>3, Zenon DEF FinishValidation, NoTask, TaskOf
    <2> QED
      BY <1>a, <1>6, <2>2, <2>3, StillSteps, Zenon
  <1> QED
    BY <1>1, <1>2, <1>3, <1>4, <1>6, Zenon

-----------------------------------------------------------------------------
(* Preservation: steps inside the scheduler *)

\* What a step inside the scheduler does to the task of the worker and to the
\* statuses.
Scheduled(th) ==
    /\ pc[th] # "abort" /\ pc'[th] \notin {"abort", "decrease"}
    /\ \/ task'[th] = task[th]
       \/ task'[th].kind = "NoTask" /\ pc[th] = "decrease"
       \/ task'[th].kind = "ValidationTask" /\ task[th].kind = "NoTask"
       \/ Starts(th) /\ task[th].kind = "NoTask"
    /\ txn_status' = txn_status \/ Commits(th) \/ Starts(th)

\* Each of them does that.
LEMMA SchedulerEffects ==
    ASSUME TypeInv, StatusInv, NEW th \in Threads, SchedulerStep(th)
    PROVE  Scheduled(th)
  <1>a. TypeOK /\ Control(th)
    BY Zenon DEF TypeInv
  <1>b. pc \in [Threads -> Labels] /\ task \in [Threads -> TaskType]
    BY <1>a, Zenon DEF TypeOK
  <1>c. Incarnating(th) /\ IncarnateFails(th) => IncarnateReturns(th)
    BY <1>a, IncarnateReturn, Zenon
  <1>d. Top(th) \in {"commit", "work"} /\ NoExec(th) \in {"commit", "work", "tryval"}
    BY Zenon DEF Top, NoExec
  <1>e. NoTask.kind = "NoTask"
    BY Zenon DEF NoTask, TaskOf
  <1>1. CASE TryCommit(th)
    BY <1>1, SetterEffects, Zenon DEF TryCommit, Scheduled, locals
  <1>2. CASE TryCommitNone(th) \/ Exit(th)
    BY <1>b, <1>2, Zenon DEF TryCommitNone, Exit, AtTask, Goto, Scheduled
  <1>3. CASE RecvPrio(th)
    BY <1>b, <1>3, Zenon DEF RecvPrio, AtTask, Goto, Call, Scheduled
  <1>4. CASE RecvChan(th)
    BY <1>b, <1>d, <1>4, Zenon DEF RecvChan, Goto, Call, Scheduled
  <1>5. CASE LoadValidationIdx(th)
    BY <1>b, <1>d, <1>5, Zenon DEF LoadValidationIdx, Goto, Scheduled
  <1>6. CASE CheckExecuted(th)
    BY <1>b, <1>d, <1>6, Zenon DEF CheckExecuted, Goto, Scheduled
  <1>7. CASE FetchAddValidationIdx(th)
    <2>1. task'[th].kind = "ValidationTask" /\ task[th].kind = "NoTask"
      BY <1>a, <1>b, <1>e, <1>7, Zenon DEF FetchAddValidationIdx, TaskOf, Control
    <2> QED
      BY <1>b, <1>d, <1>7, <2>1, Zenon DEF FetchAddValidationIdx, Goto, Scheduled
  <1>8. CASE LockStatus(th)
    BY <1>b, <1>c, <1>8, Zenon DEF LockStatus, Goto, Incarnating, IncarnateReturns, Scheduled
  <1>9. CASE CheckHint(th) \/ PushHint(th)
    BY <1>b, <1>9, Zenon DEF CheckHint, PushHint, Goto, Scheduled
  <1>10. CASE RecheckHint(th)
    BY <1>b, <1>c, <1>10, Zenon DEF RecheckHint, Goto, Incarnating, IncarnateReturns, Scheduled
  <1>11. CASE Incarnate(th)
    <2>1. Starts(th)
      BY <1>11, SetterEffects, Zenon
    <2>2. task[th].kind = "NoTask"
      BY <1>a, <1>e, <1>11, Zenon DEF Incarnate, Control, Incarnating
    <2> QED
      BY <1>b, <1>d, <1>11, <2>1, <2>2, Zenon DEF Incarnate, Goto, Scheduled
  <1>12. CASE CountChildren(th) \/ EndFinishExecution(th)
    BY <1>b, <1>d, <1>12, Zenon DEF CountChildren, EndFinishExecution, Goto, Scheduled
  <1>13. CASE ReleaseChild(th)
    BY <1>b, <1>13, Zenon DEF ReleaseChild, Goto, Call, Scheduled
  <1>14. CASE DecreaseValidationIdx(th)
    BY <1>b, <1>e, <1>14, Zenon DEF DecreaseValidationIdx, Goto, Call, Scheduled
  <1> QED
    BY <1>1, <1>2, <1>3, <1>4, <1>5, <1>6, <1>7, <1>8, <1>9, <1>10, <1>11, <1>12, <1>13, <1>14,
       Zenon DEF SchedulerStep

\* try_incarnate makes a task of a transaction whose entries are what the last
\* incarnation left; try_commit keeps the entries of the one it commits.
LEMMA ScheduleStep ==
    ASSUME BlockInv, NEW th \in Threads, Schedule(th)
    PROVE  /\ \A w \in Threads : Exec(w)' /\ Fresh(w)'
           /\ \A t \in Txns : Entered(t)'
  <1>a. TypeInv /\ StatusInv /\ TypeOK
    BY Zenon DEF BlockInv, SafetyInv, TypeInv
  <1>b. Scheduled(th) /\ Step(th)
    BY <1>a, SchedulerEffects, Zenon DEF Schedule, Step
  <1>c. /\ \A t : Kept(t)
        /\ \A w : seen'[w] = seen[w] /\ handled'[w] = handled[w] /\ stage'[w] = stage[w]
    BY Zenon DEF Schedule, data_vars, locals_data, Kept
  <1>d. /\ \A w \in Threads : Exec(w) /\ Fresh(w)
        /\ \A t \in Txns : Entered(t)
    BY Zenon DEF BlockInv, DataInv
  <1>e. txn_status \in [Txns -> [st : StatusNames, inc : Nat]] /\ call[th].txn \in Txns
    BY <1>a, LocalTypes, Zenon DEF TypeOK
  <1>f. \A s, n : Status(s, n).st = s /\ Status(s, n).inc = n
    BY Zenon DEF Status
  <1>1. ASSUME NEW w \in Threads, w # th
        PROVE  Exec(w)' /\ Fresh(w)'
    <2>1. Idle(w)
      BY <1>a, <1>b, <1>c, <1>1, Others, Zenon DEF Idle
    <2> QED
      BY <1>c, <1>d, <2>1, IdleWorker, Zenon
  <1>2. Fresh(th)'
    BY <1>b, <1>c, <1>d, Zenon DEF Fresh, Scheduled, Starts, TaskOf
  <1>3. Exec(th)'
    <2>1. CASE task'[th] = task[th]
      <3>1. task'[th] = task[th] /\ Kept(task[th].txn)
        BY <1>c, <2>1, Zenon
      <3>2. PICK u : u = task[th].txn /\ u = task'[th].txn
        BY <2>1, Zenon
      <3>3. /\ \A k \in Keys : Left(k, u)' = Left(k, u) /\ data'[k][u] = data[k][u]
            /\ \A inc : Matches(u, inc)' <=> Matches(u, inc)
        BY <1>c, KeptFacts, Zenon DEF Kept
      <3> QED
        BY <1>c, <1>d, <3>1, <3>2, <3>3, ZenonT(30) DEF Exec, HalfApplied, Result, Wanted
    <2>2. CASE task'[th].kind # "ExecutionTask"
      BY <2>2, Zenon DEF Exec
    <2>3. CASE Starts(th) /\ task[th].kind = "NoTask"
      <3>1. PICK u \in Txns : u = call[th].txn
        BY <1>e, Zenon
      <3>2. task'[th].txn = u /\ txn_status[u].st = "ReadyToExecute"
        BY <2>3, <3>1 DEF Starts, TaskOf
      <3>3. \A k \in Keys : Left(k, u)'
        BY <1>c, <1>d, <3>2, KeptFacts, Zenon DEF Entered
      <3>4. handled'[th] = {} /\ stage'[th] = "start"
        BY <1>c, <1>d, <2>3, Zenon DEF Fresh
      <3> QED
        BY <3>2, <3>3, <3>4, Zenon DEF Exec, HalfApplied
    <2> QED
      BY <1>b, <2>1, <2>2, <2>3, Zenon DEF Scheduled
  <1>4. ASSUME NEW t \in Txns
        PROVE  Entered(t)'
    <2>1. CASE txn_status'[t] = txn_status[t]
      BY <1>c, <1>d, <2>1, KeptTxn, Zenon
    <2>2. CASE Commits(th) /\ t = commit_state.idx
      <3>1. /\ txn_status[t].st = "Executed"
            /\ txn_status'[t] = Status("Committed", txn_status[t].inc)
        BY <1>e, <2>2, Zenon DEF Commits, Sets
      <3>2. PICK n : n = txn_status[t].inc
        BY Zenon
      <3>3. txn_status'[t].st = "Committed" /\ txn_status'[t].inc = n
        BY <3>1, <3>2 DEF Status
      <3>4. Matches(t, n) /\ modified_keys(t) \subseteq Keys
        BY <1>d, <3>1, <3>2, Zenon DEF Entered
      <3>5. Matches(t, n)' /\ (modified_keys(t) \subseteq Keys)'
        BY <1>c, <3>4, KeptFacts, Zenon
      <3> QED
        BY <3>3, <3>5, Zenon DEF Entered
    <2>3. CASE Starts(th) /\ t = call[th].txn
      <3>1. txn_status'[t] = Status("Executing", txn_status[t].inc)
        BY <1>e, <2>3, Zenon DEF Starts, Sets
      <3>2. txn_status'[t].st = "Executing"
        BY <1>f, <3>1, Zenon
      <3>3. (modified_keys(t) \subseteq Keys)'
        BY <1>c, <1>d, KeptFacts, Zenon DEF Entered
      <3> QED
        BY <3>2, <3>3, Zenon DEF Entered
    <2> QED
      BY <1>b, <1>e, <2>1, <2>2, <2>3, Zenon DEF Scheduled, Commits, Starts, Sets
  <1> QED
    BY <1>1, <1>2, <1>3, <1>4, Zenon

-----------------------------------------------------------------------------
(* Preservation: execute *)

\* A step preserves the invariant but for Reached, and unrecords nothing.
Preserves ==
    /\ Shapes' /\ \A k \in Keys, t \in Txns : IsEntry(data'[k][t])
    /\ \A w \in Threads : Exec(w)' /\ Fresh(w)'
    /\ \A t \in Txns : Entered(t)' /\ (inputs[t].recorded => inputs'[t].recorded)

\* What the invariant says of the acting worker and its transaction.
LEMMA Acting ==
    ASSUME BlockInv, NEW th \in Threads
    PROVE  /\ TypeInv /\ TypeOK /\ StatusInv /\ Shapes /\ Control(th)
           /\ Exec(th) /\ Fresh(th) /\ task[th].txn \in Txns /\ Entered(task[th].txn)
           /\ \A k \in Keys, t \in Txns : IsEntry(data[k][t])
           /\ \A t \in Txns : Entered(t)
           /\ task[th].kind = "ExecutionTask" => txn_status[task[th].txn].st = "Executing"
           /\ pc[th] = "abort" => txn_status[task[th].txn].st = "Aborting"
  <1>1. TypeInv /\ TypeOK /\ StatusInv /\ Shapes /\ Control(th)
    BY Zenon DEF BlockInv, SafetyInv, DataInv, TypeInv
  <1>2. task[th].txn \in Txns
    BY <1>1, LocalTypes, Zenon
  <1>3. /\ \A k \in Keys, t \in Txns : IsEntry(data[k][t])
        /\ Exec(th) /\ Fresh(th) /\ \A t \in Txns : Entered(t)
    BY Zenon DEF BlockInv, DataInv
  <1>4. /\ task[th].kind = "ExecutionTask" =>
              txn_status[task[th].txn] = Status("Executing", task[th].inc)
        /\ pc[th] = "abort" => txn_status[task[th].txn] = Status("Aborting", task[th].inc)
    BY <1>1, Zenon DEF StatusInv, ExclusiveExecution, ExclusiveAbort
  <1>5. /\ task[th].kind = "ExecutionTask" => txn_status[task[th].txn].st = "Executing"
        /\ pc[th] = "abort" => txn_status[task[th].txn].st = "Aborting"
    BY <1>4 DEF Status
  <1> QED
    BY <1>1, <1>2, <1>3, <1>5, Zenon

\* add_write, add_delta and delete move one key from what the last incarnation
\* left to what this one leaves.
LEMMA ApplyStep ==
    ASSUME BlockInv, NEW th \in Threads, NEW k \in Keys, Applying(th), k \notin handled[th],
           data' = [data EXCEPT ![k] = [data[k] EXCEPT
                       ![task[th].txn] = EntryOf(Result(th), task[th].inc, k)]],
           handled' = [handled EXCEPT ![th] = handled[th] \cup {k}],
           UNCHANGED <<vars, inputs, outputs, seen, stage>>
    PROVE  Preserves
  <1>a. /\ Shapes /\ Exec(th) /\ task[th].txn \in Txns /\ Entered(task[th].txn)
        /\ \A j \in Keys, t \in Txns : IsEntry(data[j][t])
        /\ task[th].kind = "ExecutionTask" => txn_status[task[th].txn].st = "Executing"
    BY Acting, Zenon
  <1>b. /\ task[th].kind = "ExecutionTask" /\ pc[th] = "work" /\ stage[th] = "start"
        /\ Wanted(th) = NoKey
    BY Zenon DEF Applying, Running, AtTask
  <1>c. UNCHANGED <<txn_status, pc, task, inputs, outputs, seen, stage>>
    BY Zenon DEF vars, locals
  <1>d. PICK u \in Txns : u = task[th].txn /\ u = task'[th].txn
    BY <1>a, <1>c, Zenon
  <1>e. PICK e : e = EntryOf(Result(th), task[th].inc, k) /\ IsEntry(e)
    BY EntryOfIsEntry, Zenon
  <1>1. /\ \E V : data' \in [Keys -> [Txns -> V]]
        /\ data'[k][u] = e
        /\ \A j \in Keys, t \in Txns : j # k \/ t # u => data'[j][t] = data[j][t]
    <2>1. data' = [data EXCEPT ![k] = [data[k] EXCEPT ![u] = e]]
      BY <1>d, <1>e, Zenon
    <2>2. Enters(k, u, e)
      BY <1>a, <2>1, MapUpdate, Zenon
    <2> QED
      BY <2>2, Zenon DEF Enters
  <1>2. Changed(handled, handled', Threads, th, handled[th] \cup {k})
    <2>1. On(handled, Threads)
      BY <1>a, Zenon DEF Shapes
    <2> QED
      BY <2>1, Update, Zenon
  <1>3. Shapes'
    BY <1>a, <1>c, <1>1, <1>2, Zenon DEF Shapes, Changed
  <1>4. \A j \in Keys, t \in Txns : IsEntry(data'[j][t])
    BY <1>a, <1>e, <1>1, Zenon
  <1>5. /\ \A w \in Threads : w # th => Exec(w)' /\ Fresh(w)'
        /\ \A t \in Txns : t # u => Entered(t)'
    <2>1. \A w \in Threads : w # th => Idle(w)
      BY <1>c, <1>2, Zenon DEF Idle, Changed
    <2>2. \A t \in Txns : t # u => Kept(t) /\ txn_status'[t] = txn_status[t]
      BY <1>c, <1>1, Zenon DEF Kept
    <2> QED
      BY <1>b, <1>d, <2>1, <2>2, Frame, Zenon
  <1>6. modified_keys(u)' = modified_keys(u) /\ Result(th)' = Result(th) /\ Wanted(th)' = Wanted(th)
    BY <1>c, Zenon DEF modified_keys, Result, Wanted
  <1>7. Entered(u)'
    BY <1>a, <1>b, <1>c, <1>d, <1>6, Zenon DEF Entered
  <1>8. HalfApplied(th)'
    <2>1. HalfApplied(th)
      BY <1>a, <1>b, Zenon DEF Exec
    <2>2. handled'[th] = handled[th] \cup {k}
      BY <1>2, Zenon DEF Changed
    <2>3. ASSUME NEW j \in Keys
          PROVE  IF j \in handled'[th] THEN data'[j][u] = EntryOf(Result(th), task[th].inc, j)
                 ELSE Left(j, u)'
      <3>1. CASE j = k
        BY <1>e, <1>1, <2>2, <3>1, Zenon
      <3>2. CASE j # k
        <4>1. data'[j][u] = data[j][u] /\ (j \in handled'[th] <=> j \in handled[th])
          BY <1>1, <2>2, <3>2, Zenon
        <4>2. Left(j, u)' <=> Left(j, u)
          BY <1>6, <4>1, Zenon DEF Left
        <4> QED
          BY <1>d, <2>1, <4>1, <4>2, Zenon DEF HalfApplied
      <3> QED
        BY <3>1, <3>2, Zenon
    <2>4. handled'[th] \subseteq Keys
      BY <2>1, <2>2, Zenon DEF HalfApplied
    <2> QED
      BY <1>b, <1>c, <1>d, <1>6, <2>3, <2>4, Zenon DEF HalfApplied
  <1>9. Exec(th)' /\ Fresh(th)'
    BY <1>b, <1>c, <1>8, Zenon DEF Exec, Fresh
  <1> QED
    BY <1>c, <1>d, <1>3, <1>4, <1>5, <1>7, <1>9, Zenon DEF Preserves

\* The three operations of apply_updates are such steps.
LEMMA ApplySteps ==
    ASSUME BlockInv, NEW th \in Threads, NEW k \in Keys,
           ApplyWrite(th, k) \/ ApplyDelta(th, k) \/ DeleteStale(th, k)
    PROVE  Preserves
  <1> DEFINE e == EntryOf(Result(th), task[th].inc, k)
  <1>1. CASE ApplyWrite(th, k)
    <2>1. e = WriteEntry(task[th].inc, Result(th).writes[k])
      BY <1>1, Zenon DEF ApplyWrite, EntryOf
    <2> HIDE DEF e
    <2>2. data' = [data EXCEPT ![k] = [data[k] EXCEPT ![task[th].txn] = e]]
      BY <1>1, <2>1, Zenon DEF ApplyWrite, add_write
    <2> QED
      BY <1>1, <2>2, ApplyStep, Zenon DEF ApplyWrite, e
  <1>2. CASE ApplyDelta(th, k)
    <2>1. e = DeltaEntry(Result(th).deltas[k])
      BY <1>2, Zenon DEF ApplyDelta, EntryOf
    <2> HIDE DEF e
    <2>2. data' = [data EXCEPT ![k] = [data[k] EXCEPT ![task[th].txn] = e]]
      BY <1>2, <2>1, Zenon DEF ApplyDelta, add_delta
    <2> QED
      BY <1>2, <2>2, ApplyStep, Zenon DEF ApplyDelta, e
  <1>3. CASE DeleteStale(th, k)
    <2>1. k \notin ModifiedKeys(Result(th))
      BY <1>3, Zenon DEF DeleteStale
    <2>2. e = NoEntry
      BY <2>1, EntryOfIsEntry, Zenon
    <2> HIDE DEF e
    <2>3. data' = [data EXCEPT ![k] = [data[k] EXCEPT ![task[th].txn] = e]]
      BY <1>3, <2>2, Zenon DEF DeleteStale, delete
    <2> QED
      BY <1>3, <2>3, ApplyStep, Zenon DEF DeleteStale, e
  <1> QED
    BY <1>1, <1>2, <1>3, Zenon

\* While the transaction still reads, none of its entries is new.
LEMMA ReadStep ==
    ASSUME BlockInv, NEW th \in Threads, ReadKey(th)
    PROVE  Preserves
  <1>a. /\ Shapes /\ Exec(th) /\ task[th].txn \in Txns
        /\ \A j \in Keys, t \in Txns : IsEntry(data[j][t])
        /\ \A t \in Txns : Entered(t)
    BY Acting, Zenon
  <1>b. /\ task[th].kind = "ExecutionTask" /\ pc[th] = "work" /\ stage[th] = "start"
        /\ Wanted(th) # NoKey
    BY Zenon DEF ReadKey, Running, AtTask
  <1>c. UNCHANGED <<txn_status, pc, task, data, inputs, outputs, handled, stage>>
    BY Zenon DEF ReadKey, vars, locals
  <1>d. PICK v : seen' = [seen EXCEPT ![th] = v]
    BY Zenon DEF ReadKey
  <1>1. Changed(seen, seen', Threads, th, v)
    <2>1. On(seen, Threads)
      BY <1>a, Zenon DEF Shapes
    <2> QED
      BY <1>d, <2>1, Update, Zenon
  <1>2. Shapes'
    BY <1>a, <1>c, <1>1, Zenon DEF Shapes, Changed, On
  <1>3. \A t : Kept(t)
    BY <1>c, Zenon DEF Kept
  <1>4. \A w \in Threads : w # th => Exec(w)' /\ Fresh(w)'
    <2>1. \A w \in Threads : w # th => Idle(w)
      BY <1>c, <1>1, Zenon DEF Idle, Changed
    <2> QED
      BY <1>a, <1>c, <1>3, <2>1, Frame, Zenon
  <1>5. Exec(th)' /\ Fresh(th)'
    <2>1. handled[th] = {} /\ \A k \in Keys : Left(k, task[th].txn)
      BY <1>a, <1>b, Zenon DEF Exec, HalfApplied
    <2>2. PICK u : u = task[th].txn /\ u = task'[th].txn
      BY <1>c, Zenon
    <2>3. \A k \in Keys : Left(k, u)'
      BY <1>3, <2>1, <2>2, KeptFacts, Zenon
    <2> QED
      BY <1>b, <1>c, <2>1, <2>2, <2>3, Zenon DEF Exec, HalfApplied, Fresh
  <1>6. \A t \in Txns : Entered(t)'
    BY <1>a, <1>c, <1>3, KeptTxn, Zenon
  <1> QED
    BY <1>a, <1>c, <1>2, <1>4, <1>5, <1>6, Zenon DEF Preserves

\* Once every key is dealt with, the entries are the output that is recorded.
LEMMA RecordStep ==
    ASSUME BlockInv, NEW th \in Threads, RecordOutput(th)
    PROVE  Preserves
  <1>a. /\ Shapes /\ Exec(th) /\ task[th].txn \in Txns
        /\ \A j \in Keys, t \in Txns : IsEntry(data[j][t])
        /\ task[th].kind = "ExecutionTask" => txn_status[task[th].txn].st = "Executing"
    BY Acting, Zenon
  <1>b. /\ task[th].kind = "ExecutionTask" /\ pc[th] = "work" /\ stage[th] = "start"
        /\ handled[th] = ModifiedKeys(Result(th)) \cup modified_keys(task[th].txn)
    BY Zenon DEF RecordOutput, Applying, Running, AtTask
  <1>c. UNCHANGED <<txn_status, pc, task, data, seen, handled>>
    BY Zenon DEF RecordOutput, vars, locals
  <1>d. PICK u \in Txns : u = task[th].txn /\ u = task'[th].txn
    BY <1>a, <1>c, Zenon
  <1>1. /\ Changed(inputs, inputs', Txns, u, Recorded(reads[th]))
        /\ Changed(outputs, outputs', Txns, u, Recorded(Result(th)))
        /\ Changed(stage, stage', Threads, th, "recorded")
    <2>1. On(inputs, Txns) /\ On(outputs, Txns) /\ On(stage, Threads)
      BY <1>a, Zenon DEF Shapes
    <2>2. /\ inputs' = [inputs EXCEPT ![u] = Recorded(reads[th])]
          /\ outputs' = [outputs EXCEPT ![u] = Recorded(Result(th))]
          /\ stage' = [stage EXCEPT ![th] = "recorded"]
      BY <1>d, Zenon DEF RecordOutput
    <2>3. Changed(inputs, inputs', Txns, u, Recorded(reads[th]))
      BY <2>1, <2>2, Update, Zenon
    <2>4. Changed(outputs, outputs', Txns, u, Recorded(Result(th)))
      BY <2>1, <2>2, Update, Zenon
    <2>5. Changed(stage, stage', Threads, th, "recorded")
      BY <2>1, <2>2, Update, Zenon
    <2> QED
      BY <2>3, <2>4, <2>5, Zenon
  <1>2. Shapes'
    BY <1>a, <1>c, <1>1, Zenon DEF Shapes, Changed, On
  <1>3. /\ \A w \in Threads : w # th => Exec(w)' /\ Fresh(w)'
        /\ \A t \in Txns : t # u => Entered(t)'
    <2>1. \A w \in Threads : w # th => Idle(w)
      BY <1>c, <1>1, Zenon DEF Idle, Changed
    <2>2. \A t \in Txns : t # u => Kept(t) /\ txn_status'[t] = txn_status[t]
      BY <1>c, <1>1, Zenon DEF Kept, Changed
    <2> QED
      BY <1>b, <1>d, <2>1, <2>2, Frame, Zenon
  <1>4. HalfApplied(th)
    BY <1>a, <1>b, Zenon DEF Exec
  <1>5. /\ inputs'[u].recorded /\ outputs'[u].recorded /\ outputs'[u].value = Result(th)
        /\ modified_keys(u)' = ModifiedKeys(Result(th))
    <2>1. /\ inputs'[u] = Recorded(reads[th])
          /\ outputs'[u] = Recorded(Result(th))
      BY <1>1, Zenon DEF Changed
    <2>2. inputs'[u].recorded /\ outputs'[u].recorded /\ outputs'[u].value = Result(th)
      BY <2>1 DEF Recorded
    <2> QED
      BY <2>2, Zenon DEF modified_keys
  <1>6. ASSUME NEW k \in Keys
        PROVE  data[k][u] = EntryOf(Result(th), task[th].inc, k)
    <2>1. CASE k \in handled[th]
      BY <1>d, <1>4, <2>1, Zenon DEF HalfApplied
    <2>2. CASE k \notin handled[th]
      BY <1>b, <1>d, <1>4, <2>2, EntryOfIsEntry, Zenon DEF HalfApplied, Left
    <2> QED
      BY <2>1, <2>2, Zenon
  <1>7. Entered(u)'
    BY <1>a, <1>b, <1>c, <1>d, <1>4, <1>5, Zenon DEF Entered, HalfApplied
  <1>8. Exec(th)' /\ Fresh(th)'
    <2>1. Matches(task[th].txn, task[th].inc)'
      BY <1>c, <1>d, <1>5, <1>6, Zenon DEF Matches
    <2>2. stage'[th] = "recorded"
      BY <1>1, Zenon DEF Changed
    <2> QED
      BY <1>b, <1>c, <2>1, <2>2, Zenon DEF Exec, Fresh
  <1>9. \A t \in Txns : inputs[t].recorded => inputs'[t].recorded
    BY <1>1, <1>5, Zenon DEF Changed
  <1> QED
    BY <1>a, <1>c, <1>2, <1>3, <1>7, <1>8, <1>9, Zenon DEF Preserves

\* finish_execution publishes what has been recorded.
LEMMA FinishStep ==
    ASSUME BlockInv, NEW th \in Threads, FinishExecution(th)
    PROVE  Preserves
  <1>a. /\ TypeInv /\ TypeOK /\ StatusInv /\ Shapes /\ Exec(th)
        /\ task[th].txn \in Txns /\ Entered(task[th].txn)
        /\ \A j \in Keys, t \in Txns : IsEntry(data[j][t])
    BY Acting, Zenon
  <1>b. /\ Step(th) /\ Finishes(th) /\ DropLocals(th) /\ stage[th] = "recorded"
        /\ UNCHANGED <<data, inputs, outputs>>
    BY <1>a, SetterEffects, Zenon DEF FinishExecution, Step, ExecutorStep
  <1>c. PICK u \in Txns : u = task[th].txn
    BY <1>a, Zenon
  <1>1. /\ Changed(seen, seen', Threads, th, <<>>) /\ Changed(handled, handled', Threads, th, {})
        /\ Changed(stage, stage', Threads, th, "start")
    BY <1>a, <1>b, Dropped, Zenon
  <1>2. Shapes'
    BY <1>a, <1>b, <1>1, Zenon DEF Shapes, Changed, On
  <1>3. \A t : Kept(t)
    BY <1>b, Zenon DEF Kept
  <1>4. txn_status' = [txn_status EXCEPT ![u] = Status("Executed", task[th].inc)]
    BY <1>b, <1>c, Zenon DEF Finishes, Sets
  <1>5. /\ \A w \in Threads : w # th => Exec(w)' /\ Fresh(w)'
        /\ \A t \in Txns : t # u => Entered(t)'
    <2>1. \A w \in Threads : w # th => Idle(w)
      BY <1>a, <1>b, <1>1, Others, Zenon DEF Idle, Changed
    <2>2. \A t \in Txns : t # u => Kept(t) /\ txn_status'[t] = txn_status[t]
      BY <1>a, <1>3, <1>4, Zenon DEF TypeOK
    <2> QED
      BY <1>3, <2>1, <2>2, Frame, Zenon
  <1>6. Exec(th)' /\ Fresh(th)'
    <2>1. task'[th].kind = "NoTask" /\ pc'[th] = "count"
      BY <1>b DEF Finishes, NoTask, TaskOf
    <2>2. handled'[th] = {} /\ stage'[th] = "start"
      BY <1>1, Zenon DEF Changed
    <2> QED
      BY <2>1, <2>2, Zenon DEF Exec, Fresh
  <1>7. Entered(u)'
    <2>1. PICK n : n = task[th].inc
      BY Zenon
    <2>2. txn_status'[u] = Status("Executed", n)
      BY <1>a, <1>4, <2>1, Zenon DEF TypeOK
    <2>3. txn_status'[u].st = "Executed" /\ txn_status'[u].inc = n
      BY <2>2 DEF Status
    <2>4. Matches(u, n) /\ modified_keys(u) \subseteq Keys
      BY <1>a, <1>b, <1>c, <2>1, Zenon DEF Exec, Entered, Finishes
    <2>5. Matches(u, n)' /\ (modified_keys(u) \subseteq Keys)'
      BY <1>3, <2>4, KeptFacts, Zenon
    <2> QED
      BY <2>3, <2>5, Zenon DEF Entered
  <1> QED
    BY <1>a, <1>b, <1>2, <1>5, <1>6, <1>7, Zenon DEF Preserves

\* A step that leaves the data, the statuses, the tasks and the labels alone.
LEMMA SpinStep ==
    ASSUME BlockInv, UNCHANGED <<txn_status, pc, task, data_vars>>
    PROVE  Preserves
  <1>a. /\ Shapes /\ \A j \in Keys, t \in Txns : IsEntry(data[j][t])
        /\ \A t \in Txns : Entered(t)
        /\ \A w \in Threads : Exec(w) /\ Fresh(w)
    BY Zenon DEF BlockInv, DataInv
  <1>1. /\ \A t : Kept(t) /\ txn_status'[t] = txn_status[t]
        /\ \A w : Idle(w)
        /\ UNCHANGED <<data, inputs, outputs, seen, handled, stage>>
    BY Zenon DEF data_vars, locals_data, Kept, Idle
  <1>2. \A w \in Threads : Exec(w)' /\ Fresh(w)'
    BY <1>a, <1>1, IdleWorker, Zenon
  <1>3. \A t \in Txns : Entered(t)'
    BY <1>a, <1>1, KeptTxn, Zenon
  <1>4. Shapes'
    BY <1>a, <1>1, Zenon DEF Shapes, On
  <1> QED
    BY <1>a, <1>1, <1>2, <1>3, <1>4, Zenon DEF Preserves

-----------------------------------------------------------------------------
(* Preservation: validate *)

\* Loading and checking the read-set touches the locals of the worker only.
LEMMA CheckStep ==
    ASSUME BlockInv, NEW th \in Threads, LoadReadSet(th) \/ CheckRead(th)
    PROVE  Preserves
  <1>a. /\ Shapes /\ Fresh(th) /\ task[th].txn \in Txns
        /\ \A j \in Keys, t \in Txns : IsEntry(data[j][t])
        /\ \A t \in Txns : Entered(t)
    BY Acting, Zenon
  <1>b. /\ task[th].kind = "ValidationTask" /\ pc[th] = "work"
        /\ UNCHANGED <<txn_status, pc, task, data, inputs, outputs, seen, handled>>
    BY Zenon DEF LoadReadSet, CheckRead, Validating, AtTask, vars, locals
  <1>c. PICK s : s # "recorded" /\ Changed(stage, stage', Threads, th, s)
    <2>1. On(stage, Threads)
      BY <1>a, Zenon DEF Shapes
    <2>2. CASE stage' = stage
      <3>1. Changed(stage, stage', Threads, th, stage[th])
        BY <2>1, <2>2, Zenon DEF Changed
      <3>2. stage[th] # "recorded"
        BY <1>a, <1>b, Zenon DEF Fresh
      <3> QED
        BY <3>1, <3>2, Zenon
    <2>3. CASE stage' = [stage EXCEPT ![th] = "check"]
      BY <2>1, <2>3, Update, Zenon
    <2>4. CASE stage' = [stage EXCEPT ![th] = "invalid"]
      BY <2>1, <2>4, Update, Zenon
    <2> QED
      BY <2>2, <2>3, <2>4, Zenon DEF LoadReadSet, CheckRead
  <1>1. Shapes'
    BY <1>a, <1>b, <1>c, Zenon DEF Shapes, Changed, On
  <1>2. \A t : Kept(t)
    BY <1>b, Zenon DEF Kept
  <1>3. \A w \in Threads : w # th => Exec(w)' /\ Fresh(w)'
    <2>1. \A w \in Threads : w # th => Idle(w)
      BY <1>b, <1>c, Zenon DEF Idle, Changed
    <2> QED
      BY <1>a, <1>b, <1>2, <2>1, Frame, Zenon
  <1>4. Exec(th)' /\ Fresh(th)'
    BY <1>a, <1>b, <1>c, Zenon DEF Exec, Fresh, Changed
  <1>5. \A t \in Txns : Entered(t)'
    BY <1>a, <1>b, <1>2, KeptTxn, Zenon
  <1> QED
    BY <1>a, <1>b, <1>1, <1>3, <1>4, <1>5, Zenon DEF Preserves

\* A successful try_abort finds the entries of the output it is to mark.
LEMMA AbortStep ==
    ASSUME BlockInv, NEW th \in Threads, AbortInvalid(th)
    PROVE  Preserves
  <1>a. /\ TypeInv /\ TypeOK /\ StatusInv /\ Shapes /\ Fresh(th)
        /\ task[th].txn \in Txns /\ Entered(task[th].txn)
        /\ \A j \in Keys, t \in Txns : IsEntry(data[j][t])
    BY Acting, Zenon
  <1>b. /\ Step(th) /\ Aborts(th) /\ pc[th] = "work" /\ UNCHANGED data_vars
        /\ UNCHANGED <<data, inputs, outputs, seen, handled, stage>>
    BY <1>a, SetterEffects, Zenon
       DEF AbortInvalid, Validating, AtTask, Step, ExecutorStep, data_vars, locals_data
  <1>c. PICK u \in Txns : u = task[th].txn
    BY <1>a, Zenon
  <1>d. txn_status' = txn_status \/ Sets(u, "Aborting", task[th].inc)
    BY <1>b, <1>c, Zenon DEF Aborts
  <1>1. \A t : Kept(t)
    BY <1>b, Zenon DEF Kept
  <1>2. /\ \A w \in Threads : w # th => Exec(w)' /\ Fresh(w)'
        /\ \A t \in Txns : t # u => Entered(t)'
    <2>1. \A w \in Threads : w # th => Idle(w)
      BY <1>a, <1>b, Others, Zenon DEF Idle
    <2>2. \A t \in Txns : t # u => Kept(t) /\ txn_status'[t] = txn_status[t]
      BY <1>a, <1>1, <1>d, Zenon DEF TypeOK, Sets
    <2> QED
      BY <1>1, <2>1, <2>2, Frame, Zenon
  <1>3. Exec(th)' /\ Fresh(th)'
    <2>1. /\ task[th].kind = "ValidationTask" /\ task'[th] = task[th]
          /\ pc'[th] \in {"abort", "finval"}
      BY <1>b, Zenon DEF Aborts
    <2> QED
      BY <1>a, <1>b, <2>1, Zenon DEF Exec, Fresh
  <1>4. Entered(u)'
    <2>1. CASE txn_status' = txn_status
      BY <1>a, <1>c, <1>1, <2>1, KeptTxn, Zenon
    <2>2. CASE txn_status' # txn_status
      <3>1. /\ txn_status[u] = Status("Executed", task[th].inc)
            /\ txn_status'[u] = Status("Aborting", task[th].inc)
        BY <1>a, <1>b, <1>c, <2>2, Zenon DEF Aborts, Sets, TypeOK
      <3>2. txn_status[u].st = "Executed" /\ txn_status'[u].st = "Aborting"
        BY <3>1 DEF Status
      <3>3. \A k \in Keys : Left(k, u)
        <4> SUFFICES ASSUME NEW k \in Keys PROVE Left(k, u)
          BY Zenon
        <4>1. /\ outputs[u].recorded
              /\ data[k][u] = EntryOf(outputs[u].value, txn_status[u].inc, k)
          BY <1>a, <1>c, <3>2, Zenon DEF Entered, Matches
        <4>2. /\ k \in ModifiedKeys(outputs[u].value) => data[k][u].cell \in {"Write", "Delta"}
              /\ k \notin ModifiedKeys(outputs[u].value) => data[k][u] = NoEntry
          BY <4>1, EntryOfIsEntry
        <4> QED
          BY <4>1, <4>2, Zenon DEF Left, modified_keys
      <3>4. (\A k \in Keys : Left(k, u))' /\ (modified_keys(u) \subseteq Keys)'
        BY <1>a, <1>c, <1>1, <3>3, KeptFacts, Zenon DEF Entered
      <3> QED
        BY <3>2, <3>4, Zenon DEF Entered
    <2> QED
      BY <2>1, <2>2, Zenon
  <1>5. Shapes'
    BY <1>a, <1>b, Zenon DEF Shapes, On
  <1> QED
    BY <1>a, <1>b, <1>2, <1>3, <1>4, <1>5, Zenon DEF Preserves

\* mark_estimate finds an entry, and changes its flag alone.
LEMMA MarkStep ==
    ASSUME BlockInv, NEW th \in Threads, NEW k \in Keys, MarkEstimate(th, k)
    PROVE  Preserves
  <1>a. /\ Shapes /\ Control(th) /\ Fresh(th) /\ task[th].txn \in Txns /\ Entered(task[th].txn)
        /\ \A j \in Keys, t \in Txns : IsEntry(data[j][t])
        /\ pc[th] = "abort" => txn_status[task[th].txn].st = "Aborting"
    BY Acting, Zenon
  <1>b. /\ pc[th] = "abort" /\ task[th].kind = "ValidationTask"
        /\ UNCHANGED <<txn_status, pc, task, inputs, outputs, seen, stage>>
    BY <1>a, Zenon DEF MarkEstimate, Control, vars, locals
  <1>c. PICK u \in Txns : u = task[th].txn
    BY <1>a, Zenon
  <1>d. PICK e : e = [data[k][u] EXCEPT !.flag = "ESTIMATE"]
    BY Zenon
  <1>e. k \in modified_keys(u) /\ Left(k, u) /\ data[k][u].cell \in {"Write", "Delta"}
    BY <1>a, <1>b, <1>c, Zenon DEF MarkEstimate, Entered, Left
  <1>f. IsEntry(e) /\ e.cell \in {"Write", "Delta"}
    <2>1. IsEntry(data[k][u])
      BY <1>a, Zenon
    <2> QED
      BY <1>d, <1>e, <2>1 DEF IsEntry, NoEntry
  <1>1. Enters(k, u, e)
    <2>1. data' = [data EXCEPT ![k] = [data[k] EXCEPT ![u] = e]]
      BY <1>c, <1>d, Zenon DEF MarkEstimate, mark_estimate
    <2> QED
      BY <1>a, <2>1, MapUpdate, Zenon
  <1>2. Changed(handled, handled', Threads, th, handled[th] \cup {k})
    <2>1. On(handled, Threads)
      BY <1>a, Zenon DEF Shapes
    <2> QED
      BY <2>1, Update, Zenon DEF MarkEstimate
  <1>3. Shapes'
    BY <1>a, <1>b, <1>1, <1>2, Zenon DEF Shapes, Changed, Enters, On
  <1>4. \A j \in Keys, t \in Txns : IsEntry(data'[j][t])
    BY <1>a, <1>f, <1>1, Zenon DEF Enters
  <1>5. /\ \A w \in Threads : w # th => Exec(w)' /\ Fresh(w)'
        /\ \A t \in Txns : t # u => Entered(t)'
    <2>1. \A w \in Threads : w # th => Idle(w)
      BY <1>b, <1>2, Zenon DEF Idle, Changed
    <2>2. \A t \in Txns : t # u => Kept(t) /\ txn_status'[t] = txn_status[t]
      BY <1>b, <1>1, Zenon DEF Kept, Enters
    <2> QED
      BY <1>b, <1>c, <2>1, <2>2, Frame, Zenon
  <1>6. Exec(th)' /\ Fresh(th)'
    BY <1>a, <1>b, Zenon DEF Exec, Fresh
  <1>7. Entered(u)'
    <2>1. modified_keys(u)' = modified_keys(u)
      BY <1>b, Zenon DEF modified_keys
    <2>2. ASSUME NEW j \in Keys
          PROVE  Left(j, u)'
      <3>1. CASE j = k
        BY <1>e, <1>f, <1>1, <2>1, <3>1, Zenon DEF Left, Enters
      <3>2. CASE j # k
        BY <1>a, <1>b, <1>c, <1>1, <2>1, <3>2, Zenon DEF Left, Enters, Entered
      <3> QED
        BY <3>1, <3>2, Zenon
    <2> QED
      BY <1>a, <1>b, <1>c, <2>1, <2>2, Zenon DEF Entered
  <1> QED
    BY <1>b, <1>3, <1>4, <1>5, <1>6, <1>7, Zenon DEF Preserves

\* finish_abort and finish_validation end the task.
LEMMA EndStep ==
    ASSUME BlockInv, NEW th \in Threads, FinishAbort(th) \/ AcceptValidation(th)
    PROVE  Preserves
  <1>a. /\ TypeInv /\ TypeOK /\ StatusInv /\ Shapes /\ task[th].txn \in Txns
        /\ \A t \in Txns : Entered(t)
        /\ \A j \in Keys, t \in Txns : IsEntry(data[j][t])
    BY Acting, Zenon
  <1>b. /\ Step(th) /\ DropLocals(th) /\ UNCHANGED <<data, inputs, outputs>>
        /\ \/ Restarts(th)
           \/ FinishValidation(th) /\ txn_status' = txn_status
    BY <1>a, SetterEffects, Zenon
       DEF FinishAbort, AcceptValidation, FinishValidation, Step, ExecutorStep
  <1>c. PICK u \in Txns : u = task[th].txn
    BY <1>a, Zenon
  <1>1. /\ Changed(seen, seen', Threads, th, <<>>) /\ Changed(handled, handled', Threads, th, {})
        /\ Changed(stage, stage', Threads, th, "start")
    BY <1>a, <1>b, Dropped, Zenon
  <1>2. Shapes'
    BY <1>a, <1>b, <1>1, Zenon DEF Shapes, Changed, On
  <1>3. \A t : Kept(t)
    BY <1>b, Zenon DEF Kept
  <1>4. txn_status' = txn_status \/ Sets(u, "ReadyToExecute", task[th].inc + 1)
    BY <1>b, <1>c, Zenon DEF Restarts
  <1>5. /\ \A w \in Threads : w # th => Exec(w)' /\ Fresh(w)'
        /\ \A t \in Txns : t # u => Entered(t)'
    <2>1. \A w \in Threads : w # th => Idle(w)
      BY <1>a, <1>b, <1>1, Others, Zenon DEF Idle, Changed
    <2>2. \A t \in Txns : t # u => Kept(t) /\ txn_status'[t] = txn_status[t]
      BY <1>a, <1>3, <1>4, Zenon DEF TypeOK, Sets
    <2> QED
      BY <1>3, <2>1, <2>2, Frame, Zenon
  <1>6. Exec(th)' /\ Fresh(th)'
    <2>1. task'[th].kind # "ExecutionTask"
      <3>1. CASE Restarts(th)
        BY <3>1, Zenon DEF Restarts
      <3>2. CASE FinishValidation(th)
        <4>1. task'[th] = NoTask
          BY <1>a, <3>2, Zenon DEF FinishValidation, TypeOK
        <4> QED
          BY <4>1 DEF NoTask, TaskOf
      <3> QED
        BY <1>b, <3>1, <3>2, Zenon
    <2>2. handled'[th] = {} /\ stage'[th] = "start"
      BY <1>1, Zenon DEF Changed
    <2> QED
      BY <2>1, <2>2, Zenon DEF Exec, Fresh
  <1>7. Entered(u)'
    <2>1. CASE txn_status' = txn_status
      BY <1>a, <1>3, <2>1, KeptTxn, Zenon
    <2>2. CASE Restarts(th)
      <3>1. /\ txn_status[u] = Status("Aborting", task[th].inc)
            /\ txn_status'[u] = Status("ReadyToExecute", task[th].inc + 1)
        BY <1>a, <1>c, <2>2, Zenon DEF Restarts, Sets, TypeOK
      <3>2. txn_status[u].st = "Aborting" /\ txn_status'[u].st = "ReadyToExecute"
        BY <3>1 DEF Status
      <3>3. (\A k \in Keys : Left(k, u))' /\ (modified_keys(u) \subseteq Keys)'
        BY <1>a, <1>3, <3>2, KeptFacts, Zenon DEF Entered
      <3> QED
        BY <3>2, <3>3, Zenon DEF Entered
    <2> QED
      BY <1>b, <2>1, <2>2, Zenon
  <1> QED
    BY <1>a, <1>b, <1>2, <1>5, <1>6, <1>7, Zenon DEF Preserves

-----------------------------------------------------------------------------
(* The theorems *)

\* The data when the block starts: no entries, nothing recorded.
LEMMA InitBlockInv == BlockInit => BlockInv
  <1> SUFFICES ASSUME BlockInit PROVE BlockInv
    BY Zenon
  <1>1. SafetyInv
    BY InitSafetyInv, Zenon DEF BlockInit
  <1>2. /\ \A t \in Txns : txn_status[t].st = "ReadyToExecute"
        /\ \A th \in Threads : pc[th] \in {"commit", "work"} /\ task[th].kind = "NoTask"
        /\ validation_idx.idx = 0
    BY Zenon DEF BlockInit, Init, Status, NoTask, TaskOf
  <1>3. /\ \A k \in Keys, t \in Txns : data[k][t] = NoEntry
        /\ \A t \in Txns : outputs[t].recorded = FALSE
        /\ \A th \in Threads : handled[th] = {} /\ stage[th] = "start"
    BY Zenon DEF BlockInit, InitData, Unrecorded
  <1>4. Shapes
    <2>1. data \in [Keys -> [Txns -> {NoEntry}]]
      BY Zenon DEF BlockInit, InitData
    <2>2. inputs \in [Txns -> {Unrecorded}] /\ outputs \in [Txns -> {Unrecorded}]
      BY Zenon DEF BlockInit, InitData
    <2>3. seen \in [Threads -> {<<>>}] /\ handled \in [Threads -> {{}}]
          /\ stage \in [Threads -> {"start"}]
      BY Zenon DEF BlockInit, InitData
    <2> QED
      BY <2>1, <2>2, <2>3, Zenon DEF Shapes, On
  <1>5. \A t \in Txns : Entered(t)
    BY <1>2, <1>3, Zenon DEF Entered, Left, modified_keys
  <1>6. \A th \in Threads : Exec(th) /\ Fresh(th)
    BY <1>2, <1>3, Zenon DEF Exec, Fresh
  <1>7. Reached
    <2>1. \A t \in Txns : ~(t < validation_idx.idx)
      BY <1>2, Constants
    <2> QED
      BY <1>2, <2>1, Zenon DEF Reached
  <1>8. \A k \in Keys, t \in Txns : IsEntry(data[k][t])
    BY <1>3, Zenon DEF IsEntry
  <1> QED
    BY <1>1, <1>4, <1>5, <1>6, <1>7, <1>8, Zenon DEF BlockInv, DataInv

\* Every step of a worker preserves the invariant.
LEMMA BlockInvStep == BlockInv /\ [BlockNext]_all_vars => BlockInv'
  <1> SUFFICES ASSUME BlockInv, [BlockNext]_all_vars PROVE BlockInv'
    BY Zenon
  <1>a. /\ SafetyInv /\ TypeOK /\ Reached /\ Shapes
        /\ \A t \in Txns : Entered(t)
        /\ \A k \in Keys, t \in Txns : IsEntry(data[k][t])
    BY Zenon DEF BlockInv, SafetyInv, TypeInv, DataInv
  <1>b. SafetyInv'
    BY <1>a, BlockStep, SafetyInvStep, Zenon
  <1>c. ASSUME Preserves, UNCHANGED vars
        PROVE  Reached'
    <2>1. UNCHANGED <<validation_idx, task, pc, call>>
      BY <1>c, Zenon DEF vars, waves, locals
    <2>2. \A t \in Txns : inputs[t].recorded => inputs'[t].recorded
      BY <1>c, Zenon DEF Preserves
    <2>3. /\ \A th \in Threads : task[th].txn \in Txns
          /\ \A th \in Threads : pc[th] = "valadd" => validation_idx.idx \in Txns
      <3>1. \A th \in Threads : pc[th] = "valadd" => validation_idx.idx < NumTxns
        BY <1>a, Zenon DEF SafetyInv, TypeInv, ValidationMutex, valock
      <3>2. \A th \in Threads : task[th].txn \in Txns
        BY <1>a, LocalTypes, Zenon
      <3> QED
        BY <1>a, <3>1, <3>2, SharedTypes, Constants DEF Txns
    <2> QED
      BY <1>a, <2>1, <2>2, <2>3, Zenon DEF Reached
  <1>1. ASSUME NEW th \in Threads, WorkTask(th)
        PROVE  Preserves
    <2>1. CASE Execute(th)
      <3>1. CASE SpinOnEstimate(th)
        <4>1. UNCHANGED <<txn_status, pc, task, data_vars>>
          BY <3>1, Zenon DEF SpinOnEstimate, WaitForDependency, locals
        <4> QED
          BY <4>1, SpinStep, Zenon
      <3> QED
        BY <2>1, <3>1, ReadStep, ApplySteps, RecordStep, FinishStep, Zenon DEF Execute
    <2>2. CASE Validate(th)
      BY <2>2, CheckStep, AbortStep, MarkStep, EndStep, Zenon DEF Validate
    <2>3. CASE Schedule(th)
      <3>1. UNCHANGED <<data, inputs, outputs, seen, handled, stage>>
        BY <2>3, Zenon DEF Schedule, data_vars, locals_data
      <3>2. Shapes'
        BY <1>a, <3>1, Zenon DEF Shapes, On
      <3> QED
        BY <1>a, <2>3, <3>1, <3>2, ScheduleStep, Zenon DEF Preserves
    <2> QED
      BY <1>1, <2>1, <2>2, <2>3, Zenon DEF WorkTask
  <1>2. CASE \E th \in Threads : WorkTask(th)
    <2>1. PICK th \in Threads : WorkTask(th)
      BY <1>2, Zenon
    <2>2. Preserves
      BY <1>1, <2>1, Zenon
    <2>3. Reached'
      <3>1. CASE UNCHANGED vars
        BY <1>c, <2>2, <3>1, Zenon
      <3>2. CASE Step(th)
        BY <1>a, <2>2, <3>2, ReachedStep, Zenon DEF Preserves
      <3> QED
        BY <1>a, <2>1, <3>1, <3>2, WorkerStep, Zenon
    <2> QED
      BY <1>b, <2>2, <2>3, Zenon DEF Preserves, BlockInv, DataInv
  <1>3. CASE UNCHANGED all_vars \/ (Joined /\ UNCHANGED data_vars)
    <2>1. UNCHANGED vars /\ UNCHANGED <<txn_status, pc, task, data_vars>>
      BY <1>3, Zenon DEF all_vars, Joined, vars, locals, data_vars
    <2>2. Preserves
      BY <2>1, SpinStep, Zenon
    <2> QED
      BY <1>b, <1>c, <2>1, <2>2, Zenon DEF Preserves, BlockInv, DataInv
  <1> QED
    BY <1>2, <1>3, Zenon DEF BlockNext

\* The invariant of scheduler and data together holds throughout a block.
THEOREM BlockInvariant == BlockSpec => []BlockInv
  BY InitBlockInv, BlockInvStep, PTL DEF BlockSpec

\* The expects of validate and mark_estimate never fail.
THEOREM NothingIsMissing == BlockSpec => []NothingMissing
  <1>1. BlockInv => NothingMissing
    <2> SUFFICES ASSUME BlockInv, NEW th \in Threads
                 PROVE  /\ AtTask(th, "ValidationTask") => inputs[task[th].txn].recorded
                        /\ pc[th] = "abort" =>
                              \A k \in modified_keys(task[th].txn) :
                                  data[k][task[th].txn].cell # "None"
      BY Zenon DEF NothingMissing
    <2>1. AtTask(th, "ValidationTask") => inputs[task[th].txn].recorded
      BY Zenon DEF BlockInv, DataInv, Reached, AtTask
    <2>2. ASSUME pc[th] = "abort", NEW k \in modified_keys(task[th].txn)
          PROVE  data[k][task[th].txn].cell # "None"
      <3>1. k \in Keys /\ Left(k, task[th].txn)
        BY <2>2, Acting, Zenon DEF Entered
      <3> QED
        BY <2>2, <3>1 DEF Left
    <2> QED
      BY <2>1, <2>2, Zenon
  <1> QED
    BY <1>1, BlockInvariant, PTL

\* The entries of an executed transaction are those of its recorded output,
\* however its updates, deletions and marks interleaved with other workers.
THEOREM EntriesAreTheOutput == BlockSpec => []EntriesMatchOutput
  <1>1. BlockInv => EntriesMatchOutput
    <2> SUFFICES ASSUME BlockInv, NEW t \in Txns, is_executed(t, TRUE)
                 PROVE  /\ outputs[t].recorded
                        /\ \A k \in Keys :
                              data[k][t] =
                                  IF k \in Writes(outputs[t].value)
                                  THEN WriteEntry(txn_status[t].inc, outputs[t].value.writes[k])
                                  ELSE IF k \in modified_keys(t)
                                  THEN DeltaEntry(outputs[t].value.deltas[k])
                                  ELSE NoEntry
      BY Zenon DEF EntriesMatchOutput
    <2>1. Matches(t, txn_status[t].inc)
      BY Zenon DEF BlockInv, DataInv, Entered, is_executed
    <2>2. outputs[t].recorded /\ modified_keys(t) = ModifiedKeys(outputs[t].value)
      BY <2>1, Zenon DEF Matches, modified_keys
    <2> QED
      BY <2>1, <2>2, Zenon DEF Matches, EntryOf
  <1> QED
    BY <1>1, BlockInvariant, PTL

\* An ESTIMATE belongs to a transaction that is aborting, ready or executing.
THEOREM EstimatesWillGo == BlockSpec => []EstimatesArePending
  <1>1. BlockInv => EstimatesArePending
    <2> SUFFICES ASSUME BlockInv, NEW k \in Keys, NEW t \in Txns,
                        data[k][t].cell # "None", data[k][t].flag = "ESTIMATE"
                 PROVE  txn_status[t].st \in {"Aborting", "ReadyToExecute", "Executing"}
      BY Zenon DEF EstimatesArePending
    <2>1. txn_status[t].st \in StatusNames
      BY SharedTypes, Zenon DEF BlockInv, SafetyInv, TypeInv
    <2>2. ASSUME txn_status[t].st \in {"Executed", "Committed"}
          PROVE  FALSE
      <3>1. data[k][t] = EntryOf(outputs[t].value, txn_status[t].inc, k)
        BY <2>2, Zenon DEF BlockInv, DataInv, Entered, Matches
      <3>2. data[k][t].flag = "DONE"
        BY <3>1, EntryOfIsEntry
      <3> QED
        BY <3>2
    <2> QED
      BY <2>1, <2>2, Zenon DEF StatusNames
  <1> QED
    BY <1>1, BlockInvariant, PTL

\* A reader that spins does so on the ESTIMATE of a lower transaction that is
\* still to be executed: wait_for_dependency is called with such a one.
SpinsOnPending ==
    \A th \in Threads :
        Spinning(th) /\ Wanted(th) \in Keys =>
            LET dep == read(data[Wanted(th)], task[th].txn).idx
            IN  /\ dep \in Txns /\ dep < task[th].txn
                /\ txn_status[dep].st \in {"Aborting", "ReadyToExecute", "Executing"}

\* The read loop of the view waits for nothing else, whatever the map holds.
THEOREM SpinsAreOnPending == BlockSpec => []SpinsOnPending
  <1>1. BlockInv /\ EstimatesArePending => SpinsOnPending
    <2> SUFFICES ASSUME BlockInv, EstimatesArePending, NEW th \in Threads, Spinning(th),
                        NEW k \in Keys, k = Wanted(th)
                 PROVE  LET dep == read(data[k], task[th].txn).idx
                        IN  /\ dep \in Txns /\ dep < task[th].txn
                            /\ txn_status[dep].st \in {"Aborting", "ReadyToExecute", "Executing"}
      BY Zenon DEF SpinsOnPending
    <2> DEFINE t == task[th].txn
               dep == read(data[k], t).idx
    <2>1. t \in Nat /\ \A i \in 0 .. t - 1 : i \in Txns /\ i < t
      <3>1. t \in Txns
        BY Acting, Zenon
      <3> QED
        BY <3>1, Constants DEF Txns
    <2>2. \A i \in 0 .. t - 1 : IsEntry(data[k][i])
      BY <2>1, Acting, Zenon
    <2>3. read(data[k], t).kind = "Dependency"
      BY Zenon DEF Spinning
    <2>4. dep \in 0 .. t - 1 /\ data[k][dep].cell # "None" /\ data[k][dep].flag = "ESTIMATE"
      <3> HIDE DEF t
      <3> QED
        BY <2>1, <2>2, <2>3, ReadDependency, Zenon
    <2> HIDE DEF t, dep
    <2>5. dep \in Txns /\ dep < t
      BY <2>1, <2>4, Zenon
    <2>6. txn_status[dep].st \in {"Aborting", "ReadyToExecute", "Executing"}
      BY <2>4, <2>5, Zenon DEF EstimatesArePending
    <2> QED
      BY <2>5, <2>6, Zenon DEF t, dep
  <1> QED
    BY <1>1, BlockInvariant, EstimatesWillGo, PTL

\* Whatever the transactions read and write, and however often a spinning reader
\* is pushed on a list, no ready transaction is forgotten.
THEOREM BlockKeepsWakeups == BlockSpec => []NoLostWakeup
  BY BlockImplementsScheduler, WakeupsAreKept, PTL

=============================================================================
