-------------------------- MODULE SchedulerProofs --------------------------
(***************************************************************************)
(* The safety of the scheduler for any block, hints, gas estimates and     *)
(* number of workers.                                                      *)
(*                                                                         *)
(* The inductive invariant has five layers, each resting on those before.  *)
(* Types and control: TypeOK is not inductive, since the index that        *)
(* try_validate_next_version raises stays in the block because valock      *)
(* admits one worker, and the positions in the hint graph and in the lists *)
(* are in range because of what the control state of a worker says of its  *)
(* locals.  Then the locks and what a status owes to the worker that set   *)
(* it, who validates, and the waves.  Last the wake-ups: NoLostWakeup is   *)
(* inductive once it is said where a worker inside try_incarnate comes     *)
(* from and what it has registered.                                        *)
(***************************************************************************)
EXTENDS Scheduler, TLAPS

-----------------------------------------------------------------------------
(* Types and control *)

Incarnating(th) == pc[th] \in {"lock", "dep", "push", "recheck"}

\* What the locals of a worker are at each of its steps.
Control(th) ==
    /\ task[th].kind = "NoTask" => task[th] = NoTask
    /\ pc[th] \in {"finval", "abort", "decrease"} =>
          task[th].kind = "ValidationTask"
    /\ Incarnating(th) \/ pc[th] \in {"chan", "tryval", "valcheck", "valadd", "count", "exit"}
          => task[th] = NoTask
    /\ pc[th] = "items" => task[th].kind # "ValidationTask"
    /\ Incarnating(th) <=> call[th].caller # "none"
    /\ call[th].dep <= Len(HintGraph[call[th].txn])
    /\ pc[th] \in {"push", "recheck"} => call[th].dep > 0
    /\ iter[th].cnt <= Len(critical_path_parent[iter[th].txn])
    /\ pc[th] = "count" => iter[th].pos = 1

\* valock admits one worker, which has found an index inside the block.
ValidationMutex ==
    /\ \A th, other \in Threads :
          /\ pc[th] \in {"valcheck", "valadd"}
          /\ pc[other] \in {"valcheck", "valadd"}
          => th = other
    /\ valock => validation_idx.idx < NumTxns

TypeInv == TypeOK /\ (\A th \in Threads : Control(th)) /\ ValidationMutex

\* The facts about the block and its hints that the proofs use.
LEMMA Constants ==
    /\ NumTxns \in Nat /\ NumTxns > 0 /\ 0 \in Txns
    /\ \A t \in Txns : t \in Nat /\ t < NumTxns
    /\ \A t \in Txns : HintGraph[t] \in Seq(Txns) /\ Len(HintGraph[t]) \in Nat
  BY BlockAssumption, HintAssumption DEF Txns

\* The queues Scheduler::new fills are sequences of transactions.
LEMMA AscendingInSeq ==
    ASSUME NEW S \in SUBSET Txns
    PROVE  Ascending(S) \subseteq Seq(Txns)
  <1>1. \A n \in 0 .. NumTxns : [1 .. n -> S] \subseteq Seq(Txns)
    BY BlockAssumption
  <1> QED
    BY <1>1, Zenon DEF Ascending

\* Types and control when Scheduler::new returns.
LEMMA InitTypeInv == Init => TypeInv
  <1> SUFFICES ASSUME Init PROVE TypeInv
    BY Zenon
  <1>1. \A p \in Txns : critical_path_parent[p] \in Seq(Txns)
    BY AscendingInSeq, Zenon DEF Init, assigned
  <1>2. critical_path_parent \in [Txns -> Seq(Txns)]
    BY <1>1, Zenon DEF Init
  <1>3. channels \in Seq(Txns) /\ priochannels \in Seq(Txns)
    BY AscendingInSeq, Zenon DEF Init, send_vec
  <1>4. TypeOK
    <2>1. txn_status \in [Txns -> [st : StatusNames, inc : Nat]]
      BY Zenon DEF Init, Status, StatusNames
    <2>2. task \in [Threads -> TaskType]
      BY Constants, Zenon DEF Init, NoTask, TaskOf, TaskType
    <2>3. call \in [Threads -> CallType]
      BY Constants, Zenon DEF Init, NoCall, CallType
    <2>4. iter \in [Threads -> IterType]
      BY Constants DEF Init, NoIter, IterType
    <2>5. /\ maybe_max_validated_wave \in [Txns -> Nat \cup {-1}]
          /\ max_triggered_wave \in [Txns -> Nat]
          /\ validation_idx \in [idx : 0 .. NumTxns, wave : Nat]
          /\ commit_state \in [idx : 0 .. NumTxns, wave : Nat]
      BY Constants DEF Init
    <2>6. /\ pc \in [Threads -> Labels]
          /\ finished_val_flag \in [Threads -> BOOLEAN]
          /\ done_marker \in BOOLEAN
      BY Zenon DEF Init, Labels
    <2> QED
      BY <1>2, <1>3, <2>1, <2>2, <2>3, <2>4, <2>5, <2>6, Zenon DEF TypeOK
  <1>5. \A th \in Threads : Control(th)
    BY <1>2, Constants, SMTT(30) DEF Init, Control, Incarnating, NoTask, TaskOf, NoCall, NoIter
  <1>6. ValidationMutex
    BY Zenon DEF Init, ValidationMutex, valock
  <1> QED
    BY <1>4, <1>5, <1>6, Zenon DEF TypeInv

-----------------------------------------------------------------------------
(* Preservation: types and control *)

\* The locals of a worker and the shared indices have their types.
LEMMA LocalTypes ==
    ASSUME TypeOK, NEW th \in Threads
    PROVE  /\ pc[th] \in Labels
           /\ task[th] \in TaskType /\ call[th] \in CallType /\ iter[th] \in IterType
           /\ task[th].txn \in Txns /\ task[th].inc \in Nat /\ task[th].wave \in Nat
           /\ call[th].txn \in Txns /\ call[th].dep \in Nat /\ call[th].inc \in Nat
           /\ call[th].caller \in {"none", "prio", "chan", "finish", "abort"}
           /\ iter[th].txn \in Txns /\ iter[th].pos \in Nat \ {0} /\ iter[th].cnt \in Nat
           /\ finished_val_flag[th] \in BOOLEAN
  BY Zenon DEF TypeOK, TaskType, CallType, IterType

\* So do the indices, the statuses, the waves and the lists.
LEMMA SharedTypes ==
    ASSUME TypeOK
    PROVE  /\ validation_idx.idx \in Nat /\ validation_idx.idx <= NumTxns
           /\ validation_idx.wave \in Nat
           /\ commit_state.idx \in Nat /\ commit_state.idx <= NumTxns
           /\ commit_state.wave \in Nat
           /\ \A t \in Txns : /\ txn_status[t] \in [st : StatusNames, inc : Nat]
                              /\ txn_status[t].st \in StatusNames
                              /\ txn_status[t].inc \in Nat
                              /\ maybe_max_validated_wave[t] \in Int
                              /\ max_triggered_wave[t] \in Nat
                              /\ critical_path_parent[t] \in Seq(Txns)
                              /\ Len(critical_path_parent[t]) \in Nat
  BY Constants, SMTT(30) DEF TypeOK

\* The records that the actions store in the locals.
LEMMA Records ==
    /\ NoTask \in TaskType /\ NoCall \in CallType /\ NoIter \in IterType
    /\ \A t \in Txns, c \in {"prio", "chan", "finish", "abort"} :
          [NoCall EXCEPT !.txn = t, !.caller = c] \in CallType
    /\ \A t \in Txns : [NoCall EXCEPT !.txn = t] \in CallType
    /\ \A n \in Nat : [NoCall EXCEPT !.inc = n] \in CallType
    /\ \A t \in Txns : [NoIter EXCEPT !.txn = t] \in IterType
    /\ \A k \in {"ExecutionTask", "ValidationTask"}, t \in Txns, n, w \in Nat :
          TaskOf(k, t, n, w) \in TaskType
    /\ \A s \in StatusNames, n \in Nat : Status(s, n) \in [st : StatusNames, inc : Nat]
  <1>1. NoTask \in TaskType /\ NoCall \in CallType /\ NoIter \in IterType
    BY Constants DEF NoTask, TaskOf, TaskType, NoCall, CallType, NoIter, IterType
  <1>2. \A t \in Txns, c \in {"prio", "chan", "finish", "abort"} :
            [NoCall EXCEPT !.txn = t, !.caller = c] \in CallType
    BY Zenon DEF NoCall, CallType
  <1>3. \A t \in Txns : [NoCall EXCEPT !.txn = t] \in CallType
    BY Zenon DEF NoCall, CallType
  <1>4. \A n \in Nat : [NoCall EXCEPT !.inc = n] \in CallType
    BY Constants, Zenon DEF NoCall, CallType
  <1>5. \A t \in Txns : [NoIter EXCEPT !.txn = t] \in IterType
    BY DEF NoIter, IterType
  <1>6. \A k \in {"ExecutionTask", "ValidationTask"}, t \in Txns, n, w \in Nat :
            TaskOf(k, t, n, w) \in TaskType
    BY Zenon DEF TaskOf, TaskType
  <1>7. \A s \in StatusNames, n \in Nat : Status(s, n) \in [st : StatusNames, inc : Nat]
    BY Zenon DEF Status
  <1> QED
    BY <1>1, <1>2, <1>3, <1>4, <1>5, <1>6, <1>7, Zenon

\* What a failed try_incarnate does to the locals of its caller.
IncarnateReturns(th) ==
    /\ call' = [call EXCEPT ![th] = NoCall]
    /\ \/ /\ call[th].caller = "finish"
          /\ pc' = [pc EXCEPT ![th] = "items"]
          /\ iter' = [iter EXCEPT ![th].pos = @ + 1]
       \/ /\ call[th].caller # "finish"
          /\ iter' = iter
          /\ \/ pc' = [pc EXCEPT ![th] = "chan"]
             \/ pc' = [pc EXCEPT ![th] = "commit"]
             \/ pc' = [pc EXCEPT ![th] = "work"]
             \/ finished_val_flag[th] = FALSE /\ pc' = [pc EXCEPT ![th] = "tryval"]

\* IncarnateFails returns to the place its caller goes on from.
LEMMA IncarnateReturn ==
    ASSUME TypeOK, NEW th \in Threads, Control(th), Incarnating(th), IncarnateFails(th)
    PROVE  IncarnateReturns(th)
  <1>1. call[th].caller \in {"prio", "chan", "finish", "abort"}
    BY LocalTypes, Zenon DEF Control
  <1>2. finished_val_flag[th] = FALSE \/ finished_val_flag[th] = TRUE
    BY LocalTypes, Zenon
  <1>3. CASE call[th].caller = "prio"
    BY <1>3, Zenon DEF IncarnateFails, IncarnateReturns, Goto
  <1>4. CASE call[th].caller = "chan"
    BY <1>2, <1>4, Zenon DEF IncarnateFails, IncarnateReturns, Goto, NoExec, Top
  <1>5. CASE call[th].caller = "finish"
    BY <1>5, Zenon DEF IncarnateFails, IncarnateReturns, Goto
  <1>6. CASE call[th].caller = "abort"
    BY <1>6, Zenon DEF IncarnateFails, IncarnateReturns, Goto, Top
  <1> QED
    BY <1>1, <1>3, <1>4, <1>5, <1>6, Zenon

\* Every action preserves TypeOK.
LEMMA TypeStep ==
    ASSUME TypeInv, NEW th \in Threads, SchedulerStep(th) \/ ExecutorStep(th)
    PROVE  TypeOK'
  <1>a. TypeOK /\ Control(th) /\ ValidationMutex
    BY Zenon DEF TypeInv
  <1>b. /\ txn_status \in [Txns -> [st : StatusNames, inc : Nat]]
        /\ task \in [Threads -> TaskType]
        /\ call \in [Threads -> CallType]
        /\ iter \in [Threads -> IterType]
        /\ pc \in [Threads -> Labels]
    BY <1>a, Zenon DEF TypeOK
  <1>c. Top(th) \in Labels /\ NoExec(th) \in Labels
    BY Zenon DEF Top, NoExec, Labels
  <1>1. CASE TryCommit(th)
    <2>1. commit_state.idx \in Txns /\ commit_state.idx < NumTxns
      BY <1>a, <1>1, SharedTypes, Constants DEF TryCommit, CanCommit, CommitCandidate, Txns
    <2>2. CommitWave \in Nat
      BY <1>a, <2>1, SharedTypes, Zenon DEF CommitWave, Max2
    <2>3. commit_state' \in [idx : 0 .. NumTxns, wave : Nat]
      BY <1>a, <1>1, <2>1, <2>2, SharedTypes, Constants, SMTT(30) DEF TryCommit
    <2>4. txn_status' \in [Txns -> [st : StatusNames, inc : Nat]]
      BY <1>b, <1>1, <2>1, Zenon DEF TryCommit, StatusNames
    <2> QED
      BY <1>a, <1>1, <2>3, <2>4, Zenon DEF TryCommit, TypeOK, waves, commits, queues, locals
  <1>2. CASE TryCommitNone(th)
    <2>1. CASE CommitCandidate
      <3>1. commit_state.idx \in Txns
        BY <1>a, <2>1, SharedTypes, Constants DEF CommitCandidate, Txns
      <3>2. CommitWave \in Nat
        BY <1>a, <3>1, SharedTypes, Zenon DEF CommitWave, Max2
      <3> QED
        BY <1>a, <1>2, <2>1, <3>2, Zenon DEF TryCommitNone, TypeOK, waves, commits, queues, Goto, Labels
    <2>2. CASE ~CommitCandidate
      BY <1>a, <1>2, <2>2, Zenon DEF TryCommitNone, TypeOK, waves, commits, queues, Goto, Labels
    <2> QED
      BY <2>1, <2>2, Zenon
  <1>3. CASE Exit(th)
    BY <1>a, <1>3, Zenon DEF Exit, TypeOK, Goto, Labels, waves, commits, queues
  <1>4. CASE RecvPrio(th)
    <2>1. CASE /\ priochannels # <<>>
               /\ priochannels' = Tail(priochannels)
               /\ Call(th, Head(priochannels), "prio")
      <3>1. Head(priochannels) \in Txns /\ Tail(priochannels) \in Seq(Txns)
        BY <1>a, <2>1 DEF TypeOK
      <3>2. call' \in [Threads -> CallType]
        BY <1>b, <2>1, <3>1, Records, Zenon DEF Call
      <3>3. pc' \in [Threads -> Labels]
        BY <1>b, <2>1, Zenon DEF Call, Goto, Labels
      <3> QED
        BY <1>a, <1>4, <2>1, <3>1, <3>2, <3>3, ZenonT(30) DEF RecvPrio, TypeOK, waves, commits
    <2>2. CASE Goto(th, "chan") /\ UNCHANGED <<priochannels, call>>
      BY <1>a, <1>4, <2>2, Zenon DEF RecvPrio, TypeOK, Goto, Labels, waves, commits
    <2> QED
      BY <1>4, <2>1, <2>2, Zenon DEF RecvPrio
  <1>5. CASE RecvChan(th)
    <2>1. CASE /\ channels # <<>>
               /\ channels' = Tail(channels)
               /\ Call(th, Head(channels), "chan")
      <3>1. Head(channels) \in Txns /\ Tail(channels) \in Seq(Txns)
        BY <1>a, <2>1, SMTT(30) DEF TypeOK
      <3>2. call' \in [Threads -> CallType]
        BY <1>b, <2>1, <3>1, Records, Zenon DEF Call
      <3>3. pc' \in [Threads -> Labels]
        BY <1>b, <2>1, Zenon DEF Call, Goto, Labels
      <3> QED
        BY <1>a, <1>5, <2>1, <3>1, <3>2, <3>3, Zenon DEF RecvChan, TypeOK, waves, commits
    <2>2. CASE Goto(th, NoExec(th)) /\ UNCHANGED <<channels, call>>
      BY <1>a, <1>c, <1>5, <2>2, Zenon DEF RecvChan, TypeOK, Goto, waves, commits
    <2> QED
      BY <1>5, <2>1, <2>2, Zenon DEF RecvChan
  <1>6. CASE LoadValidationIdx(th)
    <2>1. call' \in [Threads -> CallType]
      <3>1. CASE UNCHANGED call
        BY <1>b, <3>1, Zenon
      <3>2. CASE /\ validation_idx.idx < NumTxns
                 /\ call' = [call EXCEPT ![th] = [NoCall EXCEPT !.txn = validation_idx.idx]]
        <4>1. validation_idx.idx \in Txns
          BY <1>a, <3>2, SharedTypes, Constants DEF Txns
        <4> QED
          BY <1>b, <3>2, <4>1, Records, Zenon
      <3> QED
        BY <1>6, <3>1, <3>2, Zenon DEF LoadValidationIdx
    <2>2. pc' \in [Threads -> Labels]
      BY <1>b, <1>c, <1>6, ZenonT(30) DEF LoadValidationIdx, Goto, Labels
    <2>3. finished_val_flag' \in [Threads -> BOOLEAN]
      BY <1>a, <1>6, Zenon DEF LoadValidationIdx, TypeOK
    <2> QED
      BY <1>a, <1>6, <2>1, <2>2, <2>3, Zenon DEF LoadValidationIdx, TypeOK, waves, commits, queues
  <1>7. CASE CheckExecuted(th)
    <2>1. txn_status[call[th].txn].inc \in Nat
      BY <1>a, LocalTypes, SharedTypes, Zenon
    <2>2. call' \in [Threads -> CallType]
      BY <1>b, <1>7, <2>1, Records, Zenon DEF CheckExecuted
    <2>3. pc' \in [Threads -> Labels]
      BY <1>b, <1>c, <1>7, ZenonT(30) DEF CheckExecuted, Goto, Labels
    <2> QED
      BY <1>a, <1>7, <2>2, <2>3, Zenon DEF CheckExecuted, TypeOK, waves, commits, queues
  <1>8. CASE FetchAddValidationIdx(th)
    <2>1. validation_idx.idx < NumTxns
      BY <1>a, <1>8, Zenon DEF FetchAddValidationIdx, ValidationMutex, valock
    <2>2. validation_idx.idx \in Txns
      BY <1>a, <2>1, SharedTypes, Constants, SMTT(30) DEF Txns
    <2>3. validation_idx' \in [idx : 0 .. NumTxns, wave : Nat]
      <3>1. validation_idx.idx + 1 \in 0 .. NumTxns
        BY <1>a, <2>1, SharedTypes, Constants, SMTT(30)
      <3>2. validation_idx \in [idx : 0 .. NumTxns, wave : Nat]
        BY <1>a, Zenon DEF TypeOK
      <3> QED
        BY <1>8, <3>1, <3>2, Zenon DEF FetchAddValidationIdx
    <2>4. task' \in [Threads -> TaskType]
      BY <1>a, <1>b, <1>8, <2>2, Records, SharedTypes, LocalTypes, Zenon DEF FetchAddValidationIdx
    <2>5. call' \in [Threads -> CallType] /\ pc' \in [Threads -> Labels]
      BY <1>b, <1>c, <1>8, Records, Zenon DEF FetchAddValidationIdx, Goto
    <2> QED
      BY <1>a, <1>8, <2>3, <2>4, <2>5, Zenon DEF FetchAddValidationIdx, TypeOK, commits, queues

  <1>g. [iter EXCEPT ![th].pos = @ + 1] \in [Threads -> IterType]
    <2>1. iter[th].pos + 1 \in Nat \ {0}
      BY <1>a, LocalTypes
    <2> QED
      BY <1>b, <2>1, ZenonT(30) DEF IterType
  <1>d. ASSUME IncarnateReturns(th)
        PROVE  /\ call' \in [Threads -> CallType] /\ pc' \in [Threads -> Labels]
               /\ iter' \in [Threads -> IterType]
    <2>1. call' \in [Threads -> CallType]
      BY <1>b, <1>d, Records, Zenon DEF IncarnateReturns
    <2>2. pc' \in [Threads -> Labels]
      BY <1>b, <1>d, Zenon DEF IncarnateReturns, Labels
    <2>3. iter' \in [Threads -> IterType]
      BY <1>b, <1>d, <1>g, Zenon DEF IncarnateReturns
    <2> QED
      BY <2>1, <2>2, <2>3, Zenon
  <1>e. ASSUME NEW n \in Nat
        PROVE  [call EXCEPT ![th].dep = n] \in [Threads -> CallType]
    BY <1>b, ZenonT(30) DEF CallType
  <1>f. Incarnating(th) /\ IncarnateFails(th) => IncarnateReturns(th)
    BY <1>a, IncarnateReturn, Zenon
  <1>9. CASE LockStatus(th)
    <2>1. /\ call' \in [Threads -> CallType] /\ pc' \in [Threads -> Labels]
          /\ iter' \in [Threads -> IterType]
      <3>1. CASE IncarnateFails(th)
        BY <1>d, <1>f, <1>9, <3>1, Zenon DEF LockStatus, Incarnating
      <3>2. CASE /\ call' = [call EXCEPT ![th].dep = Len(HintGraph[call[th].txn])]
                 /\ Goto(th, "dep")
                 /\ UNCHANGED iter
        BY <1>a, <1>b, <1>e, <3>2, LocalTypes, Constants, Zenon DEF Goto, Labels
      <3> QED
        BY <1>9, <3>1, <3>2, Zenon DEF LockStatus
    <2> QED
      BY <1>a, <1>9, <2>1, Zenon DEF LockStatus, TypeOK, waves, commits, queues
  <1>10. CASE CheckHint(th)
    <2>1. call[th].dep - 1 \in Nat
      BY <1>a, <1>10, LocalTypes DEF CheckHint
    <2>2. call' \in [Threads -> CallType]
      BY <1>b, <1>e, <1>10, <2>1, Zenon DEF CheckHint
    <2>3. pc' \in [Threads -> Labels]
      BY <1>b, <1>10, Zenon DEF CheckHint, Goto, Labels
    <2> QED
      BY <1>a, <1>10, <2>2, <2>3, Zenon DEF CheckHint, TypeOK, waves, commits, queues
  <1>11. CASE PushHint(th)
    <2>1. critical_path_parent' \in [Txns -> Seq(Txns)]
      <3>1. call[th].txn \in Txns /\ critical_path_parent \in [Txns -> Seq(Txns)]
        BY <1>a, LocalTypes, Zenon DEF TypeOK
      <3>2. \A d \in Txns : Append(critical_path_parent[d], call[th].txn) \in Seq(Txns)
        BY <3>1
      <3> QED
        BY <1>11, <3>1, <3>2, Zenon DEF PushHint
    <2> QED
      BY <1>a, <1>11, <2>1, Zenon DEF PushHint, TypeOK, Goto, Labels, waves, commits, queues
  <1>12. CASE RecheckHint(th)
    <2>1. /\ call' \in [Threads -> CallType] /\ pc' \in [Threads -> Labels]
          /\ iter' \in [Threads -> IterType]
      <3>1. CASE IncarnateFails(th)
        BY <1>d, <1>f, <1>12, <3>1, Zenon DEF RecheckHint, Incarnating
      <3>2. CASE /\ call' = [call EXCEPT ![th].dep = @ - 1]
                 /\ Goto(th, "dep")
                 /\ UNCHANGED iter
        <4>1. call[th].dep - 1 \in Nat
          BY <1>a, <1>12, LocalTypes DEF RecheckHint, Control
        <4> QED
          BY <1>b, <1>e, <3>2, <4>1, Zenon DEF Goto, Labels
      <3> QED
        BY <1>12, <3>1, <3>2, Zenon DEF RecheckHint
    <2> QED
      BY <1>a, <1>12, <2>1, Zenon DEF RecheckHint, TypeOK, waves, commits, queues
  <1>13. CASE Incarnate(th)
    <2>1. txn_status' \in [Txns -> [st : StatusNames, inc : Nat]]
      BY <1>a, <1>b, <1>13, Records, LocalTypes, SharedTypes, Zenon DEF Incarnate, StatusNames
    <2>2. task' \in [Threads -> TaskType]
      BY <1>a, <1>b, <1>13, Records, LocalTypes, SharedTypes, Zenon DEF Incarnate
    <2>3. call' \in [Threads -> CallType] /\ pc' \in [Threads -> Labels]
      BY <1>b, <1>c, <1>13, Records, ZenonT(30) DEF Incarnate, Goto, Labels
    <2>4. iter' \in [Threads -> IterType]
      BY <1>b, <1>g, <1>13, Zenon DEF Incarnate
    <2> QED
      BY <1>a, <1>13, <2>1, <2>2, <2>3, <2>4, Zenon DEF Incarnate, TypeOK, waves, commits, queues
  <1>14. CASE CountChildren(th)
    <2>1. Len(critical_path_parent[iter[th].txn]) \in Nat
      BY <1>a, LocalTypes, SharedTypes, Zenon
    <2>2. iter' \in [Threads -> IterType]
      BY <1>b, <1>14, <2>1, ZenonT(30) DEF CountChildren, IterType
    <2> QED
      BY <1>a, <1>14, <2>2, Zenon DEF CountChildren, TypeOK, Goto, Labels, waves, commits, queues
  <1>15. CASE ReleaseChild(th)
    <2> DEFINE tx == critical_path_parent[iter[th].txn][iter[th].pos]
    <2>1. tx \in Txns
      <3>1. /\ critical_path_parent[iter[th].txn] \in Seq(Txns)
            /\ iter[th].pos \in 1 .. Len(critical_path_parent[iter[th].txn])
        <4>1. /\ iter[th].pos <= iter[th].cnt
              /\ iter[th].cnt <= Len(critical_path_parent[iter[th].txn])
          BY <1>a, <1>15, Zenon DEF ReleaseChild, Control
        <4> QED
          BY <1>a, <4>1, LocalTypes, SharedTypes, SMTT(30)
      <3> QED
        BY <3>1
    <2> HIDE DEF tx
    <2>2. /\ channels' = channels \/ channels' = Append(channels, tx)
          /\ priochannels' = priochannels \/ priochannels' = Append(priochannels, tx)
          /\ iter' = iter \/ iter' = [iter EXCEPT ![th].pos = @ + 1]
          /\ \/ pc' = pc /\ call' = call
             \/ Call(th, tx, "finish")
      BY <1>15, Zenon DEF ReleaseChild, queues, tx
    <2>3. channels' \in Seq(Txns) /\ priochannels' \in Seq(Txns)
      <3>1. channels \in Seq(Txns) /\ priochannels \in Seq(Txns)
        BY <1>a, Zenon DEF TypeOK
      <3>2. Append(channels, tx) \in Seq(Txns) /\ Append(priochannels, tx) \in Seq(Txns)
        BY <2>1, <3>1
      <3> QED
        BY <2>2, <3>1, <3>2, Zenon
    <2>4. iter' \in [Threads -> IterType]
      BY <1>b, <1>g, <2>2, Zenon
    <2>5. call' \in [Threads -> CallType] /\ pc' \in [Threads -> Labels]
      BY <1>b, <2>1, <2>2, Records, ZenonT(30) DEF Call, Goto, Labels
    <2> QED
      BY <1>a, <1>15, <2>3, <2>4, <2>5, Zenon DEF ReleaseChild, TypeOK, waves, commits
  <1>16. CASE EndFinishExecution(th)
    BY <1>a, <1>b, <1>c, <1>16, Records, Zenon
       DEF EndFinishExecution, TypeOK, Goto, waves, commits, queues
  <1>17. CASE DecreaseValidationIdx(th)
    <2>1. task[th].txn \in Txns /\ task[th].txn \in 0 .. NumTxns
      BY <1>a, LocalTypes, Constants
    <2>2. /\ validation_idx' \in [idx : 0 .. NumTxns, wave : Nat]
          /\ max_triggered_wave' \in [Txns -> Nat]
      <3>1. /\ validation_idx \in [idx : 0 .. NumTxns, wave : Nat]
            /\ max_triggered_wave \in [Txns -> Nat]
            /\ validation_idx.wave + 1 \in Nat
        BY <1>a DEF TypeOK
      <3> QED
        BY <1>17, <2>1, <3>1 DEF DecreaseValidationIdx
    <2>3. call' \in [Threads -> CallType] /\ task' \in [Threads -> TaskType]
      BY <1>b, <1>17, <2>1, Records, Zenon DEF DecreaseValidationIdx, Call
    <2>4. pc' \in [Threads -> Labels]
      BY <1>b, <1>17, Zenon DEF DecreaseValidationIdx, Call, Goto, Labels
    <2> QED
      BY <1>a, <1>17, <2>2, <2>3, <2>4, Zenon DEF DecreaseValidationIdx, TypeOK, commits, queues
  <1>18. CASE SetExecuted(th)
    <2>1. txn_status' \in [Txns -> [st : StatusNames, inc : Nat]]
      BY <1>a, <1>b, <1>18, Records, LocalTypes, Zenon DEF SetExecuted, StatusNames
    <2>2. task' \in [Threads -> TaskType] /\ iter' \in [Threads -> IterType]
      BY <1>a, <1>b, <1>18, Records, LocalTypes, Zenon DEF SetExecuted
    <2> QED
      BY <1>a, <1>18, <2>1, <2>2, Zenon DEF SetExecuted, TypeOK, Goto, Labels, waves, commits, queues
  <1>19. CASE TryAbort(th)
    <2>1. txn_status' \in [Txns -> [st : StatusNames, inc : Nat]]
      <3>1. Status("Aborting", task[th].inc) \in [st : StatusNames, inc : Nat]
        BY <1>a, LocalTypes, Zenon DEF Status, StatusNames
      <3> QED
        BY <1>b, <1>19, <3>1, Zenon DEF TryAbort
    <2>2. pc' \in [Threads -> Labels]
      BY <1>b, <1>19, Zenon DEF TryAbort, Goto, Labels
    <2> QED
      BY <1>a, <1>19, <2>1, <2>2, Zenon DEF TryAbort, TypeOK, waves, commits, queues
  <1>20. CASE FinishValidation(th)
    <2>1. maybe_max_validated_wave' \in [Txns -> Nat \cup {-1}]
      BY <1>a, <1>20, LocalTypes, Zenon DEF FinishValidation, TypeOK, Max2
    <2>2. task' \in [Threads -> TaskType] /\ pc' \in [Threads -> Labels]
      BY <1>b, <1>c, <1>20, Records, Zenon DEF FinishValidation, Goto
    <2> QED
      BY <1>a, <1>20, <2>1, <2>2, Zenon DEF FinishValidation, TypeOK, commits, queues
  <1>21. CASE SetAborted(th)
    <2>1. txn_status' \in [Txns -> [st : StatusNames, inc : Nat]]
      <3>1. Status("ReadyToExecute", task[th].inc + 1) \in [st : StatusNames, inc : Nat]
        BY <1>a, LocalTypes DEF Status, StatusNames
      <3> QED
        BY <1>b, <1>21, <3>1, Zenon DEF SetAborted
    <2> QED
      BY <1>a, <1>21, <2>1, Zenon DEF SetAborted, TypeOK, Goto, Labels, waves, commits, queues
  <1>22. ASSUME NEW dep \in Txns, WaitForDependency(th, dep)
         PROVE  TypeOK'
    <2>1. critical_path_parent' \in [Txns -> Seq(Txns)]
      BY <1>a, <1>22, LocalTypes, SMTT(30) DEF WaitForDependency, TypeOK
    <2> QED
      BY <1>a, <1>22, <2>1, ZenonT(30) DEF WaitForDependency, TypeOK, waves, commits, queues, locals
  <1> QED
    BY <1>1, <1>2, <1>3, <1>4, <1>5, <1>6, <1>7, <1>8, <1>9, <1>10, <1>11, <1>12, <1>13, <1>14,
       <1>15, <1>16, <1>17, <1>18, <1>19, <1>20, <1>21, <1>22, ZenonT(30) DEF SchedulerStep, ExecutorStep

\* The hint that try_incarnate looks at is a transaction.
LEMMA HintInRange ==
    ASSUME TypeOK, NEW th \in Threads, Control(th), call[th].dep > 0
    PROVE  Hint(th) \in Txns
  <1>1. call[th].txn \in Txns /\ call[th].dep \in 1 .. Len(HintGraph[call[th].txn])
    BY LocalTypes, Constants DEF Control
  <1> QED
    BY <1>1, Constants DEF Hint

Step(th) == SchedulerStep(th) \/ ExecutorStep(th)

\* A step leaves the locals of the other workers alone.
LEMMA Others ==
    ASSUME TypeInv, NEW th \in Threads, Step(th), NEW w \in Threads, w # th
    PROVE  /\ pc'[w] = pc[w] /\ task'[w] = task[w] /\ call'[w] = call[w]
           /\ iter'[w] = iter[w] /\ finished_val_flag'[w] = finished_val_flag[w]
  <1> DEFINE Same == /\ pc'[w] = pc[w] /\ task'[w] = task[w] /\ call'[w] = call[w]
                     /\ iter'[w] = iter[w] /\ finished_val_flag'[w] = finished_val_flag[w]
  <1>a. TypeOK /\ Control(th)
    BY Zenon DEF TypeInv
  <1>b. /\ task \in [Threads -> TaskType] /\ call \in [Threads -> CallType]
        /\ iter \in [Threads -> IterType] /\ pc \in [Threads -> Labels]
        /\ finished_val_flag \in [Threads -> BOOLEAN]
    BY <1>a, Zenon DEF TypeOK
  <1>c. Incarnating(th) /\ IncarnateFails(th) => IncarnateReturns(th)
    BY <1>a, IncarnateReturn, Zenon
  <1>1. CASE TryCommit(th)
    BY <1>b, <1>1, Zenon DEF TryCommit, Goto, locals
  <1>2. CASE TryCommitNone(th)
    BY <1>b, <1>2, Zenon DEF TryCommitNone, Goto, locals
  <1>3. CASE Exit(th)
    BY <1>b, <1>3, Zenon DEF Exit, Goto, locals
  <1>4. CASE RecvPrio(th)
    BY <1>b, <1>4, Zenon DEF RecvPrio, Goto, locals, Call
  <1>5. CASE RecvChan(th)
    BY <1>b, <1>5, Zenon DEF RecvChan, Goto, locals, Call
  <1>6. CASE LoadValidationIdx(th)
    BY <1>b, <1>6, Zenon DEF LoadValidationIdx, Goto, locals
  <1>7. CASE CheckExecuted(th)
    BY <1>b, <1>7, Zenon DEF CheckExecuted, Goto, locals
  <1>8. CASE FetchAddValidationIdx(th)
    BY <1>b, <1>8, Zenon DEF FetchAddValidationIdx, Goto, locals
  <1>9. CASE LockStatus(th)
    BY <1>b, <1>c, <1>9, Zenon DEF LockStatus, Goto, locals, Incarnating, IncarnateReturns
  <1>10. CASE CheckHint(th)
    BY <1>b, <1>10, Zenon DEF CheckHint, Goto, locals
  <1>11. CASE PushHint(th)
    BY <1>b, <1>11, Zenon DEF PushHint, Goto, locals
  <1>12. CASE RecheckHint(th)
    BY <1>b, <1>c, <1>12, Zenon DEF RecheckHint, Goto, locals, Incarnating, IncarnateReturns
  <1>13. CASE Incarnate(th)
    BY <1>b, <1>13, Zenon DEF Incarnate, Goto, locals
  <1>14. CASE CountChildren(th)
    BY <1>b, <1>14, Zenon DEF CountChildren, Goto, locals
  <1>15. CASE ReleaseChild(th)
    BY <1>b, <1>15, Zenon DEF ReleaseChild, Goto, locals, Call
  <1>16. CASE EndFinishExecution(th)
    BY <1>b, <1>16, Zenon DEF EndFinishExecution, Goto, locals
  <1>17. CASE DecreaseValidationIdx(th)
    BY <1>b, <1>17, Zenon DEF DecreaseValidationIdx, Goto, locals, Call
  <1>18. CASE SetExecuted(th)
    BY <1>b, <1>18, Zenon DEF SetExecuted, Goto, locals
  <1>19. CASE TryAbort(th)
    BY <1>b, <1>19, Zenon DEF TryAbort, Goto, locals
  <1>20. CASE FinishValidation(th)
    BY <1>b, <1>20, Zenon DEF FinishValidation, Goto, locals
  <1>21. CASE SetAborted(th)
    BY <1>b, <1>21, Zenon DEF SetAborted, Goto, locals
  <1>22. ASSUME NEW dep \in Txns, WaitForDependency(th, dep)
         PROVE  Same
    BY <1>22, Zenon DEF WaitForDependency, locals
  <1> HIDE DEF Same
  <1>23. Same
    BY <1>1, <1>2, <1>3, <1>4, <1>5, <1>6, <1>7, <1>8, <1>9, <1>10, <1>11, <1>12, <1>13, <1>14,
       <1>15, <1>16, <1>17, <1>18, <1>19, <1>20, <1>21, <1>22, ZenonT(30) DEF Step, SchedulerStep,
       ExecutorStep, Same
  <1> QED
    BY <1>23, Zenon DEF Same

\* The lists of critical_path_parent only grow at their ends.
LEMMA ListsGrow ==
    ASSUME TypeInv, NEW th \in Threads, Step(th), NEW d \in Txns
    PROVE  /\ Len(critical_path_parent[d]) <= Len(critical_path_parent'[d])
           /\ \A i \in 1 .. Len(critical_path_parent[d]) :
                 critical_path_parent'[d][i] = critical_path_parent[d][i]
  <1>a. TypeOK
    BY Zenon DEF TypeInv
  <1>b. /\ critical_path_parent \in [Txns -> Seq(Txns)]
        /\ task[th].txn \in Txns /\ call[th].txn \in Txns
    BY <1>a, LocalTypes, Zenon DEF TypeOK
  <1>c. critical_path_parent[d] \in Seq(Txns) /\ Len(critical_path_parent[d]) \in Nat
    BY <1>a, SharedTypes, Zenon
  <1> DEFINE Appended == \E e, t \in Txns : critical_path_parent' =
                            [critical_path_parent EXCEPT ![e] = Append(@, t)]
  <1>1. critical_path_parent' = critical_path_parent \/ Appended
    <2>1. CASE TryCommit(th)
      BY <2>1, Zenon DEF TryCommit
    <2>2. CASE TryCommitNone(th)
      BY <2>2, Zenon DEF TryCommitNone
    <2>3. CASE Exit(th)
      BY <2>3, Zenon DEF Exit
    <2>4. CASE RecvPrio(th)
      BY <2>4, Zenon DEF RecvPrio
    <2>5. CASE RecvChan(th)
      BY <2>5, Zenon DEF RecvChan
    <2>6. CASE LoadValidationIdx(th)
      BY <2>6, Zenon DEF LoadValidationIdx
    <2>7. CASE CheckExecuted(th)
      BY <2>7, Zenon DEF CheckExecuted
    <2>8. CASE FetchAddValidationIdx(th)
      BY <2>8, Zenon DEF FetchAddValidationIdx
    <2>9. CASE LockStatus(th)
      BY <2>9, Zenon DEF LockStatus
    <2>10. CASE CheckHint(th)
      BY <2>10, Zenon DEF CheckHint
    <2>11. CASE PushHint(th)
      <3>1. Hint(th) \in Txns
        BY <1>a, HintInRange, <2>11, Zenon DEF PushHint, TypeInv, Control
      <3> QED
        BY <1>b, <2>11, <3>1, Zenon DEF PushHint
    <2>12. CASE RecheckHint(th)
      BY <2>12, Zenon DEF RecheckHint
    <2>13. CASE Incarnate(th)
      BY <2>13, Zenon DEF Incarnate
    <2>14. CASE CountChildren(th)
      BY <2>14, Zenon DEF CountChildren
    <2>15. CASE ReleaseChild(th)
      BY <2>15, Zenon DEF ReleaseChild
    <2>16. CASE EndFinishExecution(th)
      BY <2>16, Zenon DEF EndFinishExecution
    <2>17. CASE DecreaseValidationIdx(th)
      BY <2>17, Zenon DEF DecreaseValidationIdx
    <2>18. CASE SetExecuted(th)
      BY <2>18, Zenon DEF SetExecuted
    <2>19. CASE TryAbort(th)
      BY <2>19, Zenon DEF TryAbort
    <2>20. CASE FinishValidation(th)
      BY <2>20, Zenon DEF FinishValidation
    <2>21. CASE SetAborted(th)
      BY <2>21, Zenon DEF SetAborted
    <2>22. ASSUME NEW dep \in Txns, WaitForDependency(th, dep)
           PROVE  Appended
      BY <1>b, <2>22, Zenon DEF WaitForDependency
    <2> QED
      BY <2>1, <2>2, <2>3, <2>4, <2>5, <2>6, <2>7, <2>8, <2>9, <2>10, <2>11, <2>12, <2>13,
         <2>14, <2>15, <2>16, <2>17, <2>18, <2>19, <2>20, <2>21, <2>22, ZenonT(30) DEF Step, SchedulerStep,
         ExecutorStep
  <1>2. CASE critical_path_parent' = critical_path_parent
    BY <1>c, <1>2
  <1>3. ASSUME NEW e \in Txns, NEW t \in Txns,
               critical_path_parent' = [critical_path_parent EXCEPT ![e] = Append(@, t)]
        PROVE  /\ Len(critical_path_parent[d]) <= Len(critical_path_parent'[d])
               /\ \A i \in 1 .. Len(critical_path_parent[d]) :
                     critical_path_parent'[d][i] = critical_path_parent[d][i]
    <2>1. \/ critical_path_parent'[d] = critical_path_parent[d]
          \/ critical_path_parent'[d] = Append(critical_path_parent[d], t)
      BY <1>b, <1>3, Zenon
    <2> QED
      BY <1>c, <1>3, <2>1
  <1> QED
    BY <1>1, <1>2, <1>3, Zenon

\* Every action preserves Control.
LEMMA ControlStep ==
    ASSUME TypeInv, TypeOK', NEW th \in Threads, Step(th), NEW w \in Threads
    PROVE  Control(w)'
  <1>a. TypeOK /\ Control(th) /\ Control(w)
    BY Zenon DEF TypeInv
  <1>b. /\ task \in [Threads -> TaskType] /\ call \in [Threads -> CallType]
        /\ iter \in [Threads -> IterType] /\ pc \in [Threads -> Labels]
    BY <1>a, Zenon DEF TypeOK
  <1>d. /\ Len(critical_path_parent[iter[w].txn]) <= Len(critical_path_parent'[iter[w].txn])
        /\ Len(critical_path_parent[iter[w].txn]) \in Nat
        /\ Len(critical_path_parent'[iter[w].txn]) \in Nat
        /\ iter[w].cnt \in Nat
        /\ iter[w].cnt <= Len(critical_path_parent'[iter[w].txn])
    <2>1. iter[w].txn \in Txns /\ iter[w].cnt \in Nat
      BY <1>a, LocalTypes, Zenon
    <2>2. /\ critical_path_parent[iter[w].txn] \in Seq(Txns)
          /\ critical_path_parent'[iter[w].txn] \in Seq(Txns)
      BY <1>a, <2>1, Zenon DEF TypeOK
    <2>3. iter[w].cnt <= Len(critical_path_parent[iter[w].txn])
      BY <1>a, Zenon DEF Control
    <2>4. Len(critical_path_parent[iter[w].txn]) <= Len(critical_path_parent'[iter[w].txn])
      BY <2>1, ListsGrow, Zenon
    <2> QED
      BY <2>1, <2>2, <2>3, <2>4, SMTT(30)
  <1>h. /\ call[th].dep \in Nat /\ Len(HintGraph[call[th].txn]) \in Nat
        /\ Len(HintGraph[call'[th].txn]) \in Nat
        /\ Len(critical_path_parent'[iter'[th].txn]) \in Nat
    <2>1. call[th].dep \in Nat /\ call[th].txn \in Txns
      BY <1>a, LocalTypes, Zenon
    <2>2. call'[th].txn \in Txns /\ iter'[th].txn \in Txns
      BY Zenon DEF TypeOK, CallType, IterType
    <2>3. critical_path_parent'[iter'[th].txn] \in Seq(Txns)
      BY <2>2, Zenon DEF TypeOK
    <2> QED
      BY <2>1, <2>2, <2>3, Constants, SMTT(30)
  <1>g. ASSUME NEW t, NEW c \in {"prio", "chan", "finish", "abort"}, Call(th, t, c)
        PROVE  /\ pc'[th] = "lock" /\ call'[th].caller # "none"
               /\ call'[th].dep <= Len(HintGraph[call'[th].txn])
    BY <1>b, <1>g, <1>h, SMTT(30) DEF Call, Goto, NoCall
  <1>e. CASE w # th
    BY <1>a, <1>d, <1>e, Others, SMTT(30) DEF Control, Incarnating
  <1>f. CASE w = th
    <2>i. ASSUME Incarnating(th), IncarnateFails(th), UNCHANGED <<task, critical_path_parent>>
          PROVE  Control(th)'
      <3>1. IncarnateReturns(th)
        BY <1>a, <2>i, IncarnateReturn, Zenon
      <3>2. call'[th].dep = 0 /\ call'[th].caller = "none"
        BY <1>b, <3>1, Zenon DEF IncarnateReturns, NoCall
      <3>3. pc'[th] \in {"items", "chan", "commit", "work", "tryval"}
        BY <1>b, <3>1, Zenon DEF IncarnateReturns
      <3>4. iter'[th].txn = iter[th].txn /\ iter'[th].cnt = iter[th].cnt
        BY <1>b, <3>1 DEF IncarnateReturns, IterType
      <3>5. task[th] = NoTask /\ NoTask.kind = "NoTask"
        BY <1>a, <2>i, Zenon DEF Control, NoTask, TaskOf
      <3> QED
        BY <1>a, <1>d, <1>f, <1>h, <2>i, <3>2, <3>3, <3>4, <3>5, SMTT(30) DEF Control, Incarnating
    <2>1. CASE TryCommit(th)
      BY <1>a, <1>d, <1>f, <2>1, Zenon DEF TryCommit, locals, Control, Incarnating
    <2>2. CASE TryCommitNone(th)
      BY <1>a, <1>b, <1>d, <1>f, <2>2, Zenon DEF TryCommitNone, Goto, Control, Incarnating
    <2>3. CASE Exit(th)
      BY <1>a, <1>b, <1>d, <1>f, <2>3, Zenon DEF Exit, AtTask, Goto, Control, Incarnating
    <2>4. CASE RecvPrio(th)
      <3>1. CASE Call(th, Head(priochannels), "prio")
        BY <1>a, <1>d, <1>f, <1>g, <2>4, <3>1, Zenon DEF RecvPrio, AtTask, Control, Incarnating
      <3>2. CASE Goto(th, "chan") /\ UNCHANGED call
        BY <1>a, <1>b, <1>d, <1>f, <2>4, <3>2, Zenon DEF RecvPrio, AtTask, Goto, Control, Incarnating
      <3> QED
        BY <2>4, <3>1, <3>2, Zenon DEF RecvPrio
    <2>5. CASE RecvChan(th)
      <3>1. CASE Call(th, Head(channels), "chan")
        BY <1>a, <1>d, <1>f, <1>g, <2>5, <3>1, Zenon DEF RecvChan, Control, Incarnating
      <3>2. CASE Goto(th, NoExec(th)) /\ UNCHANGED call
        BY <1>a, <1>b, <1>d, <1>f, <2>5, <3>2, Zenon DEF RecvChan, NoExec, Top, Goto, Control, Incarnating
      <3> QED
        BY <2>5, <3>1, <3>2, Zenon DEF RecvChan
    <2>6. CASE LoadValidationIdx(th)
      <3>1. CASE UNCHANGED call /\ Goto(th, Top(th))
        BY <1>a, <1>b, <1>d, <1>f, <2>6, <3>1, ZenonT(30) DEF LoadValidationIdx, Top, Goto, Control, Incarnating
      <3>2. CASE /\ call' = [call EXCEPT ![th] = [NoCall EXCEPT !.txn = validation_idx.idx]]
                 /\ Goto(th, "valcheck")
        <4>1. call'[th].dep = 0 /\ call'[th].caller = "none" /\ pc'[th] = "valcheck"
          BY <1>b, <3>2, ZenonT(30) DEF NoCall, Goto
        <4> QED
          BY <1>a, <1>d, <1>f, <1>h, <2>6, <4>1, SMTT(30) DEF LoadValidationIdx, Control, Incarnating
      <3> QED
        BY <2>6, <3>1, <3>2, Zenon DEF LoadValidationIdx
    <2>7. CASE CheckExecuted(th)
      <3>1. call'[th].dep = 0 /\ call'[th].caller = "none"
        <4>1. CASE call' = [call EXCEPT ![th] = [NoCall EXCEPT !.inc = txn_status[call[th].txn].inc]]
          BY <1>b, <4>1, Zenon DEF NoCall
        <4>2. CASE call' = [call EXCEPT ![th] = NoCall]
          BY <1>b, <4>2, Zenon DEF NoCall
        <4> QED
          BY <2>7, <4>1, <4>2, Zenon DEF CheckExecuted
      <3>2. pc'[th] \in {"valadd", "commit", "work"}
        BY <1>b, <2>7, Zenon DEF CheckExecuted, Goto, Top
      <3> QED
        BY <1>a, <1>d, <1>f, <1>h, <2>7, <3>1, <3>2, SMTT(30) DEF CheckExecuted, Control, Incarnating
    <2>8. CASE FetchAddValidationIdx(th)
      BY <1>a, <1>b, <1>d, <1>f, <1>h, <2>8
         DEF FetchAddValidationIdx, Goto, Top, NoCall, TaskOf, Control, Incarnating
    <2>9. CASE LockStatus(th)
      <3>1. CASE IncarnateFails(th)
        BY <2>i, <1>f, <2>9, <3>1, ZenonT(30) DEF LockStatus, Incarnating
      <3>2. CASE /\ call' = [call EXCEPT ![th].dep = Len(HintGraph[call[th].txn])]
                 /\ Goto(th, "dep")
                 /\ UNCHANGED iter
        <4>1. /\ pc'[th] = "dep"
              /\ call'[th].txn = call[th].txn /\ call'[th].caller = call[th].caller
              /\ call'[th].dep = Len(HintGraph[call[th].txn])
          BY <1>b, <3>2, Zenon DEF Goto, CallType
        <4> QED
          BY <1>a, <1>d, <1>f, <1>h, <2>9, <3>2, <4>1, SMTT(30) DEF LockStatus, Control, Incarnating
      <3> QED
        BY <2>9, <3>1, <3>2, Zenon DEF LockStatus
    <2>10. CASE CheckHint(th)
      <3>1. CASE call' = [call EXCEPT ![th].dep = @ - 1] /\ UNCHANGED pc
        <4>1. /\ call'[th].txn = call[th].txn /\ call'[th].caller = call[th].caller
              /\ call'[th].dep = call[th].dep - 1
          BY <1>b, <3>1, ZenonT(30) DEF CallType
        <4> QED
          BY <1>a, <1>d, <1>f, <1>h, <2>10, <3>1, <4>1, SMTT(30) DEF CheckHint, Control, Incarnating
      <3>2. CASE Goto(th, "push") /\ UNCHANGED call
        BY <1>a, <1>b, <1>d, <1>f, <2>10, <3>2, Zenon DEF CheckHint, Goto, Control, Incarnating
      <3> QED
        BY <2>10, <3>1, <3>2, ZenonT(30) DEF CheckHint
    <2>11. CASE PushHint(th)
      BY <1>a, <1>b, <1>d, <1>f, <2>11, Zenon DEF PushHint, Goto, Control, Incarnating
    <2>12. CASE RecheckHint(th)
      <3>1. CASE IncarnateFails(th)
        BY <2>i, <1>f, <2>12, <3>1, ZenonT(30) DEF RecheckHint, Incarnating
      <3>2. CASE /\ call' = [call EXCEPT ![th].dep = @ - 1]
                 /\ Goto(th, "dep")
                 /\ UNCHANGED iter
        <4>1. /\ pc'[th] = "dep"
              /\ call'[th].txn = call[th].txn /\ call'[th].caller = call[th].caller
              /\ call'[th].dep = call[th].dep - 1
          BY <1>b, <3>2, ZenonT(30) DEF Goto, CallType
        <4> QED
          BY <1>a, <1>d, <1>f, <1>h, <2>12, <3>2, <4>1, SMTT(30) DEF RecheckHint, Control, Incarnating
      <3> QED
        BY <2>12, <3>1, <3>2, Zenon DEF RecheckHint
    <2>13. CASE Incarnate(th)
      <3>1. call'[th].dep = 0 /\ call'[th].caller = "none" /\ task'[th].kind = "ExecutionTask"
        BY <1>b, <2>13, Zenon DEF Incarnate, NoCall, TaskOf
      <3>2. pc'[th] \in {"items", "commit", "work"}
        BY <1>b, <2>13, Zenon DEF Incarnate, Goto, Top
      <3>3. iter'[th].txn = iter[th].txn /\ iter'[th].cnt = iter[th].cnt
        BY <1>b, <2>13, ZenonT(30) DEF Incarnate, IterType
      <3> QED
        BY <1>a, <1>d, <1>f, <1>h, <2>13, <3>1, <3>2, <3>3, SMTT(30) DEF Incarnate, Control, Incarnating
    <2>14. CASE CountChildren(th)
      <3>1. /\ iter'[th].txn = iter[th].txn
            /\ iter'[th].cnt = Len(critical_path_parent[iter[th].txn])
            /\ pc'[th] = "items"
        BY <1>b, <2>14, Zenon DEF CountChildren, Goto, IterType
      <3> QED
        BY <1>a, <1>d, <1>f, <2>14, <3>1 DEF CountChildren, NoTask, TaskOf, Control, Incarnating
    <2>15. CASE ReleaseChild(th)
      <3>1. \/ Call(th, critical_path_parent[iter[th].txn][iter[th].pos], "finish") /\ task[th] = NoTask
            \/ pc' = pc /\ call' = call
        BY <2>15, ZenonT(30) DEF ReleaseChild
      <3>2. iter'[th].txn = iter[th].txn /\ iter'[th].cnt = iter[th].cnt
        BY <1>b, <2>15, SMTT(30) DEF ReleaseChild, IterType
      <3>3. task'[th] = task[th] /\ critical_path_parent' = critical_path_parent /\ pc[th] = "items"
        BY <2>15, Zenon DEF ReleaseChild
      <3>4. CASE pc' = pc /\ call' = call
        BY <1>a, <1>d, <1>f, <3>2, <3>3, <3>4, Zenon DEF Control, Incarnating
      <3>5. CASE Call(th, critical_path_parent[iter[th].txn][iter[th].pos], "finish") /\ task[th] = NoTask
        BY <1>a, <1>d, <1>f, <1>g, <3>2, <3>3, <3>5, ZenonT(30) DEF Control, Incarnating
      <3> QED
        BY <3>1, <3>4, <3>5, Zenon
    <2>16. CASE EndFinishExecution(th)
      BY <1>a, <1>b, <1>d, <1>f, <1>h, <2>16, SMTT(30) DEF EndFinishExecution, Goto, Top, NoIter, Control,
         Incarnating
    <2>17. CASE DecreaseValidationIdx(th)
      BY <1>a, <1>b, <1>d, <1>f, <1>g, <2>17, ZenonT(30) DEF DecreaseValidationIdx, NoTask, TaskOf, Control,
         Incarnating
    <2>18. CASE SetExecuted(th)
      BY <1>a, <1>b, <1>d, <1>f, <1>h, <2>18, SMTT(30)
         DEF SetExecuted, Goto, AtTask, NoIter, NoTask, TaskOf, Control, Incarnating
    <2>19. CASE TryAbort(th)
      BY <1>a, <1>b, <1>d, <1>f, <2>19, ZenonT(30) DEF TryAbort, Goto, AtTask, Control, Incarnating
    <2>20. CASE FinishValidation(th)
      BY <1>a, <1>b, <1>d, <1>f, <2>20, Zenon
         DEF FinishValidation, Goto, Top, NoTask, TaskOf, AtTask, Control, Incarnating
    <2>21. CASE SetAborted(th)
      BY <1>a, <1>b, <1>d, <1>f, <2>21, Zenon DEF SetAborted, Goto, Control, Incarnating
    <2>22. ASSUME NEW dep \in Txns, WaitForDependency(th, dep)
           PROVE  Control(w)'
      BY <1>a, <1>d, <1>f, <2>22, ZenonT(30) DEF WaitForDependency, locals, Control, Incarnating
    <2> QED
      BY <2>1, <2>2, <2>3, <2>4, <2>5, <2>6, <2>7, <2>8, <2>9, <2>10, <2>11, <2>12, <2>13,
         <2>14, <2>15, <2>16, <2>17, <2>18, <2>19, <2>20, <2>21, <2>22, ZenonT(30) DEF Step, SchedulerStep,
         ExecutorStep
  <1> QED
    BY <1>e, <1>f, Zenon

\* Every action preserves ValidationMutex: a worker gets valock when nobody has
\* it and an index is left, and only its holder raises validation_idx.
LEMMA ValidationMutexStep ==
    ASSUME TypeInv, TypeOK', NEW th \in Threads, Step(th)
    PROVE  ValidationMutex'
  <1> DEFINE Holds(w) == pc[w] \in {"valcheck", "valadd"}
             Takes == Holds(th)' => \/ pc[th] = "valcheck"
                                    \/ ~valock /\ validation_idx.idx < NumTxns
             Keeps == \/ validation_idx' = validation_idx
                      \/ validation_idx'.idx <= validation_idx.idx
                      \/ Holds(th) /\ ~Holds(th)'
  <1>a. TypeOK /\ Control(th) /\ ValidationMutex
    BY Zenon DEF TypeInv
  <1>b. /\ pc \in [Threads -> Labels]
        /\ validation_idx.idx \in Nat /\ validation_idx'.idx \in Nat
        /\ NumTxns \in Nat /\ task[th].txn \in Nat
    <2>1. pc \in [Threads -> Labels] /\ validation_idx'.idx \in Nat
      BY <1>a, Constants DEF TypeOK
    <2> QED
      BY <1>a, <2>1, LocalTypes, SharedTypes, Constants, Zenon
  <1>c. Incarnating(th) /\ IncarnateFails(th) => IncarnateReturns(th)
    BY <1>a, IncarnateReturn, Zenon
  <1>1. Takes /\ Keeps
    <2>1. CASE TryCommit(th)
      BY <1>b, <2>1, Zenon DEF TryCommit, waves, locals
    <2>2. CASE TryCommitNone(th)
      BY <1>b, <2>2, Zenon DEF TryCommitNone, waves, Goto
    <2>3. CASE Exit(th)
      BY <1>b, <2>3, Zenon DEF Exit, waves, Goto
    <2>4. CASE RecvPrio(th)
      BY <1>b, <2>4, Zenon DEF RecvPrio, waves, Goto, Call
    <2>5. CASE RecvChan(th)
      BY <1>b, <2>5, Zenon DEF RecvChan, waves, Goto, Call, NoExec, Top
    <2>6. CASE LoadValidationIdx(th)
      BY <1>b, <2>6, Zenon DEF LoadValidationIdx, waves, Goto, Top
    <2>7. CASE CheckExecuted(th)
      BY <1>b, <2>7, Zenon DEF CheckExecuted, waves, Goto, Top
    <2>8. CASE FetchAddValidationIdx(th)
      BY <1>b, <2>8, Zenon DEF FetchAddValidationIdx, Goto, Top
    <2>9. CASE LockStatus(th)
      BY <1>b, <1>c, <2>9, Zenon DEF LockStatus, waves, Goto, Incarnating, IncarnateReturns
    <2>10. CASE CheckHint(th)
      BY <1>b, <2>10, Zenon DEF CheckHint, waves, Goto, is_executed
    <2>11. CASE PushHint(th)
      BY <1>b, <2>11, Zenon DEF PushHint, waves, Goto
    <2>12. CASE RecheckHint(th)
      BY <1>b, <1>c, <2>12, Zenon DEF RecheckHint, is_executed, waves, Goto, Incarnating, IncarnateReturns
    <2>13. CASE Incarnate(th)
      BY <1>b, <2>13, Zenon DEF Incarnate, waves, Goto, Top
    <2>14. CASE CountChildren(th)
      BY <1>b, <2>14, Zenon DEF CountChildren, waves, Goto
    <2>15. CASE ReleaseChild(th)
      BY <1>b, <2>15, Zenon DEF ReleaseChild, waves, Goto, Call
    <2>16. CASE EndFinishExecution(th)
      BY <1>b, <2>16, Zenon DEF EndFinishExecution, waves, Goto, Top
    <2>17. CASE DecreaseValidationIdx(th)
      BY <1>b, <2>17 DEF DecreaseValidationIdx, Goto, Call
    <2>18. CASE SetExecuted(th)
      BY <1>b, <2>18, Zenon DEF SetExecuted, waves, Goto
    <2>19. CASE TryAbort(th)
      BY <1>b, <2>19, Zenon DEF TryAbort, waves, Goto
    <2>20. CASE FinishValidation(th)
      BY <1>b, <2>20, Zenon DEF FinishValidation, Goto, Top
    <2>21. CASE SetAborted(th)
      BY <1>b, <2>21, Zenon DEF SetAborted, waves, Goto
    <2>22. ASSUME NEW dep \in Txns, WaitForDependency(th, dep)
           PROVE  Takes /\ Keeps
      BY <1>b, <2>22, Zenon DEF WaitForDependency, waves, locals, AtTask
    <2> HIDE DEF Takes, Keeps
    <2> QED
      BY <2>1, <2>2, <2>3, <2>4, <2>5, <2>6, <2>7, <2>8, <2>9, <2>10, <2>11, <2>12, <2>13,
         <2>14, <2>15, <2>16, <2>17, <2>18, <2>19, <2>20, <2>21, <2>22, ZenonT(30) DEF Step, SchedulerStep,
         ExecutorStep
  <1>2. \A w \in Threads : w # th => (Holds(w)' <=> Holds(w))
    BY Others, Zenon
  <1>3. ASSUME NEW w \in Threads, Holds(w)'
        PROVE  validation_idx'.idx < NumTxns
    <2>1. CASE w = th
      BY <1>a, <1>b, <1>1, <1>3, <2>1, SMTT(30) DEF ValidationMutex, valock
    <2>2. CASE w # th
      BY <1>a, <1>b, <1>1, <1>2, <1>3, <2>2 DEF ValidationMutex, valock
    <2> QED
      BY <2>1, <2>2, Zenon
  <1>4. ASSUME NEW w \in Threads, NEW other \in Threads, Holds(w)', Holds(other)'
        PROVE  w = other
    BY <1>a, <1>1, <1>2, <1>4, Zenon DEF ValidationMutex, valock
  <1> QED
    BY <1>3, <1>4, Zenon DEF ValidationMutex, valock

\* TypeInv is inductive.
LEMMA TypeInvStep == TypeInv /\ [Next]_vars => TypeInv'
  <1> SUFFICES ASSUME TypeInv, [Next]_vars PROVE TypeInv'
    BY Zenon
  <1>1. ASSUME NEW th \in Threads, Step(th)
        PROVE  TypeInv'
    <2>1. TypeOK'
      BY <1>1, TypeStep, Zenon DEF Step
    <2> QED
      BY <1>1, <2>1, ControlStep, ValidationMutexStep, Zenon DEF TypeInv
  <1>2. CASE UNCHANGED vars
    BY <1>2 DEF vars, waves, commits, queues, locals, TypeInv, TypeOK, Control, Incarnating,
       ValidationMutex, valock
  <1> QED
    BY <1>1, <1>2, Zenon DEF Next, Step, Joined

\* Every variable of the scheduler keeps its type, whatever the block, the hints
\* and the number of workers: in particular try_validate_next_version takes no
\* index past the block.
THEOREM TypeCorrect == Spec => []TypeOK
  <1>1. TypeInv => TypeOK
    BY Zenon DEF TypeInv
  <1> QED
    BY <1>1, InitTypeInv, TypeInvStep, PTL DEF Spec

-----------------------------------------------------------------------------
(* Locks and statuses *)

HoldsStatus(th) == pc[th] \in {"dep", "push", "recheck"}

\* The status lock of a transaction has one holder, which has found it ready.
LockInv ==
    /\ \A th, other \in Threads :
          HoldsStatus(th) /\ HoldsStatus(other) /\ call[th].txn = call[other].txn
          => th = other
    /\ \A th \in Threads :
          HoldsStatus(th) => txn_status[call[th].txn].st = "ReadyToExecute"

StatusInv == LockInv /\ ExclusiveExecution /\ ExclusiveAbort /\ CommitPrefix

-----------------------------------------------------------------------------
(* Who validates *)

\* A worker that validates has not seen the end of the block.
Validator(th) ==
    task[th].kind = "ValidationTask" \/ pc[th] \in {"tryval", "valcheck", "valadd"}
    => finished_val_flag[th] = FALSE

ValidatorInv == SomeoneValidates /\ \A th \in Threads : Validator(th)

-----------------------------------------------------------------------------
(* Waves *)

\* t has been taken from validation_idx in the given wave, or never was.
Taken(t, wave) ==
    /\ wave <= validation_idx.wave
    /\ wave = validation_idx.wave => t < validation_idx.idx

\* A transaction that started the current wave, and if it is committed then the
\* committer has seen its wave.
StartedWave(t) ==
    /\ max_triggered_wave[t] = validation_idx.wave
    /\ t <= validation_idx.idx
    /\ t < commit_state.idx => commit_state.wave >= validation_idx.wave

WaveInv ==
    /\ ValidationPastCommitted
    /\ commit_state.wave <= validation_idx.wave
    /\ \A t \in Txns : max_triggered_wave[t] <= validation_idx.wave
    /\ \A t \in Txns : Taken(t, maybe_max_validated_wave[t])
    /\ \A th \in Threads :
          task[th].kind = "ValidationTask" => Taken(task[th].txn, task[th].wave)
    /\ \A th \in Threads : pc[th] = "decrease" => commit_state.idx <= task[th].txn
    /\ validation_idx.wave > 0 => \E t \in Txns : StartedWave(t)

-----------------------------------------------------------------------------
(* Preservation: locks and statuses *)

\* A step that is none of the five that set a status keeps the statuses and
\* commit_idx; it makes no execution task and no aborting worker, and takes a
\* status lock only when it is free and the transaction ready.
Quiet(th) ==
    /\ txn_status' = txn_status /\ commit_state'.idx = commit_state.idx
    /\ task'[th] = task[th] \/ task'[th].kind # "ExecutionTask"
    /\ pc'[th] # "abort"
    /\ HoldsStatus(th)' =>
          /\ call'[th].txn = call[th].txn
          /\ \/ HoldsStatus(th)
             \/ /\ ~StatusLocked(call[th].txn)
                /\ txn_status[call[th].txn].st = "ReadyToExecute"

SetsStatus(th) ==
    TryCommit(th) \/ Incarnate(th) \/ SetExecuted(th) \/ TryAbort(th) \/ SetAborted(th)

\* The steps other than those five are quiet.
LEMMA QuietSteps ==
    ASSUME TypeInv, NEW th \in Threads, Step(th), ~SetsStatus(th)
    PROVE  Quiet(th)
  <1>a. TypeOK /\ Control(th)
    BY Zenon DEF TypeInv
  <1>b. /\ pc \in [Threads -> Labels] /\ task \in [Threads -> TaskType]
        /\ call \in [Threads -> CallType]
        /\ commit_state \in [idx : 0 .. NumTxns, wave : Nat]
    BY <1>a, Zenon DEF TypeOK
  <1>c. Incarnating(th) /\ IncarnateFails(th) => IncarnateReturns(th)
    BY <1>a, IncarnateReturn, Zenon
  <1>1. CASE TryCommitNone(th)
    BY <1>b, <1>1, Zenon DEF TryCommitNone, Quiet, HoldsStatus, Goto
  <1>2. CASE Exit(th)
    BY <1>b, <1>2, Zenon DEF Exit, Quiet, HoldsStatus, commits, Goto
  <1>3. CASE RecvPrio(th)
    BY <1>b, <1>3, Zenon DEF RecvPrio, Quiet, HoldsStatus, commits, Goto, Call
  <1>4. CASE RecvChan(th)
    BY <1>b, <1>4 DEF RecvChan, Quiet, HoldsStatus, commits, Goto, Call, NoExec, Top
  <1>5. CASE LoadValidationIdx(th)
    BY <1>b, <1>5, Zenon DEF LoadValidationIdx, Quiet, HoldsStatus, commits, Goto, Top
  <1>6. CASE CheckExecuted(th)
    BY <1>b, <1>6, Zenon DEF CheckExecuted, Quiet, HoldsStatus, commits, Goto, Top, is_executed
  <1>7. CASE FetchAddValidationIdx(th)
    BY <1>b, <1>7, Zenon DEF FetchAddValidationIdx, Quiet, HoldsStatus, commits, Goto, Top, TaskOf
  <1>8. CASE LockStatus(th)
    BY <1>b, <1>c, <1>8 DEF LockStatus, Quiet, HoldsStatus, commits, Goto, Incarnating,
       IncarnateReturns, CallType
  <1>9. CASE CheckHint(th)
    BY <1>b, <1>9 DEF CheckHint, Quiet, HoldsStatus, commits, Goto, is_executed, CallType
  <1>10. CASE PushHint(th)
    BY <1>b, <1>10, Zenon DEF PushHint, Quiet, HoldsStatus, commits, Goto
  <1>11. CASE RecheckHint(th)
    BY <1>b, <1>c, <1>11 DEF RecheckHint, Quiet, HoldsStatus, commits, Goto, Incarnating,
       IncarnateReturns, is_executed, CallType
  <1>12. CASE CountChildren(th)
    BY <1>b, <1>12, Zenon DEF CountChildren, Quiet, HoldsStatus, commits, Goto
  <1>13. CASE ReleaseChild(th)
    BY <1>b, <1>13, Zenon DEF ReleaseChild, Quiet, HoldsStatus, commits, Goto, Call
  <1>14. CASE EndFinishExecution(th)
    BY <1>b, <1>14, Zenon DEF EndFinishExecution, Quiet, HoldsStatus, commits, Goto, Top
  <1>15. CASE DecreaseValidationIdx(th)
    BY <1>b, <1>15, Zenon DEF DecreaseValidationIdx, Quiet, HoldsStatus, commits, Goto, Call, NoTask,
       TaskOf
  <1>16. CASE FinishValidation(th)
    BY <1>b, <1>16, Zenon DEF FinishValidation, Quiet, HoldsStatus, commits, Goto, Top, NoTask, TaskOf
  <1>17. ASSUME NEW dep \in Txns, WaitForDependency(th, dep)
         PROVE  Quiet(th)
    BY <1>b, <1>17, Zenon DEF WaitForDependency, Quiet, HoldsStatus, commits, locals, AtTask
  <1> QED
    BY <1>1, <1>2, <1>3, <1>4, <1>5, <1>6, <1>7, <1>8, <1>9, <1>10, <1>11, <1>12, <1>13, <1>14,
       <1>15, <1>16, <1>17, Zenon DEF Step, SchedulerStep, ExecutorStep, SetsStatus

\* What each of the five does.
Sets(t, st, inc) == txn_status' = [txn_status EXCEPT ![t] = Status(st, inc)]

Commits(th) ==
    /\ commit_state.idx \in Txns /\ ~StatusLocked(commit_state.idx)
    /\ txn_status[commit_state.idx].st = "Executed"
    /\ Sets(commit_state.idx, "Committed", txn_status[commit_state.idx].inc)
    /\ commit_state'.idx = commit_state.idx + 1
    /\ pc'[th] = "commit" /\ pc[th] = "commit"
    /\ task'[th] = task[th]

Starts(th) ==
    /\ HoldsStatus(th) /\ ~HoldsStatus(th)' /\ pc'[th] # "abort"
    /\ txn_status[call[th].txn].st = "ReadyToExecute"
    /\ Sets(call[th].txn, "Executing", txn_status[call[th].txn].inc)
    /\ task'[th] = TaskOf("ExecutionTask", call[th].txn, txn_status[call[th].txn].inc, 0)
    /\ commit_state' = commit_state

Finishes(th) ==
    /\ task[th].kind = "ExecutionTask"
    /\ txn_status[task[th].txn] = Status("Executing", task[th].inc)
    /\ ~StatusLocked(task[th].txn)
    /\ Sets(task[th].txn, "Executed", task[th].inc)
    /\ task'[th] = NoTask /\ iter'[th].txn = task[th].txn
    /\ pc'[th] = "count" /\ pc[th] = "work"
    /\ commit_state' = commit_state

Aborts(th) ==
    /\ task[th].kind = "ValidationTask" /\ task'[th] = task[th]
    /\ \/ /\ txn_status[task[th].txn] = Status("Executed", task[th].inc)
          /\ ~StatusLocked(task[th].txn)
          /\ Sets(task[th].txn, "Aborting", task[th].inc)
          /\ pc'[th] = "abort"
       \/ txn_status' = txn_status /\ pc'[th] = "finval"
    /\ commit_state' = commit_state

Restarts(th) ==
    /\ pc[th] = "abort" /\ pc'[th] = "decrease"
    /\ task[th].kind = "ValidationTask" /\ task'[th] = task[th]
    /\ txn_status[task[th].txn] = Status("Aborting", task[th].inc)
    /\ ~StatusLocked(task[th].txn)
    /\ Sets(task[th].txn, "ReadyToExecute", task[th].inc + 1)
    /\ commit_state' = commit_state

\* The five steps have these effects.
LEMMA SetterEffects ==
    ASSUME TypeInv, StatusInv, NEW th \in Threads
    PROVE  /\ TryCommit(th) => Commits(th)
           /\ Incarnate(th) => Starts(th)
           /\ SetExecuted(th) => Finishes(th)
           /\ TryAbort(th) => Aborts(th)
           /\ SetAborted(th) => Restarts(th)
  <1>a. TypeOK /\ Control(th) /\ LockInv /\ ExclusiveExecution /\ ExclusiveAbort
    BY Zenon DEF TypeInv, StatusInv
  <1>b. /\ pc \in [Threads -> Labels] /\ task \in [Threads -> TaskType]
        /\ call \in [Threads -> CallType] /\ iter \in [Threads -> IterType]
        /\ txn_status \in [Txns -> [st : StatusNames, inc : Nat]]
        /\ commit_state \in [idx : 0 .. NumTxns, wave : Nat]
    BY <1>a, Zenon DEF TypeOK
  <1>1. ASSUME TryCommit(th)
        PROVE  Commits(th)
    <2>1. commit_state.idx \in Txns
      BY <1>a, <1>1, SharedTypes, Constants DEF TryCommit, CanCommit, CommitCandidate, Txns
    <2>2. Sets(commit_state.idx, "Committed", txn_status[commit_state.idx].inc)
      <3>1. txn_status[commit_state.idx] \in [st : StatusNames, inc : Nat]
        BY <1>b, <2>1, Zenon
      <3>2. [txn_status[commit_state.idx] EXCEPT !.st = "Committed"]
               = Status("Committed", txn_status[commit_state.idx].inc)
        BY <3>1 DEF Status
      <3> QED
        BY <1>1, <3>2, Zenon DEF TryCommit, Sets
    <2> QED
      BY <1>b, <1>1, <2>1, <2>2, Zenon DEF TryCommit, CanCommit, CommitCandidate, Commits, locals
  <1>2. ASSUME Incarnate(th)
        PROVE  Starts(th)
    BY <1>a, <1>b, <1>2, LocalTypes, ZenonT(30)
       DEF Incarnate, Starts, Sets, HoldsStatus, LockInv, Goto, Top, commits
  <1>3. ASSUME SetExecuted(th)
        PROVE  Finishes(th)
    BY <1>a, <1>b, <1>3, Zenon
       DEF SetExecuted, Finishes, Sets, AtTask, ExclusiveExecution, NoIter, Goto, commits
  <1>4. ASSUME TryAbort(th)
        PROVE  Aborts(th)
    BY <1>b, <1>4, Zenon DEF TryAbort, Aborts, Sets, AtTask, Goto, commits
  <1>5. ASSUME SetAborted(th)
        PROVE  Restarts(th)
    BY <1>a, <1>b, <1>5, Zenon DEF SetAborted, Restarts, Sets, Control, ExclusiveAbort, Goto, commits
  <1> QED
    BY <1>1, <1>2, <1>3, <1>4, <1>5, Zenon

\* Every step does one of these to the statuses, or is quiet.
LEMMA StatusEffects ==
    ASSUME TypeInv, StatusInv, NEW th \in Threads, Step(th)
    PROVE  \/ Commits(th) \/ Starts(th) \/ Finishes(th) \/ Aborts(th) \/ Restarts(th)
           \/ Quiet(th)
  BY SetterEffects, QuietSteps, Zenon DEF SetsStatus

\* Every action preserves StatusInv.
LEMMA StatusInvStep ==
    ASSUME TypeInv, StatusInv, NEW th \in Threads, Step(th)
    PROVE  StatusInv'
  <1> DEFINE Changes == \/ Commits(th) \/ Starts(th) \/ Finishes(th) \/ Aborts(th)
                        \/ Restarts(th) \/ Quiet(th)
  <1>a. /\ TypeOK /\ LockInv /\ ExclusiveExecution /\ ExclusiveAbort /\ CommitPrefix
        /\ Control(th)
    BY Zenon DEF TypeInv, StatusInv
  <1>b. txn_status \in [Txns -> [st : StatusNames, inc : Nat]]
    BY <1>a, Zenon DEF TypeOK
  <1>c. \A w \in Threads : task[w].txn \in Txns /\ call[w].txn \in Txns
    BY <1>a, LocalTypes, Zenon
  <1>d. Changes
    BY StatusEffects, Zenon
  <1>e. \A w \in Threads : w # th =>
            /\ HoldsStatus(w)' <=> HoldsStatus(w)
            /\ pc'[w] = pc[w] /\ task'[w] = task[w] /\ call'[w] = call[w]
    BY Others, Zenon DEF HoldsStatus
  <1>f. \A w \in Threads : HoldsStatus(w) => StatusLocked(call[w].txn)
    BY Zenon DEF HoldsStatus, StatusLocked
  <1>g. /\ \A w \in Threads : task[w].kind = "ExecutionTask" =>
               txn_status[task[w].txn].st = "Executing"
        /\ \A w \in Threads : pc[w] = "abort" => txn_status[task[w].txn].st = "Aborting"
        /\ \A n : Status("Executed", n).st = "Executed"
    <2>1. \A s, n : Status(s, n).st = s
      BY Zenon DEF Status
    <2> QED
      BY <1>a, <2>1 DEF ExclusiveExecution, ExclusiveAbort
  <1>h. /\ TaskOf("ExecutionTask", call[th].txn, txn_status[call[th].txn].inc, 0).kind = "ExecutionTask"
        /\ TaskOf("ExecutionTask", call[th].txn, txn_status[call[th].txn].inc, 0).txn = call[th].txn
        /\ TaskOf("ExecutionTask", call[th].txn, txn_status[call[th].txn].inc, 0).inc
              = txn_status[call[th].txn].inc
        /\ NoTask.kind = "NoTask"
    BY Zenon DEF TaskOf, NoTask
  <1>1. LockInv'
    <2>1. ASSUME NEW w \in Threads, w # th, HoldsStatus(w)
          PROVE  txn_status'[call[w].txn] = txn_status[call[w].txn]
      <3>1. CASE Starts(th)
        BY <1>a, <1>b, <1>c, <2>1, <3>1, Zenon DEF Starts, Sets, LockInv
      <3>2. CASE Commits(th) \/ Finishes(th)
        BY <1>b, <1>c, <1>f, <2>1, <3>2, Zenon DEF Commits, Finishes, Sets
      <3>3. CASE Aborts(th) \/ Restarts(th)
        BY <1>b, <1>c, <1>f, <2>1, <3>3, Zenon DEF Aborts, Restarts, Sets
      <3>4. CASE Quiet(th)
        BY <3>4, Zenon DEF Quiet
      <3> QED
        BY <1>d, <3>1, <3>2, <3>3, <3>4, Zenon
    <2>2. HoldsStatus(th)' =>
             /\ txn_status' = txn_status /\ call'[th].txn = call[th].txn
             /\ txn_status[call[th].txn].st = "ReadyToExecute"
             /\ HoldsStatus(th) \/ ~StatusLocked(call[th].txn)
      BY <1>a, <1>d, Zenon DEF Commits, Starts, Finishes, Aborts, Restarts, Quiet, HoldsStatus, LockInv
    <2>3. ASSUME NEW w \in Threads, HoldsStatus(w)'
          PROVE  txn_status'[call'[w].txn].st = "ReadyToExecute"
      BY <1>a, <1>e, <2>1, <2>2, <2>3 DEF LockInv
    <2>4. ASSUME NEW w \in Threads, w # th, HoldsStatus(w)', HoldsStatus(th)'
          PROVE  call'[th].txn # call'[w].txn
      BY <1>a, <1>e, <1>f, <2>2, <2>4, Zenon DEF LockInv
    <2>5. ASSUME NEW w \in Threads, NEW other \in Threads, HoldsStatus(w)', HoldsStatus(other)',
                 call'[w].txn = call'[other].txn
          PROVE  w = other
      BY <1>a, <1>e, <2>4, <2>5, ZenonT(30) DEF LockInv
    <2> QED
      BY <2>3, <2>5, Zenon DEF LockInv
  <1>2. ExclusiveExecution'
    <2>1. ASSUME NEW w \in Threads, w # th, task[w].kind = "ExecutionTask"
          PROVE  txn_status'[task[w].txn] = txn_status[task[w].txn]
      <3>1. txn_status[task[w].txn].st = "Executing"
        BY <1>g, <2>1, Zenon
      <3>2. CASE Finishes(th)
        BY <1>a, <1>b, <1>c, <2>1, <3>2, Zenon DEF Finishes, Sets, ExclusiveExecution
      <3>3. CASE Commits(th) \/ Starts(th)
        BY <1>b, <1>c, <3>1, <3>3, Zenon DEF Commits, Starts, Sets
      <3>4. CASE Aborts(th) \/ Restarts(th)
        BY <1>b, <1>c, <3>1, <3>4 DEF Aborts, Restarts, Sets, Status
      <3>5. CASE Quiet(th)
        BY <3>5, Zenon DEF Quiet
      <3> QED
        BY <1>d, <3>2, <3>3, <3>4, <3>5, Zenon
    <2>2. CASE Starts(th)
      <3>1. /\ task'[th].kind = "ExecutionTask" /\ task'[th].txn = call[th].txn
            /\ txn_status'[task'[th].txn] = Status("Executing", task'[th].inc)
        BY <1>b, <1>c, <1>h, <2>2, Zenon DEF Starts, Sets
      <3>2. \A w \in Threads \ {th} :
                task[w].kind = "ExecutionTask" => task[w].txn # call[th].txn
        BY <1>g, <2>2, Zenon DEF Starts
      <3> QED
        BY <1>a, <1>e, <2>1, <3>1, <3>2 DEF ExclusiveExecution
    <2>3. CASE ~Starts(th)
      <3>1. task'[th].kind = "ExecutionTask" =>
               task'[th] = task[th] /\ txn_status'[task[th].txn] = txn_status[task[th].txn]
        <4>1. CASE Commits(th)
          BY <1>b, <1>c, <1>g, <4>1, Zenon DEF Commits, Sets
        <4>2. CASE ~Commits(th)
          BY <1>d, <1>h, <2>3, <4>2, Zenon DEF Finishes, Aborts, Restarts, Quiet
        <4> QED
          BY <4>1, <4>2, Zenon
      <3> QED
        BY <1>a, <1>e, <2>1, <3>1 DEF ExclusiveExecution
    <2> QED
      BY <2>2, <2>3, Zenon
  <1>3. ExclusiveAbort'
    <2>1. ASSUME NEW w \in Threads, w # th, pc[w] = "abort"
          PROVE  txn_status'[task[w].txn] = txn_status[task[w].txn]
      <3>1. txn_status[task[w].txn].st = "Aborting"
        BY <1>g, <2>1, Zenon
      <3>2. CASE Restarts(th)
        BY <1>a, <1>b, <1>c, <2>1, <3>2, ZenonT(30) DEF Restarts, Sets, ExclusiveAbort
      <3>3. CASE ~Restarts(th)
        BY <1>b, <1>c, <1>d, <3>1, <3>3
           DEF Commits, Starts, Finishes, Aborts, Quiet, Sets, Status
      <3> QED
        BY <3>2, <3>3, Zenon
    <2>2. pc'[th] = "abort" =>
             /\ task'[th] = task[th]
             /\ txn_status'[task[th].txn] = Status("Aborting", task[th].inc)
             /\ txn_status[task[th].txn] = Status("Executed", task[th].inc)
      BY <1>b, <1>c, <1>d, Zenon DEF Commits, Starts, Finishes, Aborts, Restarts, Quiet, Sets
    <2>3. pc'[th] = "abort" =>
             \A w \in Threads \ {th} : pc[w] = "abort" => task[w].txn # task[th].txn
      BY <1>g, <2>2, Zenon
    <2> QED
      BY <1>a, <1>e, <2>1, <2>2, <2>3 DEF ExclusiveAbort
  <1>4. CommitPrefix'
    <2>1. CASE Commits(th)
      <3>1. \A t \in Txns : t < commit_state.idx + 1 <=> t < commit_state.idx \/ t = commit_state.idx
        BY <1>a, SharedTypes, Constants
      <3> QED
        BY <1>a, <1>b, <2>1, <3>1, Zenon DEF Commits, CommitPrefix, Sets, Status
    <2>2. CASE ~Commits(th)
      <3>1. commit_state'.idx = commit_state.idx
        BY <1>d, <2>2, ZenonT(30) DEF Starts, Finishes, Aborts, Restarts, Quiet
      <3>2. \A t \in Txns : txn_status'[t].st = "Committed" <=> txn_status[t].st = "Committed"
        BY <1>b, <1>c, <1>d, <2>2 DEF Starts, Finishes, Aborts, Restarts, Quiet, Sets, Status
      <3> QED
        BY <1>a, <3>1, <3>2, Zenon DEF CommitPrefix
    <2> QED
      BY <2>1, <2>2, Zenon
  <1> QED
    BY <1>1, <1>2, <1>3, <1>4, Zenon DEF StatusInv

-----------------------------------------------------------------------------
(* Preservation: who validates *)

\* Every action preserves ValidatorInv.
LEMMA ValidatorInvStep ==
    ASSUME TypeInv, ValidatorInv, TypeOK', NEW th \in Threads, Step(th)
    PROVE  ValidatorInv'
  <1> DEFINE Validates(w) == \/ task[w].kind = "ValidationTask"
                             \/ pc[w] \in {"tryval", "valcheck", "valadd"}
             \* The flag stays, a worker becomes a validator only while its flag is
             \* unset, and only a validator lowers validation_idx.
             Steady == /\ finished_val_flag' = finished_val_flag
                       /\ Validates(th)' => Validates(th) \/ finished_val_flag[th] = FALSE
                       /\ \/ validation_idx' = validation_idx
                          \/ validation_idx'.idx >= validation_idx.idx
                          \/ Validates(th)
  <1>a. /\ TypeOK /\ Control(th) /\ Validator(th) /\ SomeoneValidates
        /\ \A w \in Threads : Validator(w)
    BY Zenon DEF TypeInv, ValidatorInv
  <1>b. /\ pc \in [Threads -> Labels] /\ task \in [Threads -> TaskType]
        /\ finished_val_flag \in [Threads -> BOOLEAN]
        /\ validation_idx.idx \in Nat /\ validation_idx'.idx \in Nat /\ NumTxns \in Nat
    <2>1. validation_idx'.idx \in Nat
      BY Constants DEF TypeOK
    <2> QED
      BY <1>a, <2>1, SharedTypes, Constants, Zenon DEF TypeOK
  <1>c. Incarnating(th) /\ IncarnateFails(th) => IncarnateReturns(th)
    BY <1>a, IncarnateReturn, Zenon
  <1>d. finished_val_flag[th] = TRUE \/ finished_val_flag[th] = FALSE
    BY <1>b, Zenon
  <1>e. CASE LoadValidationIdx(th)
    <2>1. CASE validation_idx.idx >= NumTxns
      <3>1. ~(validation_idx'.idx < NumTxns)
        BY <1>b, <1>e, <2>1 DEF LoadValidationIdx, waves
      <3>2. /\ task[th].kind = "NoTask" /\ task' = task
            /\ pc'[th] \in {"commit", "work"}
        BY <1>a, <1>b, <1>e, <2>1, Constants DEF LoadValidationIdx, Control, NoTask, TaskOf,
           Goto, Top
      <3> QED
        BY <1>a, <3>1, <3>2, Others, Zenon DEF ValidatorInv, SomeoneValidates, Validator
    <2>2. CASE ~(validation_idx.idx >= NumTxns)
      <3>1. finished_val_flag' = finished_val_flag /\ validation_idx' = validation_idx /\ task' = task
        BY <1>e, <2>2, Zenon DEF LoadValidationIdx, waves
      <3>2. finished_val_flag[th] = FALSE
        BY <1>a, <1>e, Zenon DEF LoadValidationIdx, Validator
      <3> QED
        BY <1>a, <3>1, <3>2, Others, Zenon DEF ValidatorInv, SomeoneValidates, Validator
    <2> QED
      BY <2>1, <2>2, Zenon
  <1>f. CASE ~LoadValidationIdx(th)
    <2>a. Steady
      <3>1. CASE TryCommit(th)
        BY <1>b, <3>1, Zenon DEF TryCommit, waves, locals
      <3>2. CASE TryCommitNone(th)
        BY <1>b, <3>2, Zenon DEF TryCommitNone, waves, Goto
      <3>3. CASE Exit(th)
        BY <1>b, <3>3, Zenon DEF Exit, waves, Goto
      <3>4. CASE RecvPrio(th)
        BY <1>b, <3>4, Zenon DEF RecvPrio, waves, Goto, Call
      <3>5. CASE RecvChan(th)
        BY <1>b, <1>d, <3>5, Zenon DEF RecvChan, waves, Goto, Call, NoExec, Top
      <3>6. CASE CheckExecuted(th)
        BY <1>b, <3>6, Zenon DEF CheckExecuted, waves, Goto, Top, is_executed
      <3>7. CASE FetchAddValidationIdx(th)
        BY <1>b, <3>7, Zenon DEF FetchAddValidationIdx, Goto, Top, TaskOf
      <3>8. CASE LockStatus(th)
        BY <1>b, <1>c, <3>8 DEF LockStatus, waves, Goto, Incarnating, IncarnateReturns
      <3>9. CASE CheckHint(th)
        BY <1>b, <3>9, Zenon DEF CheckHint, waves, Goto, is_executed
      <3>10. CASE PushHint(th)
        BY <1>b, <3>10, Zenon DEF PushHint, waves, Goto
      <3>11. CASE RecheckHint(th)
        BY <1>b, <1>c, <3>11, Zenon DEF RecheckHint, waves, Goto, Incarnating, IncarnateReturns,
           is_executed
      <3>12. CASE Incarnate(th)
        BY <1>b, <3>12, Zenon DEF Incarnate, waves, Goto, Top, TaskOf
      <3>13. CASE CountChildren(th)
        BY <1>b, <3>13, Zenon DEF CountChildren, waves, Goto
      <3>14. CASE ReleaseChild(th)
        <4>1. /\ pc' = pc \/ pc' = [pc EXCEPT ![th] = "lock"]
              /\ validation_idx' = validation_idx /\ task' = task
              /\ finished_val_flag' = finished_val_flag
          BY <3>14, Zenon DEF ReleaseChild, waves, Goto, Call
        <4> QED
          BY <1>b, <4>1, Zenon
      <3>15. CASE EndFinishExecution(th)
        BY <1>b, <3>15, Zenon DEF EndFinishExecution, waves, Goto, Top
      <3>16. CASE DecreaseValidationIdx(th)
        BY <1>b, <1>a, <3>16, Zenon DEF DecreaseValidationIdx, Goto, Call, NoTask, TaskOf, Control
      <3>17. CASE SetExecuted(th)
        BY <1>b, <3>17, Zenon DEF SetExecuted, waves, Goto, NoTask, TaskOf
      <3>18. CASE TryAbort(th)
        BY <1>b, <3>18, Zenon DEF TryAbort, waves, Goto
      <3>19. CASE FinishValidation(th)
        BY <1>b, <3>19, Zenon DEF FinishValidation, Goto, Top, NoTask, TaskOf
      <3>20. CASE SetAborted(th)
        BY <1>b, <3>20, Zenon DEF SetAborted, waves, Goto
      <3>21. ASSUME NEW dep \in Txns, WaitForDependency(th, dep)
             PROVE  Steady
        BY <1>b, <3>21, Zenon DEF WaitForDependency, waves, locals
      <3> HIDE DEF Steady
      <3> QED
        BY <1>f, <3>1, <3>2, <3>3, <3>4, <3>5, <3>6, <3>7, <3>8, <3>9, <3>10, <3>11, <3>12,
           <3>13, <3>14, <3>15, <3>16, <3>17, <3>18, <3>19, <3>20, <3>21, ZenonT(30) DEF Step,
           SchedulerStep, ExecutorStep
    <2>b. \A w \in Threads : Validator(w)'
      <3>1. ASSUME NEW w \in Threads, w # th
            PROVE  Validator(w)'
        BY <1>a, <2>a, <3>1, Others, Zenon DEF Validator
      <3>2. Validator(th)'
        BY <1>a, <2>a, Zenon DEF Validator
      <3> QED
        BY <3>1, <3>2, Zenon
    <2>c. SomeoneValidates'
      <3>1. CASE Validates(th)
        <4>1. finished_val_flag'[th] = FALSE
          BY <1>a, <2>a, <3>1, Zenon DEF Validator
        <4> QED
          BY <4>1, Zenon DEF SomeoneValidates
      <3>2. CASE validation_idx' = validation_idx \/ validation_idx'.idx >= validation_idx.idx
        <4>1. validation_idx'.idx < NumTxns => validation_idx.idx < NumTxns
          BY <1>b, <3>2, SMTT(30)
        <4> QED
          BY <1>a, <2>a, <4>1, Zenon DEF SomeoneValidates
      <3> QED
        BY <2>a, <3>1, <3>2, Zenon
    <2> QED
      BY <2>b, <2>c, Zenon DEF ValidatorInv
  <1> QED
    BY <1>e, <1>f, Zenon

-----------------------------------------------------------------------------
(* Preservation: waves *)

\* A step that is none of the six that touch the waves, commit_state, a validation
\* task or the label "decrease".
Still(th) ==
    /\ waves' = waves /\ commit_state' = commit_state
    /\ task'[th] = task[th] \/ task'[th].kind # "ValidationTask"
    /\ pc'[th] # "decrease"

\* The steps other than those six are still.
LEMMA StillSteps ==
    ASSUME TypeInv, NEW th \in Threads, Step(th)
    PROVE  \/ TryCommit(th) \/ TryCommitNone(th) \/ FetchAddValidationIdx(th)
           \/ FinishValidation(th) \/ SetAborted(th) \/ DecreaseValidationIdx(th) \/ Still(th)
  <1>a. TypeOK /\ Control(th)
    BY Zenon DEF TypeInv
  <1>b. pc \in [Threads -> Labels] /\ task \in [Threads -> TaskType]
    BY <1>a, Zenon DEF TypeOK
  <1>c. Incarnating(th) /\ IncarnateFails(th) => IncarnateReturns(th)
    BY <1>a, IncarnateReturn, Zenon
  <1>1. CASE Exit(th)
    BY <1>b, <1>1, Zenon DEF Exit, Still, commits, Goto
  <1>2. CASE RecvPrio(th)
    BY <1>b, <1>2, Zenon DEF RecvPrio, Still, commits, Goto, Call
  <1>3. CASE RecvChan(th)
    BY <1>b, <1>3, Zenon DEF RecvChan, Still, commits, Goto, Call, NoExec, Top
  <1>4. CASE LoadValidationIdx(th)
    BY <1>b, <1>4, Zenon DEF LoadValidationIdx, Still, commits, Goto, Top
  <1>5. CASE CheckExecuted(th)
    BY <1>b, <1>5, Zenon DEF CheckExecuted, Still, commits, Goto, Top, is_executed
  <1>6. CASE LockStatus(th)
    BY <1>b, <1>c, <1>6, Zenon DEF LockStatus, Still, commits, Goto, Incarnating, IncarnateReturns
  <1>7. CASE CheckHint(th)
    BY <1>b, <1>7, Zenon DEF CheckHint, Still, commits, Goto, is_executed
  <1>8. CASE PushHint(th)
    BY <1>b, <1>8, Zenon DEF PushHint, Still, commits, Goto
  <1>9. CASE RecheckHint(th)
    BY <1>b, <1>c, <1>9, Zenon DEF RecheckHint, Still, commits, Goto, Incarnating, IncarnateReturns,
       is_executed
  <1>10. CASE Incarnate(th)
    BY <1>b, <1>10, Zenon DEF Incarnate, Still, commits, Goto, Top, TaskOf
  <1>11. CASE CountChildren(th)
    BY <1>b, <1>11, Zenon DEF CountChildren, Still, commits, Goto
  <1>12. CASE ReleaseChild(th)
    BY <1>b, <1>12, Zenon DEF ReleaseChild, Still, commits, Goto, Call
  <1>13. CASE EndFinishExecution(th)
    BY <1>b, <1>13, Zenon DEF EndFinishExecution, Still, commits, Goto, Top
  <1>14. CASE SetExecuted(th)
    BY <1>b, <1>14, Zenon DEF SetExecuted, Still, commits, Goto, NoTask, TaskOf
  <1>15. CASE TryAbort(th)
    BY <1>b, <1>15, Zenon DEF TryAbort, Still, commits, Goto
  <1>16. ASSUME NEW dep \in Txns, WaitForDependency(th, dep)
         PROVE  Still(th)
    BY <1>b, <1>16, Zenon DEF WaitForDependency, Still, commits, locals, AtTask
  <1> QED
    BY <1>1, <1>2, <1>3, <1>4, <1>5, <1>6, <1>7, <1>8, <1>9, <1>10, <1>11, <1>12, <1>13, <1>14,
       <1>15, <1>16, SMTT(30) DEF Step, SchedulerStep, ExecutorStep

\* The transaction that try_commit accepts has been taken in the current wave, so
\* validation_idx is past it.
LEMMA CommitIsValidated ==
    ASSUME TypeInv, WaveInv, CanCommit
    PROVE  commit_state.idx + 1 <= validation_idx.idx
  <1> DEFINE t == commit_state.idx
  <1>a. /\ TypeOK /\ ValidationPastCommitted /\ Taken(t, maybe_max_validated_wave[t])
        /\ validation_idx.wave > 0 => \E s \in Txns : StartedWave(s)
        /\ t \in Txns
    <2>1. TypeOK
      BY Zenon DEF TypeInv
    <2>2. t \in Txns
      BY <2>1, SharedTypes, Constants DEF CanCommit, CommitCandidate, Txns
    <2> QED
      BY <2>1, <2>2, Zenon DEF WaveInv
  <1>b. /\ validation_idx.idx \in Nat /\ validation_idx.wave \in Nat
        /\ t \in Nat /\ commit_state.wave \in Nat
        /\ maybe_max_validated_wave[t] \in Int /\ max_triggered_wave[t] \in Nat
    BY <1>a, SharedTypes, Zenon
  <1>c. /\ maybe_max_validated_wave[t] >= commit_state.wave
        /\ maybe_max_validated_wave[t] >= max_triggered_wave[t]
    BY <1>b DEF CanCommit, CommitWave, Max2
  <1>1. SUFFICES ASSUME validation_idx.idx <= t PROVE FALSE
    BY <1>b
  <1>2. validation_idx.idx = t
    BY <1>a, <1>b, <1>1 DEF ValidationPastCommitted
  <1>3. maybe_max_validated_wave[t] # validation_idx.wave
    BY <1>a, <1>b, <1>2, SMTT(30) DEF Taken
  <1>4. CASE validation_idx.wave = 0
    BY <1>a, <1>b, <1>c, <1>3, <1>4 DEF Taken
  <1>5. CASE validation_idx.wave > 0
    <2>1. PICK s \in Txns : StartedWave(s)
      BY <1>a, <1>5, Zenon
    <2>2. s = t \/ s < t
      BY <1>a, <1>b, <1>2, <2>1, Constants DEF StartedWave
    <2>3. CASE s = t
      BY <1>a, <1>b, <1>c, <1>3, <2>1, <2>3, SMTT(30) DEF StartedWave, Taken
    <2>4. CASE s < t
      BY <1>a, <1>b, <1>c, <1>3, <2>1, <2>4 DEF StartedWave, Taken
    <2> QED
      BY <2>2, <2>3, <2>4, Zenon
  <1> QED
    BY <1>b, <1>4, <1>5

\* Every action preserves WaveInv.
LEMMA WaveInvStep ==
    ASSUME TypeInv, StatusInv, WaveInv, NEW th \in Threads, Step(th)
    PROVE  WaveInv'
  <1> DEFINE TasksTaken == \A w \in Threads :
                 task[w].kind = "ValidationTask" => Taken(task[w].txn, task[w].wave)
             AbortsAbove == \A w \in Threads :
                 pc[w] = "decrease" => commit_state.idx <= task[w].txn
  <1>a. /\ TypeOK /\ Control(th) /\ ExclusiveAbort /\ CommitPrefix
        /\ TasksTaken /\ AbortsAbove
    BY Zenon DEF TypeInv, StatusInv, WaveInv
  <1>b. /\ validation_idx.idx \in Nat /\ validation_idx.wave \in Nat
        /\ commit_state.idx \in Nat /\ commit_state.wave \in Nat
        /\ \A t \in Txns : t \in Nat
        /\ \A t \in Txns : maybe_max_validated_wave[t] \in Int /\ max_triggered_wave[t] \in Nat
        /\ \A w \in Threads : task[w].txn \in Txns /\ task[w].wave \in Nat
    BY <1>a, SharedTypes, LocalTypes, Constants, Zenon
  <1>c. /\ validation_idx \in [idx : 0 .. NumTxns, wave : Nat]
        /\ commit_state \in [idx : 0 .. NumTxns, wave : Nat]
        /\ maybe_max_validated_wave \in [Txns -> Nat \cup {-1}]
        /\ max_triggered_wave \in [Txns -> Nat]
        /\ pc \in [Threads -> Labels] /\ task \in [Threads -> TaskType]
    BY <1>a, Zenon DEF TypeOK
  <1>d. \A w \in Threads : w # th => pc'[w] = pc[w] /\ task'[w] = task[w]
    BY Others, Zenon
  <1>e. commit_state.idx \in Txns \/ commit_state.idx = NumTxns
    BY <1>a, SharedTypes, Constants, SMTT(30) DEF Txns
  <1>f. /\ ValidationPastCommitted /\ commit_state.wave <= validation_idx.wave
        /\ \A t \in Txns : max_triggered_wave[t] <= validation_idx.wave
        /\ \A t \in Txns : Taken(t, maybe_max_validated_wave[t])
        /\ validation_idx.wave > 0 => \E t \in Txns : StartedWave(t)
    BY Zenon DEF WaveInv
  <1>1. CASE TryCommit(th)
    <2> DEFINE c == commit_state.idx
    <2>1. /\ commit_state' = [idx |-> c + 1, wave |-> CommitWave]
          /\ validation_idx' = validation_idx /\ max_triggered_wave' = max_triggered_wave
          /\ maybe_max_validated_wave' = maybe_max_validated_wave
          /\ pc' = pc /\ task' = task
      BY <1>1, Zenon DEF TryCommit, waves, locals
    <2>2. c \in Txns /\ c + 1 <= validation_idx.idx
      BY <1>1, <1>a, CommitIsValidated, SharedTypes, Constants, SMTT(30)
         DEF TryCommit, CanCommit, CommitCandidate, Txns
    <2>3. /\ CommitWave \in Nat /\ CommitWave <= validation_idx.wave
          /\ CommitWave >= commit_state.wave /\ CommitWave >= max_triggered_wave[c]
      BY <1>b, <1>f, <2>2 DEF CommitWave, Max2
    <2>4. ASSUME NEW w \in Threads, pc[w] = "decrease"
          PROVE  c + 1 <= task[w].txn
      <3>1. task[w].txn # c
        BY <1>1, <2>4, Zenon DEF TryCommit, CanCommit, CommitCandidate, ValidationLocked
      <3> QED
        BY <1>a, <1>b, <2>4, <3>1
    <2>5. ASSUME NEW t \in Txns, StartedWave(t)
          PROVE  StartedWave(t)'
      BY <1>b, <2>1, <2>2, <2>3, <2>5 DEF StartedWave
    <2>6. \A t, n : Taken(t, n) => Taken(t, n)'
      BY <2>1, Zenon DEF Taken
    <2> QED
      BY <1>a, <1>f, <2>1, <2>2, <2>3, <2>4, <2>5, <2>6, Zenon DEF WaveInv, ValidationPastCommitted
  <1>2. CASE TryCommitNone(th)
    <2>1. /\ validation_idx' = validation_idx /\ max_triggered_wave' = max_triggered_wave
          /\ maybe_max_validated_wave' = maybe_max_validated_wave /\ task' = task
          /\ pc' = [pc EXCEPT ![th] = "work"]
      BY <1>2, Zenon DEF TryCommitNone, waves, Goto
    <2>2. /\ commit_state'.idx = commit_state.idx
          /\ commit_state'.wave \in Nat
          /\ commit_state.wave <= commit_state'.wave
          /\ commit_state'.wave <= validation_idx.wave
      <3>1. CASE CommitCandidate
        <4>1. commit_state.idx \in Txns
          BY <1>b, <1>e, <3>1, Constants, SMTT(30) DEF CommitCandidate
        <4>2. /\ CommitWave \in Nat /\ CommitWave <= validation_idx.wave
              /\ CommitWave >= commit_state.wave
          BY <1>b, <1>f, <4>1 DEF CommitWave, Max2
        <4> QED
          BY <1>b, <1>c, <1>2, <3>1, <4>2, ZenonT(30) DEF TryCommitNone
      <3>2. CASE ~CommitCandidate
        BY <1>b, <1>c, <1>f, <1>2, <3>2 DEF TryCommitNone
      <3> QED
        BY <3>1, <3>2, Zenon
    <2>3. AbortsAbove'
      BY <1>a, <1>c, <2>1, <2>2, Zenon
    <2>4. ASSUME NEW t \in Txns, StartedWave(t)
          PROVE  StartedWave(t)'
      BY <1>b, <2>1, <2>2, <2>4 DEF StartedWave
    <2>5. \A t, n : Taken(t, n) => Taken(t, n)'
      BY <2>1, Zenon DEF Taken
    <2> QED
      BY <1>a, <1>f, <2>1, <2>2, <2>3, <2>4, <2>5, Zenon DEF WaveInv, ValidationPastCommitted

  <1>3. CASE FetchAddValidationIdx(th)
    <2>1. /\ validation_idx'.idx = validation_idx.idx + 1
          /\ validation_idx'.wave = validation_idx.wave
          /\ max_triggered_wave' = max_triggered_wave /\ commit_state' = commit_state
          /\ maybe_max_validated_wave' = maybe_max_validated_wave
      BY <1>c, <1>3, Zenon DEF FetchAddValidationIdx, commits
    <2>2. /\ task'[th].txn = validation_idx.idx /\ task'[th].wave = validation_idx.wave
          /\ pc'[th] # "decrease"
      BY <1>c, <1>3, Zenon DEF FetchAddValidationIdx, TaskOf, Goto, Top
    <2>3. ASSUME NEW t \in Nat, NEW n \in Int, Taken(t, n)
          PROVE  Taken(t, n)'
      BY <1>b, <2>1, <2>3 DEF Taken
    <2>4. TasksTaken'
      <3>1. Taken(task[th].txn, task[th].wave)'
        BY <1>b, <2>1, <2>2, SMTT(30) DEF Taken
      <3>2. ASSUME NEW w \in Threads, w # th, task'[w].kind = "ValidationTask"
            PROVE  Taken(task[w].txn, task[w].wave)'
        BY <1>a, <1>b, <1>d, <2>3, <3>2, SMTT(30)
      <3> QED
        BY <3>1, <3>2, Zenon
    <2>5. ASSUME NEW t \in Txns, StartedWave(t)
          PROVE  StartedWave(t)'
      BY <1>b, <2>1, <2>5 DEF StartedWave
    <2>6. AbortsAbove'
      BY <1>a, <1>d, <2>1, <2>2, Zenon
    <2>7. \A t \in Txns : Taken(t, maybe_max_validated_wave[t])'
      BY <1>b, <1>f, <2>1, <2>3, Zenon
    <2> QED
      BY <1>b, <1>f, <2>1, <2>4, <2>5, <2>6, <2>7 DEF WaveInv, ValidationPastCommitted
  <1>4. CASE FinishValidation(th)
    <2>1. /\ validation_idx' = validation_idx /\ max_triggered_wave' = max_triggered_wave
          /\ commit_state' = commit_state /\ task'[th] = NoTask /\ pc'[th] # "decrease"
      BY <1>c, <1>4, Zenon DEF FinishValidation, commits, Goto, Top
    <2>2. \A t, n : Taken(t, n)' <=> Taken(t, n)
      BY <2>1, Zenon DEF Taken
    <2>3. ASSUME NEW t \in Txns
          PROVE  Taken(t, maybe_max_validated_wave'[t])
      <3>1. task[th].kind = "ValidationTask"
        BY <1>a, <1>4, Zenon DEF FinishValidation, AtTask, Control
      <3>2. Taken(task[th].txn, task[th].wave)
        BY <1>a, <3>1, Zenon
      <3>3. \/ maybe_max_validated_wave'[t] = maybe_max_validated_wave[t]
            \/ t = task[th].txn /\ maybe_max_validated_wave'[t] = task[th].wave
        BY <1>b, <1>c, <1>4, Zenon DEF FinishValidation, Max2
      <3> QED
        BY <1>f, <3>2, <3>3, Zenon
    <2>4. TasksTaken'
      <3>1. task'[th].kind # "ValidationTask"
        BY <2>1 DEF NoTask, TaskOf
      <3> QED
        BY <1>a, <1>d, <2>2, <3>1, Zenon
    <2>5. AbortsAbove'
      BY <1>a, <1>d, <2>1, Zenon
    <2>6. \A t \in Txns : StartedWave(t) => StartedWave(t)'
      BY <2>1, Zenon DEF StartedWave
    <2> QED
      BY <1>f, <2>1, <2>2, <2>3, <2>4, <2>5, <2>6, Zenon DEF WaveInv, ValidationPastCommitted
  <1>5. CASE SetAborted(th)
    <2>1. waves' = waves /\ commit_state' = commit_state /\ task' = task
      BY <1>5, Zenon DEF SetAborted, commits
    <2>2. commit_state.idx <= task[th].txn
      <3>1. txn_status[task[th].txn].st # "Committed"
        <4>1. Status("Aborting", task[th].inc).st = "Aborting"
          BY Zenon DEF Status
        <4> QED
          BY <1>a, <1>5, <4>1, Zenon DEF SetAborted, ExclusiveAbort
      <3> QED
        BY <1>a, <1>b, <3>1 DEF CommitPrefix
    <2>3. AbortsAbove'
      BY <1>a, <1>d, <2>1, <2>2, Zenon
    <2> QED
      BY <1>a, <1>f, <2>1, <2>3, Zenon DEF WaveInv, ValidationPastCommitted, Taken, StartedWave, waves
  <1>6. CASE DecreaseValidationIdx(th)
    <2>0. PICK t \in Txns : t = task[th].txn
      BY <1>b, Zenon
    <2>1. /\ commit_state' = commit_state /\ task'[th] = NoTask /\ pc'[th] = "lock"
          /\ maybe_max_validated_wave' = maybe_max_validated_wave
          /\ pc[th] = "decrease"
      BY <1>c, <1>6, Zenon DEF DecreaseValidationIdx, commits, Call, Goto
    <2>2. AbortsAbove'
      BY <1>a, <1>d, <2>1, Zenon
    <2>3. CASE validation_idx.idx <= t
      <3>1. validation_idx' = validation_idx /\ max_triggered_wave' = max_triggered_wave
        BY <1>b, <1>6, <2>0, <2>3, SMTT(30) DEF DecreaseValidationIdx
      <3>2. TasksTaken'
        BY <1>a, <1>d, <2>1, <3>1 DEF Taken, NoTask, TaskOf
      <3> QED
        BY <1>f, <2>1, <2>2, <3>1, <3>2, Zenon DEF WaveInv, ValidationPastCommitted, Taken, StartedWave
    <2>4. CASE ~(validation_idx.idx <= t)
      <3>1. /\ validation_idx' = [idx |-> t, wave |-> validation_idx.wave + 1]
            /\ max_triggered_wave' = [max_triggered_wave EXCEPT ![t] = validation_idx.wave + 1]
        BY <1>b, <1>6, <2>0, <2>4, Zenon DEF DecreaseValidationIdx
      <3>2. \A s \in Nat, n \in Int : Taken(s, n) => Taken(s, n)'
        BY <1>b, <3>1 DEF Taken
      <3>3. TasksTaken'
        <4>1. ASSUME NEW w \in Threads, task'[w].kind = "ValidationTask"
              PROVE  Taken(task[w].txn, task[w].wave)'
          <5>1. w # th
            BY <2>1, <4>1, SMTT(30) DEF NoTask, TaskOf
          <5> QED
            BY <1>a, <1>b, <1>d, <3>2, <4>1, <5>1, SMTT(30)
        <4> QED
          BY <4>1, Zenon
      <3>4. StartedWave(t)'
        BY <1>a, <1>b, <1>c, <2>0, <2>1, <3>1 DEF StartedWave
      <3>5. ValidationPastCommitted'
        BY <1>a, <2>0, <2>1, <3>1, Zenon DEF ValidationPastCommitted
      <3>6. \A s \in Txns : Taken(s, maybe_max_validated_wave[s])'
        BY <1>b, <1>f, <2>1, <3>2, Zenon
      <3>7. /\ commit_state'.wave <= validation_idx'.wave
            /\ \A s \in Txns : max_triggered_wave'[s] <= validation_idx'.wave
        BY <1>b, <1>c, <1>f, <2>1, <3>1, SMTT(30)
      <3> QED
        BY <1>b, <2>2, <3>3, <3>4, <3>5, <3>6, <3>7, Zenon DEF WaveInv
    <2> QED
      BY <2>3, <2>4, Zenon
  <1>7. CASE Still(th)
    <2>1. /\ validation_idx' = validation_idx /\ max_triggered_wave' = max_triggered_wave
          /\ maybe_max_validated_wave' = maybe_max_validated_wave
          /\ commit_state' = commit_state
      BY <1>7, Zenon DEF Still, waves
    <2>2. TasksTaken'
      BY <1>a, <1>d, <1>7, <2>1, Zenon DEF Still, Taken
    <2>3. AbortsAbove'
      BY <1>a, <1>d, <1>7, <2>1, Zenon DEF Still
    <2> QED
      BY <1>f, <2>1, <2>2, <2>3, Zenon DEF WaveInv, ValidationPastCommitted, Taken, StartedWave
  <1> QED
    BY <1>1, <1>2, <1>3, <1>4, <1>5, <1>6, <1>7, StillSteps, Zenon

-----------------------------------------------------------------------------
(* The theorems *)

SafetyInv == TypeInv /\ StatusInv /\ ValidatorInv /\ WaveInv

\* The layers hold when Scheduler::new returns.
LEMMA InitSafetyInv == Init => SafetyInv
  <1> SUFFICES ASSUME Init PROVE SafetyInv
    BY Zenon
  <1>1. TypeInv
    BY InitTypeInv, Zenon
  <1>2. \A th \in Threads : pc[th] \in {"commit", "work"} /\ task[th].kind = "NoTask"
    BY Zenon DEF Init, NoTask, TaskOf
  <1>3. \A t \in Txns : txn_status[t].st = "ReadyToExecute"
    BY Zenon DEF Init, Status
  <1>4. StatusInv
    <2>1. \A t \in Txns : ~(t < commit_state.idx)
      BY Constants DEF Init
    <2> QED
      BY <1>2, <1>3, <2>1, Zenon
         DEF StatusInv, LockInv, HoldsStatus, ExclusiveExecution, ExclusiveAbort, CommitPrefix
  <1>5. ValidatorInv
    BY <1>2, BlockAssumption, Zenon DEF Init, ValidatorInv, Validator, SomeoneValidates
  <1>6. WaveInv
    BY <1>2, Constants DEF Init, WaveInv, ValidationPastCommitted, Taken
  <1> QED
    BY <1>1, <1>4, <1>5, <1>6, Zenon DEF SafetyInv

\* Every step of a worker preserves the four layers together.
LEMMA SafetyInvStep == SafetyInv /\ [Next]_vars => SafetyInv'
  <1> SUFFICES ASSUME SafetyInv, [Next]_vars PROVE SafetyInv'
    BY Zenon
  <1>a. TypeInv /\ StatusInv /\ ValidatorInv /\ WaveInv
    BY Zenon DEF SafetyInv
  <1>b. TypeInv'
    BY <1>a, TypeInvStep, Zenon
  <1>c. TypeOK'
    BY <1>b, Zenon DEF TypeInv
  <1>1. ASSUME NEW th \in Threads, Step(th)
        PROVE  SafetyInv'
    <2>1. StatusInv'
      BY <1>a, <1>1, StatusInvStep, Zenon
    <2>2. ValidatorInv'
      BY <1>a, <1>c, <1>1, ValidatorInvStep, Zenon
    <2>3. WaveInv'
      BY <1>a, <1>1, WaveInvStep, Zenon
    <2> QED
      BY <1>b, <2>1, <2>2, <2>3, Zenon DEF SafetyInv
  <1>2. CASE UNCHANGED vars
    <2>1. StatusInv'
      BY <1>a, <1>2, ZenonT(30) DEF vars, waves, commits, locals, StatusInv, LockInv, HoldsStatus,
         ExclusiveExecution, ExclusiveAbort, CommitPrefix
    <2>2. ValidatorInv' /\ WaveInv'
      BY <1>a, <1>2, Zenon DEF vars, waves, commits, locals, ValidatorInv, SomeoneValidates, Validator,
         WaveInv, ValidationPastCommitted, Taken, StartedWave
    <2> QED
      BY <1>b, <2>1, <2>2, Zenon DEF SafetyInv
  <1> QED
    BY <1>1, <1>2, Zenon DEF Next, Step, Joined

\* The four layers together are an invariant of the scheduler.
THEOREM Safety == Spec => []SafetyInv
  BY InitSafetyInv, SafetyInvStep, PTL DEF Spec

\* try_incarnate gives each version to one worker: finish_execution finds the
\* status Executing that it asserts.
THEOREM VersionsExecuteOnce == Spec => []ExclusiveExecution
  <1>1. SafetyInv => ExclusiveExecution
    BY Zenon DEF SafetyInv, StatusInv
  <1> QED
    BY <1>1, Safety, PTL

\* try_abort lets one worker abort a version: finish_abort finds the status
\* Aborting that set_aborted_status asserts.
THEOREM VersionsAbortOnce == Spec => []ExclusiveAbort
  <1>1. SafetyInv => ExclusiveAbort
    BY Zenon DEF SafetyInv, StatusInv
  <1> QED
    BY <1>1, Safety, PTL

\* try_commit commits a growing prefix of the block and no abort undoes it.
THEOREM CommitsInOrder == Spec => []CommitPrefix
  <1>1. SafetyInv => CommitPrefix
    BY Zenon DEF SafetyInv, StatusInv
  <1> QED
    BY <1>1, Safety, PTL

\* The workers never all give up validating while an index is left, although
\* finished_val_flag is sticky and finish_abort lowers validation_idx.
THEOREM ValidationIsManned == Spec => []SomeoneValidates
  <1>1. SafetyInv => SomeoneValidates
    BY Zenon DEF SafetyInv, ValidatorInv
  <1> QED
    BY <1>1, Safety, PTL

\* No abort takes validation_idx back to a committed transaction, at which
\* try_validate_next_version would stay for ever: the wave that try_commit asks
\* for makes sure that a committed transaction was taken in the current wave.
THEOREM ValidationIsPastCommits == Spec => []ValidationPastCommitted
  <1>1. SafetyInv => ValidationPastCommitted
    BY Zenon DEF SafetyInv, WaveInv
  <1> QED
    BY <1>1, Safety, PTL

\* Every step of every worker moves a status along the diagram documented above
\* ExecutionStatus.
THEOREM StatusesFollowDiagram == Spec => StatusTransitions
  <1>1. ASSUME SafetyInv, [Next]_vars
        PROVE  \A t \in Txns : StatusStep(txn_status[t], txn_status'[t])
    <2>a. TypeInv /\ StatusInv /\ TypeOK
      BY <1>1, Zenon DEF SafetyInv, TypeInv
    <2>b. /\ txn_status \in [Txns -> [st : StatusNames, inc : Nat]]
          /\ \A w \in Threads : task[w].txn \in Txns /\ call[w].txn \in Txns
      BY <2>a, LocalTypes, Zenon DEF TypeOK
    <2>c. \A s, n : Status(s, n).st = s /\ Status(s, n).inc = n
      BY Zenon DEF Status
    <2>1. ASSUME NEW th \in Threads, Step(th), NEW t \in Txns
          PROVE  StatusStep(txn_status[t], txn_status'[t])
      <3>1. CASE txn_status'[t] = txn_status[t]
        BY <3>1, ZenonT(30) DEF StatusStep
      <3>2. CASE Commits(th) /\ t = commit_state.idx
        BY <2>b, <2>c, <3>2 DEF Commits, Sets, StatusStep
      <3>3. CASE Starts(th) /\ t = call[th].txn
        BY <2>b, <2>c, <3>3, ZenonT(30) DEF Starts, Sets, StatusStep
      <3>4. CASE Finishes(th) /\ t = task[th].txn
        BY <2>b, <2>c, <3>4, SMTT(30) DEF Finishes, Sets, StatusStep
      <3>5. CASE Aborts(th) /\ txn_status' # txn_status /\ t = task[th].txn
        BY <2>b, <2>c, <3>5, SMTT(30) DEF Aborts, Sets, StatusStep
      <3>6. CASE Restarts(th) /\ t = task[th].txn
        BY <2>b, <2>c, <3>6 DEF Restarts, Sets, StatusStep
      <3>7. \/ Commits(th) \/ Starts(th) \/ Finishes(th) \/ Aborts(th) \/ Restarts(th)
            \/ Quiet(th)
        BY <2>a, <2>1, StatusEffects, Zenon
      <3>8. \/ txn_status'[t] = txn_status[t]
            \/ Commits(th) /\ t = commit_state.idx
            \/ Starts(th) /\ t = call[th].txn
            \/ Finishes(th) /\ t = task[th].txn
            \/ Aborts(th) /\ txn_status' # txn_status /\ t = task[th].txn
            \/ Restarts(th) /\ t = task[th].txn
        <4>1. CASE Commits(th) \/ Starts(th)
          BY <2>b, <4>1, Zenon DEF Commits, Starts, Sets
        <4>2. CASE Finishes(th) \/ Restarts(th) \/ Quiet(th)
          BY <2>b, <4>2, Zenon DEF Finishes, Restarts, Quiet, Sets
        <4>3. CASE Aborts(th)
          <5>1. CASE txn_status' = txn_status
            BY <5>1, Zenon
          <5>2. CASE txn_status' # txn_status
            BY <2>b, <4>3, <5>2, Zenon DEF Aborts, Sets
          <5> QED
            BY <5>1, <5>2, Zenon
        <4> QED
          BY <3>7, <4>1, <4>2, <4>3, Zenon
      <3> QED
        BY <3>1, <3>2, <3>3, <3>4, <3>5, <3>6, <3>8, Zenon
    <2>2. CASE UNCHANGED vars
      BY <2>2, Zenon DEF vars, StatusStep
    <2> QED
      BY <1>1, <2>1, <2>2, Zenon DEF Next, Step, Joined
  <1>2. SafetyInv /\ [Next]_vars
           => [\A t \in Txns : StatusStep(txn_status[t], txn_status'[t])]_txn_status
    BY <1>1, Zenon
  <1> QED
    BY <1>2, Safety, PTL DEF Spec, StatusTransitions

-----------------------------------------------------------------------------
(* What a worker inside try_incarnate has registered *)

\* What a thread inside try_incarnate has registered or is called for.
Registered(th) ==
    /\ call[th].caller = "finish" =>
          /\ iter[th].pos <= iter[th].cnt
          /\ critical_path_parent[iter[th].txn][iter[th].pos] = call[th].txn
    /\ pc[th] = "recheck" =>
          \E i \in 1 .. Len(critical_path_parent[Hint(th)]) :
              critical_path_parent[Hint(th)][i] = call[th].txn

WakeupInv == NoLostWakeup /\ \A th \in Threads : Registered(th)

-----------------------------------------------------------------------------
(* Where a ready transaction waits *)

\* The entry that finish_execution is at is a transaction.
LEMMA ReleasedInRange ==
    ASSUME TypeInv, NEW th \in Threads, ReleaseChild(th)
    PROVE  /\ critical_path_parent[iter[th].txn][iter[th].pos] \in Txns
           /\ iter[th].pos \in 1 .. Len(critical_path_parent[iter[th].txn])
  <1>a. TypeOK /\ Control(th)
    BY Zenon DEF TypeInv
  <1>1. critical_path_parent[iter[th].txn] \in Seq(Txns)
    BY <1>a, LocalTypes, SharedTypes, Zenon
  <1>2. iter[th].pos <= iter[th].cnt /\ iter[th].cnt <= Len(critical_path_parent[iter[th].txn])
    BY <1>a, Zenon DEF ReleaseChild, Control
  <1>3. iter[th].pos \in 1 .. Len(critical_path_parent[iter[th].txn])
    BY <1>a, <1>1, <1>2, LocalTypes, SMTT(30)
  <1> QED
    BY <1>1, <1>3

\* Where t waits when it is ready.
Queued(t) ==
    \/ \E i \in 1 .. Len(priochannels) : priochannels[i] = t
    \/ \E i \in 1 .. Len(channels) : channels[i] = t

Listed(t) ==
    \E d \in Txns : \E i \in 1 .. Len(critical_path_parent[d]) :
        /\ critical_path_parent[d][i] = t
        /\ ~is_executed(d, TRUE) \/ \E th \in Threads : StillToRelease(th, d, i)

Waiting(t) == Queued(t) \/ (\E th \in Threads : InHand(th, t)) \/ Listed(t)

\* NoLostWakeup in these terms.
LEMMA WaitingIsEnough ==
    NoLostWakeup <=> \A t \in Txns : txn_status[t].st = "ReadyToExecute" => Waiting(t)
  BY Zenon DEF NoLostWakeup, Waiting, Queued, Listed

\* What a worker can do inside try_incarnate, finish_execution and finish_abort.
LEMMA StepAt ==
    ASSUME NEW th \in Threads, Step(th)
    PROVE  /\ pc[th] = "lock" => LockStatus(th)
           /\ pc[th] = "dep" => CheckHint(th) \/ Incarnate(th)
           /\ pc[th] = "push" => PushHint(th)
           /\ pc[th] = "recheck" => RecheckHint(th)
           /\ pc[th] = "count" => CountChildren(th)
           /\ pc[th] = "items" => ReleaseChild(th) \/ EndFinishExecution(th)
           /\ pc[th] = "decrease" => DecreaseValidationIdx(th)
  <1>1. /\ TryCommit(th) => pc[th] = "commit"
        /\ TryCommitNone(th) => pc[th] = "commit"
        /\ Exit(th) => pc[th] = "work"
        /\ RecvPrio(th) => pc[th] = "work"
        /\ RecvChan(th) => pc[th] = "chan"
    BY Zenon DEF TryCommit, TryCommitNone, Exit, RecvPrio, RecvChan, AtTask
  <1>2. /\ LoadValidationIdx(th) => pc[th] = "tryval"
        /\ CheckExecuted(th) => pc[th] = "valcheck"
        /\ FetchAddValidationIdx(th) => pc[th] = "valadd"
    BY Zenon DEF LoadValidationIdx, CheckExecuted, FetchAddValidationIdx
  <1>3. /\ LockStatus(th) => pc[th] = "lock"
        /\ CheckHint(th) \/ Incarnate(th) => pc[th] = "dep"
        /\ PushHint(th) => pc[th] = "push"
        /\ RecheckHint(th) => pc[th] = "recheck"
    BY Zenon DEF LockStatus, CheckHint, Incarnate, PushHint, RecheckHint
  <1>4. /\ CountChildren(th) => pc[th] = "count"
        /\ ReleaseChild(th) \/ EndFinishExecution(th) => pc[th] = "items"
        /\ DecreaseValidationIdx(th) => pc[th] = "decrease"
    BY Zenon DEF CountChildren, ReleaseChild, EndFinishExecution, DecreaseValidationIdx
  <1>5. /\ \A dep \in Txns : WaitForDependency(th, dep) => pc[th] = "work"
        /\ SetExecuted(th) => pc[th] = "work"
        /\ TryAbort(th) => pc[th] = "work"
        /\ FinishValidation(th) => pc[th] \in {"work", "finval"}
        /\ SetAborted(th) => pc[th] = "abort"
    BY Zenon DEF WaitForDependency, SetExecuted, TryAbort, FinishValidation, SetAborted, AtTask
  <1> QED
    BY <1>1, <1>2, <1>3, <1>4, <1>5, ZenonT(30) DEF Step, SchedulerStep, ExecutorStep

\* A transaction leaves a channel into the hands of the worker that receives it.
LEMMA QueuedStep ==
    ASSUME TypeInv, NEW th \in Threads, Step(th), NEW t \in Txns, Queued(t)
    PROVE  Waiting(t)'

  <1> DEFINE InPrio == \E i \in 1 .. Len(priochannels) : priochannels[i] = t
             InChan == \E i \in 1 .. Len(channels) : channels[i] = t
  <1>a. /\ TypeOK /\ pc \in [Threads -> Labels] /\ call \in [Threads -> CallType]
        /\ priochannels \in Seq(Txns) /\ channels \in Seq(Txns)
    BY Zenon DEF TypeInv, TypeOK
  <1>b. ASSUME NEW x, NEW c, Call(th, x, c)
        PROVE  pc'[th] = "lock" /\ call'[th].txn = x
    BY <1>a, <1>b, Zenon DEF Call, Goto, NoCall
  <1>c. ASSUME NEW q \in Seq(Txns), q # <<>>, \E i \in 1 .. Len(q) : q[i] = t
        PROVE  t = Head(q) \/ \E i \in 1 .. Len(Tail(q)) : Tail(q)[i] = t
    <2>1. PICK i \in 1 .. Len(q) : q[i] = t
      BY <1>c, Zenon
    <2>2. CASE i = 1
      BY <1>c, <2>1, <2>2, SMTT(30)
    <2>3. CASE i # 1
      <3>1. i - 1 \in 1 .. Len(Tail(q)) /\ Tail(q)[i - 1] = t
        BY <1>c, <2>1, <2>3, SMTT(30)
      <3> QED
        BY <3>1, Zenon
    <2> QED
      BY <2>2, <2>3, Zenon
  <1>d. ASSUME NEW q \in Seq(Txns), NEW x \in Txns, \E i \in 1 .. Len(q) : q[i] = t
        PROVE  \E i \in 1 .. Len(Append(q, x)) : Append(q, x)[i] = t
    BY <1>d
  <1>1. CASE RecvPrio(th)
    <2>1. channels' = channels
      BY <1>1, Zenon DEF RecvPrio
    <2>2. CASE InChan
      BY <2>1, <2>2, Zenon DEF Waiting, Queued
    <2>3. CASE InPrio
      <3>1. /\ priochannels # <<>> /\ priochannels' = Tail(priochannels)
            /\ Call(th, Head(priochannels), "prio")
        <4>1. priochannels # <<>>
          BY <1>a, <2>3, SMTT(30)
        <4> QED
          BY <1>1, <4>1, Zenon DEF RecvPrio
      <3>2. CASE t = Head(priochannels)
        BY <1>b, <3>1, <3>2, Zenon DEF Waiting, InHand
      <3>3. CASE t # Head(priochannels)
        BY <1>a, <1>c, <2>3, <3>1, <3>3, ZenonT(30) DEF Waiting, Queued
      <3> QED
        BY <3>2, <3>3, Zenon
    <2> QED
      BY <2>2, <2>3, Zenon DEF Queued
  <1>2. CASE RecvChan(th)
    <2>1. priochannels' = priochannels
      BY <1>2, Zenon DEF RecvChan
    <2>2. CASE InPrio
      BY <2>1, <2>2, Zenon DEF Waiting, Queued
    <2>3. CASE InChan
      <3>1. /\ channels # <<>> /\ channels' = Tail(channels)
            /\ Call(th, Head(channels), "chan")
        <4>1. channels # <<>>
          BY <1>a, <2>3
        <4> QED
          BY <1>2, <4>1, Zenon DEF RecvChan
      <3>2. CASE t = Head(channels)
        BY <1>b, <3>1, <3>2, Zenon DEF Waiting, InHand
      <3>3. CASE t # Head(channels)
        BY <1>a, <1>c, <2>3, <3>1, <3>3, Zenon DEF Waiting, Queued
      <3> QED
        BY <3>2, <3>3, Zenon
    <2> QED
      BY <2>2, <2>3, Zenon DEF Queued
  <1>3. CASE ReleaseChild(th)
    <2> DEFINE tx == critical_path_parent[iter[th].txn][iter[th].pos]
    <2>1. tx \in Txns
      BY <1>3, ReleasedInRange, Zenon
    <2> HIDE DEF tx
    <2>2. /\ channels' = channels \/ channels' = Append(channels, tx)
          /\ priochannels' = priochannels \/ priochannels' = Append(priochannels, tx)
      BY <1>3, Zenon DEF ReleaseChild, queues, tx
    <2> QED
      BY <1>a, <1>d, <2>1, <2>2, ZenonT(30) DEF Queued, Waiting
  <1>4. CASE TryCommit(th)
    BY <1>4, Zenon DEF TryCommit, queues, Queued, Waiting
  <1>5. CASE TryCommitNone(th)
    BY <1>5, Zenon DEF TryCommitNone, queues, Queued, Waiting
  <1>6. CASE Exit(th)
    BY <1>6, Zenon DEF Exit, queues, Queued, Waiting
  <1>7. CASE LoadValidationIdx(th)
    BY <1>7, Zenon DEF LoadValidationIdx, queues, Queued, Waiting
  <1>8. CASE CheckExecuted(th)
    BY <1>8, Zenon DEF CheckExecuted, queues, Queued, Waiting
  <1>9. CASE FetchAddValidationIdx(th)
    BY <1>9, Zenon DEF FetchAddValidationIdx, queues, Queued, Waiting
  <1>10. CASE LockStatus(th)
    BY <1>10, Zenon DEF LockStatus, queues, Queued, Waiting
  <1>11. CASE CheckHint(th)
    BY <1>11, Zenon DEF CheckHint, queues, Queued, Waiting
  <1>12. CASE PushHint(th)
    BY <1>12, Zenon DEF PushHint, queues, Queued, Waiting
  <1>13. CASE RecheckHint(th)
    BY <1>13, Zenon DEF RecheckHint, queues, Queued, Waiting
  <1>14. CASE Incarnate(th)
    BY <1>14, Zenon DEF Incarnate, queues, Queued, Waiting
  <1>15. CASE CountChildren(th)
    BY <1>15, Zenon DEF CountChildren, queues, Queued, Waiting
  <1>16. CASE EndFinishExecution(th)
    BY <1>16, Zenon DEF EndFinishExecution, queues, Queued, Waiting
  <1>17. CASE DecreaseValidationIdx(th)
    BY <1>17, Zenon DEF DecreaseValidationIdx, queues, Queued, Waiting
  <1>18. CASE SetExecuted(th)
    BY <1>18, Zenon DEF SetExecuted, queues, Queued, Waiting
  <1>19. CASE TryAbort(th)
    BY <1>19, Zenon DEF TryAbort, queues, Queued, Waiting
  <1>20. CASE FinishValidation(th)
    BY <1>20, Zenon DEF FinishValidation, queues, Queued, Waiting
  <1>21. CASE SetAborted(th)
    BY <1>21, Zenon DEF SetAborted, queues, Queued, Waiting
  <1>22. ASSUME NEW dep \in Txns, WaitForDependency(th, dep)
         PROVE  Waiting(t)'
    BY <1>22, Zenon DEF WaitForDependency, queues, Queued, Waiting
  <1> QED
    BY <1>1, <1>2, <1>3, <1>4, <1>5, <1>6, <1>7, <1>8, <1>9, <1>10, <1>11, <1>12, <1>13, <1>14,
       <1>15, <1>16, <1>17, <1>18, <1>19, <1>20, <1>21, <1>22, SMTT(30) DEF Step, SchedulerStep,
       ExecutorStep

-----------------------------------------------------------------------------
(* What a worker has registered *)

\* A second look that fails leaves the transaction on the list of a hint that is
\* still to execute.
LEMMA RecheckLeavesListed ==
    ASSUME TypeInv, NEW th \in Threads, Registered(th), RecheckHint(th), ~HoldsStatus(th)',
           NEW t \in Txns, t = call[th].txn
    PROVE  Listed(t)'
  <1>a. TypeOK /\ Control(th) /\ pc \in [Threads -> Labels]
    BY Zenon DEF TypeInv, TypeOK
  <1>1. Hint(th) \in Txns
    BY <1>a, HintInRange, Zenon DEF RecheckHint, Control
  <1>2. critical_path_parent' = critical_path_parent /\ txn_status' = txn_status
    BY Zenon DEF RecheckHint
  <1>3. ~is_executed(Hint(th), TRUE)
    <2>1. CASE Goto(th, "dep")
      BY <1>a, <2>1, Zenon DEF Goto, HoldsStatus
    <2> QED
      BY <2>1, Zenon DEF RecheckHint
  <1>4. PICK d \in Txns : d = Hint(th)
    BY <1>1, Zenon
  <1>5. \E i \in 1 .. Len(critical_path_parent'[d]) : critical_path_parent'[d][i] = t
    BY <1>2, <1>4, Zenon DEF Registered, RecheckHint
  <1>6. is_executed(d, TRUE)' <=> is_executed(d, TRUE)
    BY <1>2, Zenon DEF is_executed
  <1>7. ~is_executed(d, TRUE)'
    BY <1>3, <1>4, <1>6, Zenon DEF is_executed
  <1> QED
    BY <1>5, <1>7, Zenon DEF Listed, is_executed

\* Every action preserves Registered.
LEMMA RegisteredStep ==
    ASSUME TypeInv, TypeInv', NEW th \in Threads, Step(th), NEW w \in Threads, Registered(w)
    PROVE  Registered(w)'
  <1>a. /\ TypeOK /\ Control(w) /\ Control(w)'
        /\ pc \in [Threads -> Labels] /\ call \in [Threads -> CallType]
        /\ iter \in [Threads -> IterType]
        /\ critical_path_parent \in [Txns -> Seq(Txns)]
    BY Zenon DEF TypeInv, TypeOK
  <1>b. /\ iter[w].txn \in Txns /\ iter[w].pos \in Nat \ {0} /\ iter[w].cnt \in Nat
        /\ iter[w].cnt <= Len(critical_path_parent[iter[w].txn])
        /\ Len(critical_path_parent[iter[w].txn]) \in Nat
        /\ call[w].txn \in Txns
    BY <1>a, LocalTypes, SharedTypes, Zenon DEF Control
  <1> DEFINE Target == /\ iter[w].pos <= iter[w].cnt
                       /\ critical_path_parent[iter[w].txn][iter[w].pos] = call[w].txn
             Pushed == \E i \in 1 .. Len(critical_path_parent[Hint(w)]) :
                           critical_path_parent[Hint(w)][i] = call[w].txn
  \* While call and iter stay, what is registered stays.
  <1>c. ASSUME Target, iter'[w] = iter[w], call'[w].txn = call[w].txn
        PROVE  Target'
    <2>1. iter[w].pos \in 1 .. Len(critical_path_parent[iter[w].txn])
      BY <1>b, <1>c, SMTT(30)
    <2>2. critical_path_parent'[iter[w].txn][iter[w].pos]
             = critical_path_parent[iter[w].txn][iter[w].pos]
      BY <1>b, <2>1, ListsGrow, Zenon
    <2> QED
      BY <1>c, <2>2, ZenonT(30)
  <1>d. ASSUME Pushed, call'[w] = call[w], pc[w] = "recheck"
        PROVE  Pushed'
    <2>1. Hint(w) \in Txns /\ Hint(w)' = Hint(w)
      BY <1>a, <1>d, HintInRange, Zenon DEF Control, Hint
    <2>2. PICK d \in Txns : d = Hint(w)
      BY <2>1, Zenon
    <2>3. PICK i \in 1 .. Len(critical_path_parent[d]) : critical_path_parent[d][i] = call[w].txn
      BY <1>d, <2>2, Zenon
    <2>4. /\ critical_path_parent'[d][i] = call[w].txn
          /\ Len(critical_path_parent[d]) <= Len(critical_path_parent'[d])
          /\ Len(critical_path_parent[d]) \in Nat /\ Len(critical_path_parent'[d]) \in Nat
      <3>1. critical_path_parent'[d] \in Seq(Txns) /\ critical_path_parent[d] \in Seq(Txns)
        BY Zenon DEF TypeInv, TypeOK
      <3> QED
        BY <2>3, <3>1, ListsGrow, SMTT(30)
    <2> QED
      BY <1>d, <2>1, <2>2, <2>4
  <1>1. CASE w # th
    <2>1. pc'[w] = pc[w] /\ call'[w] = call[w] /\ iter'[w] = iter[w]
      BY <1>1, Others, ZenonT(30)
    <2> QED
      BY <1>c, <1>d, <2>1, Zenon DEF Registered
  <1>2. CASE w = th
    <2>a. ASSUME ~Incarnating(w)'
          PROVE  Registered(w)'
      BY <1>a, <2>a, Zenon DEF Control, Incarnating, Registered
    <2>b. ASSUME NEW x, NEW c \in {"prio", "chan", "abort"}, Call(th, x, c)
          PROVE  Registered(w)'
      BY <1>a, <1>2, <2>b, Zenon DEF Call, Goto, NoCall, Registered
    <2>c. ASSUME Incarnating(th), IncarnateFails(th)
          PROVE  Registered(w)'
      <3>1. IncarnateReturns(th)
        BY <1>a, <1>2, <2>c, IncarnateReturn, Zenon
      <3> QED
        BY <1>a, <1>2, <2>a, <3>1, Zenon DEF IncarnateReturns, Incarnating
    <2>1. CASE RecvPrio(th)
      <3>1. CASE Goto(th, "chan")
        BY <1>a, <1>2, <2>a, <3>1, Zenon DEF Goto, Incarnating
      <3> QED
        BY <2>b, <2>1, <3>1, Zenon DEF RecvPrio
    <2>2. CASE RecvChan(th)
      <3>1. CASE Goto(th, NoExec(th))
        BY <1>a, <1>2, <2>a, <3>1, Zenon DEF Goto, Incarnating, NoExec, Top
      <3> QED
        BY <2>b, <2>2, <3>1, Zenon DEF RecvChan
    <2>3. CASE LockStatus(th)
      <3>1. CASE IncarnateFails(th)
        BY <2>c, <2>3, <3>1, Zenon DEF LockStatus, Incarnating
      <3>2. CASE /\ call' = [call EXCEPT ![th].dep = Len(HintGraph[call[th].txn])]
                 /\ Goto(th, "dep") /\ UNCHANGED iter
        <4>1. /\ pc'[w] = "dep" /\ call'[w].txn = call[w].txn /\ call'[w].caller = call[w].caller
              /\ iter'[w] = iter[w]
          BY <1>a, <1>2, <3>2, Zenon DEF Goto, CallType
        <4> QED
          BY <1>c, <4>1, Zenon DEF Registered
      <3> QED
        BY <2>3, <3>1, <3>2, Zenon DEF LockStatus
    <2>4. CASE CheckHint(th)
      <3>1. /\ pc'[w] # "recheck" /\ call'[w].txn = call[w].txn /\ call'[w].caller = call[w].caller
            /\ iter'[w] = iter[w]
        BY <1>a, <1>2, <2>4 DEF CheckHint, is_executed, Goto, CallType
      <3> QED
        BY <1>c, <3>1, Zenon DEF Registered
    <2>5. CASE PushHint(th)
      <3>1. call' = call /\ iter' = iter /\ Hint(w)' = Hint(w)
        BY <2>5, Zenon DEF PushHint, Hint
      <3>2. Hint(w) \in Txns
        BY <1>a, <1>2, <2>5, HintInRange, Zenon DEF PushHint, Control
      <3>3. Pushed'
        <4>1. PICK d \in Txns : d = Hint(w)
          BY <3>2, Zenon
        <4>2. critical_path_parent'[d] = Append(critical_path_parent[d], call[w].txn)
          BY <1>a, <1>2, <2>5, <4>1, Zenon DEF PushHint
        <4>3. \E i \in 1 .. Len(critical_path_parent'[d]) : critical_path_parent'[d][i] = call[w].txn
          <5> DEFINE n == Len(critical_path_parent[d]) + 1
          <5>1. critical_path_parent[d] \in Seq(Txns) /\ call[w].txn \in Txns
            BY <1>a, <1>b, Zenon
          <5>2. /\ n \in 1 .. Len(critical_path_parent'[d])
                /\ critical_path_parent'[d][n] = call[w].txn
            BY <4>2, <5>1
          <5> QED
            BY <5>2, Zenon
        <4> QED
          BY <3>1, <4>1, <4>3, Zenon
      <3> QED
        BY <1>c, <3>1, <3>3, Zenon DEF Registered
    <2>6. CASE RecheckHint(th)
      <3>1. CASE IncarnateFails(th)
        BY <2>c, <2>6, <3>1, Zenon DEF RecheckHint, Incarnating
      <3>2. CASE /\ call' = [call EXCEPT ![th].dep = @ - 1]
                 /\ Goto(th, "dep") /\ UNCHANGED iter
        <4>1. /\ pc'[w] = "dep" /\ call'[w].txn = call[w].txn /\ call'[w].caller = call[w].caller
              /\ iter'[w] = iter[w]
          BY <1>a, <1>2, <3>2, Zenon DEF Goto, CallType
        <4> QED
          BY <1>c, <4>1, Zenon DEF Registered
      <3> QED
        BY <2>6, <3>1, <3>2, Zenon DEF RecheckHint
    <2>7. CASE ReleaseChild(th)
      <3>1. CASE pc' = pc
        BY <1>2, <2>a, <2>7, <3>1, Zenon DEF ReleaseChild, Incarnating
      <3>2. CASE /\ Call(th, critical_path_parent[iter[th].txn][iter[th].pos], "finish")
                 /\ UNCHANGED iter
        <4>1. /\ call'[w].txn = critical_path_parent[iter[th].txn][iter[th].pos]
              /\ pc'[w] = "lock" /\ iter' = iter /\ critical_path_parent' = critical_path_parent
              /\ iter[w].pos <= iter[w].cnt
          BY <1>a, <1>2, <2>7, <3>2, Zenon DEF ReleaseChild, Call, Goto, NoCall
        <4> QED
          BY <1>2, <4>1, Zenon DEF Registered
      <3> QED
        BY <2>7, <3>1, <3>2, Zenon DEF ReleaseChild
    <2>8. CASE DecreaseValidationIdx(th)
      BY <2>b, <2>8, Zenon DEF DecreaseValidationIdx
    <2>9. CASE TryCommit(th)
      BY <1>a, <1>2, <2>a, <2>9, Zenon DEF TryCommit, Incarnating, AtTask, locals
    <2>10. CASE TryCommitNone(th)
      BY <1>a, <1>2, <2>a, <2>10, Zenon DEF TryCommitNone, Incarnating, AtTask, Goto
    <2>11. CASE Exit(th)
      BY <1>a, <1>2, <2>a, <2>11, Zenon DEF Exit, Incarnating, AtTask, Goto
    <2>12. CASE LoadValidationIdx(th)
      BY <1>a, <1>2, <2>a, <2>12, Zenon DEF LoadValidationIdx, Incarnating, AtTask, Goto, Top
    <2>13. CASE CheckExecuted(th)
      BY <1>a, <1>2, <2>a, <2>13, Zenon DEF CheckExecuted, Incarnating, AtTask, Goto, Top, is_executed
    <2>14. CASE FetchAddValidationIdx(th)
      BY <1>a, <1>2, <2>a, <2>14, Zenon DEF FetchAddValidationIdx, Incarnating, AtTask, Goto, Top
    <2>15. CASE Incarnate(th)
      BY <1>a, <1>2, <2>a, <2>15, Zenon DEF Incarnate, Incarnating, AtTask, Goto, Top
    <2>16. CASE CountChildren(th)
      BY <1>a, <1>2, <2>a, <2>16, Zenon DEF CountChildren, Incarnating, AtTask, Goto
    <2>17. CASE EndFinishExecution(th)
      BY <1>a, <1>2, <2>a, <2>17, Zenon DEF EndFinishExecution, Incarnating, AtTask, Goto, Top
    <2>18. CASE SetExecuted(th)
      BY <1>a, <1>2, <2>a, <2>18, Zenon DEF SetExecuted, Incarnating, AtTask, Goto
    <2>19. CASE TryAbort(th)
      BY <1>a, <1>2, <2>a, <2>19, Zenon DEF TryAbort, Incarnating, AtTask, Goto
    <2>20. CASE FinishValidation(th)
      BY <1>a, <1>2, <2>a, <2>20, Zenon DEF FinishValidation, Incarnating, AtTask, Goto, Top
    <2>21. CASE SetAborted(th)
      BY <1>a, <1>2, <2>a, <2>21, Zenon DEF SetAborted, Incarnating, AtTask, Goto
    <2>22. ASSUME NEW dep \in Txns, WaitForDependency(th, dep)
           PROVE  Registered(w)'
      BY <1>2, <2>a, <2>22, Zenon DEF WaitForDependency, Incarnating, AtTask, locals
    <2> QED
      BY SMTT(30), <2>1, <2>2, <2>3, <2>4, <2>5, <2>6, <2>7, <2>8, <2>9, <2>10, <2>11, <2>12, <2>13,
         <2>14, <2>15, <2>16, <2>17, <2>18, <2>19, <2>20, <2>21, <2>22 DEF Step, SchedulerStep,
         ExecutorStep
  <1> QED
    BY <1>1, <1>2, Zenon

-----------------------------------------------------------------------------
(* In hand and on a list *)

\* What is appended to a channel or a list is on it.
LEMMA AppendedIsThere ==
    ASSUME NEW q \in Seq(Txns), NEW x \in Txns
    PROVE  \E i \in 1 .. Len(Append(q, x)) : Append(q, x)[i] = x
  <1>1. Len(q) + 1 \in 1 .. Len(Append(q, x)) /\ Append(q, x)[Len(q) + 1] = x
    OBVIOUS
  <1> QED
    BY <1>1, Zenon

\* A ready transaction in the hands of a worker keeps waiting somewhere.
LEMMA InHandStep ==
    ASSUME TypeInv, StatusInv, NEW th \in Threads, Step(th), Registered(th),
           NEW t \in Txns, txn_status[t].st = "ReadyToExecute",
           txn_status'[t].st = "ReadyToExecute",
           NEW w \in Threads, InHand(w, t)
    PROVE  Waiting(t)'
  <1>a. /\ TypeOK /\ Control(th) /\ pc \in [Threads -> Labels] /\ call \in [Threads -> CallType]
        /\ task \in [Threads -> TaskType]
        /\ txn_status \in [Txns -> [st : StatusNames, inc : Nat]]
    BY Zenon DEF TypeInv, TypeOK
  <1>b. ASSUME Incarnating(th)', call'[th].txn = t
        PROVE  Waiting(t)'
    BY <1>b, Zenon DEF Waiting, InHand, Incarnating
  <1>1. CASE w # th
    <2>1. InHand(w, t)'
      BY <1>1, Others, Zenon DEF InHand
    <2> QED
      BY <2>1, Zenon DEF Waiting
  <1>2. CASE w = th /\ pc[th] = "decrease" /\ task[th].txn = t
    <2>1. DecreaseValidationIdx(th)
      BY <1>2, StepAt, Zenon
    <2>2. pc'[th] = "lock" /\ call'[th].txn = t
      BY <1>a, <1>2, <2>1, Zenon DEF DecreaseValidationIdx, Call, Goto, NoCall
    <2> QED
      BY <1>b, <2>2, Zenon DEF Incarnating
  <1>3. CASE w = th /\ Incarnating(th) /\ call[th].txn = t
    <2>1. CASE LockStatus(th)
      <3>1. /\ call' = [call EXCEPT ![th].dep = Len(HintGraph[call[th].txn])]
            /\ Goto(th, "dep")
        BY <1>3, <2>1, Zenon DEF LockStatus
      <3>2. pc'[th] = "dep" /\ call'[th].txn = t
        BY <1>a, <1>3, <3>1, ZenonT(30) DEF Goto, CallType
      <3> QED
        BY <1>b, <3>2, Zenon DEF Incarnating
    <2>2. CASE CheckHint(th)
      <3>1. pc'[th] \in {"dep", "push"} /\ call'[th].txn = t
        BY <1>a, <1>3, <2>2 DEF CheckHint, is_executed, Goto, CallType
      <3> QED
        BY <1>b, <3>1, Zenon DEF Incarnating
    <2>3. CASE PushHint(th)
      <3>1. pc'[th] = "recheck" /\ call'[th].txn = t
        BY <1>a, <1>3, <2>3, Zenon DEF PushHint, Goto
      <3> QED
        BY <1>b, <3>1, Zenon DEF Incarnating
    <2>4. CASE RecheckHint(th)
      <3>1. CASE HoldsStatus(th)'
        <4>1. call'[th].txn = t
          <5>1. CASE IncarnateFails(th)
            <6>1. IncarnateReturns(th)
              BY <1>a, <1>3, <5>1, IncarnateReturn, Zenon
            <6> QED
              BY <1>a, <3>1, <6>1, Zenon DEF IncarnateReturns, HoldsStatus
          <5>2. CASE call' = [call EXCEPT ![th].dep = @ - 1]
            BY <1>a, <1>3, <5>2, ZenonT(30) DEF CallType
          <5> QED
            BY <2>4, <5>1, <5>2, Zenon DEF RecheckHint
        <4> QED
          BY <1>b, <3>1, <4>1, Zenon DEF Incarnating, HoldsStatus
      <3>2. CASE ~HoldsStatus(th)'
        <4>1. Listed(t)'
          BY <1>3, <2>4, <3>2, RecheckLeavesListed, Zenon
        <4> QED
          BY <4>1, Zenon DEF Waiting
      <3> QED
        BY <3>1, <3>2, Zenon
    <2>5. CASE Incarnate(th)
      <3>1. txn_status'[t].st = "Executing"
        BY <1>a, <1>3, <2>5, Zenon DEF Incarnate, Status
      <3> QED
        BY <3>1, Zenon
    <2> QED
      BY <1>3, <2>1, <2>2, <2>3, <2>4, <2>5, StepAt, Zenon DEF Incarnating
  <1> QED
    BY <1>1, <1>2, <1>3, Zenon DEF InHand, Incarnating

\* A ready transaction on a list keeps waiting somewhere.
LEMMA ListedStep ==
    ASSUME TypeInv, StatusInv, TypeOK', NEW th \in Threads, Step(th), Registered(th),
           NEW t \in Txns, txn_status[t].st = "ReadyToExecute",
           txn_status'[t].st = "ReadyToExecute", Listed(t)
    PROVE  Waiting(t)'
  <1>a. /\ TypeOK /\ Control(th) /\ pc \in [Threads -> Labels] /\ call \in [Threads -> CallType]
        /\ iter \in [Threads -> IterType] /\ task \in [Threads -> TaskType]
        /\ txn_status \in [Txns -> [st : StatusNames, inc : Nat]]
    BY Zenon DEF TypeInv, TypeOK
  <1>h. PICK d \in Txns : \E i \in 1 .. Len(critical_path_parent[d]) :
            /\ critical_path_parent[d][i] = t
            /\ ~is_executed(d, TRUE) \/ \E w \in Threads : StillToRelease(w, d, i)
    BY Zenon DEF Listed
  <1>b. PICK i \in 1 .. Len(critical_path_parent[d]) :
            /\ critical_path_parent[d][i] = t
            /\ ~is_executed(d, TRUE) \/ \E w \in Threads : StillToRelease(w, d, i)
    BY <1>h, Zenon
  <1>c. i \in 1 .. Len(critical_path_parent'[d]) /\ critical_path_parent'[d][i] = t
    <2>1. critical_path_parent'[d] \in Seq(Txns) /\ critical_path_parent[d] \in Seq(Txns)
      BY <1>a, Zenon DEF TypeOK
    <2> QED
      BY <1>b, <2>1, ListsGrow
  <1>d. ASSUME ~is_executed(d, TRUE)' \/ \E w \in Threads : StillToRelease(w, d, i)'
        PROVE  Waiting(t)'
    BY <1>c, <1>d, Zenon DEF Waiting, Listed, is_executed
  <1>e. /\ iter[th].pos \in Nat /\ iter[th].cnt \in Nat /\ i \in Nat /\ i > 0
        /\ iter[th].txn \in Txns
    BY <1>a, LocalTypes
  <1>1. CASE ~is_executed(d, TRUE)
    <2>1. CASE Finishes(th) /\ task[th].txn = d
      BY <1>d, <2>1, Zenon DEF Finishes, StillToRelease
    <2>2. CASE ~(Finishes(th) /\ task[th].txn = d)
      <3>1. txn_status[d].st \notin {"Executed", "Committed"}
        BY <1>1, Zenon DEF is_executed
      <3>2. txn_status'[d].st \notin {"Executed", "Committed"}
        <4>1. \A w \in Threads : task[w].txn \in Txns /\ call[w].txn \in Txns
          BY <1>a, LocalTypes, Zenon
        <4>2. \A s, n : Status(s, n).st = s
          BY Zenon DEF Status
        <4>3. CASE Commits(th) \/ Quiet(th)
          BY <1>a, <3>1, <4>3, Zenon DEF Commits, Quiet, Sets
        <4>4. CASE Starts(th) \/ Restarts(th)
          <5>1. CASE Starts(th)
            <6>1. txn_status' = [txn_status EXCEPT ![call[th].txn] =
                                    Status("Executing", txn_status[call[th].txn].inc)]
              BY <5>1, Zenon DEF Starts, Sets
            <6> QED
              BY <1>a, <3>1, <4>1, <4>2, <6>1, SMTT(30)
          <5>2. CASE Restarts(th)
            <6>1. txn_status' = [txn_status EXCEPT ![task[th].txn] =
                                    Status("ReadyToExecute", task[th].inc + 1)]
              BY <5>2, Zenon DEF Restarts, Sets
            <6> QED
              BY <1>a, <3>1, <4>1, <4>2, <6>1, Zenon
          <5> QED
            BY <4>4, <5>1, <5>2, ZenonT(30)
        <4>5. CASE Finishes(th)
          BY <1>a, <2>2, <3>1, <4>1, <4>5, ZenonT(30) DEF Finishes, Sets
        <4>6. CASE Aborts(th)
          <5>1. CASE txn_status' = txn_status
            BY <3>1, <5>1, Zenon
          <5>2. CASE txn_status' # txn_status
            <6>1. Sets(task[th].txn, "Aborting", task[th].inc)
              BY <4>6, <5>2, Zenon DEF Aborts
            <6>2. Status("Aborting", task[th].inc).st = "Aborting"
              BY <4>2, Zenon
            <6> QED
              BY <1>a, <3>1, <4>1, <6>1, <6>2, ZenonT(30) DEF Sets
          <5> QED
            BY <5>1, <5>2, Zenon
        <4> QED
          BY <4>3, <4>4, <4>5, <4>6, StatusEffects, Zenon
      <3> QED
        BY <1>d, <3>2, Zenon DEF is_executed
    <2> QED
      BY <2>1, <2>2, Zenon
  <1>2. ASSUME NEW w \in Threads, w # th, StillToRelease(w, d, i)
        PROVE  Waiting(t)'
    BY <1>d, <1>2, Others, ZenonT(30) DEF StillToRelease

  <1>3. CASE StillToRelease(th, d, i) /\ pc[th] = "count"
    <2>1. CountChildren(th)
      BY <1>3, StepAt, Zenon
    <2>2. /\ iter'[th].txn = d /\ pc'[th] = "items" /\ iter'[th].pos = 1
          /\ iter'[th].cnt = Len(critical_path_parent[d])
      BY <1>a, <1>3, <2>1, ZenonT(30) DEF CountChildren, StillToRelease, Control, Goto, IterType
    <2>3. StillToRelease(th, d, i)'
      BY <1>b, <2>2, Zenon DEF StillToRelease
    <2> QED
      BY <1>d, <2>3, Zenon
  \* The loop moves past entry pos.
  <1>f. ASSUME StillToRelease(th, d, i), pc[th] # "count", i # iter[th].pos,
               iter' = [iter EXCEPT ![th].pos = @ + 1], pc'[th] = "items"
        PROVE  Waiting(t)'
    <2>1. /\ iter'[th].txn = d /\ iter'[th].pos = iter[th].pos + 1
          /\ iter'[th].cnt = iter[th].cnt
      BY <1>a, <1>f, ZenonT(30) DEF StillToRelease, IterType
    <2>2. StillToRelease(th, d, i)'
      BY <1>e, <1>f, <2>1, SMTT(30) DEF StillToRelease
    <2> QED
      BY <1>d, <2>2, Zenon
  <1>4. CASE StillToRelease(th, d, i) /\ pc[th] = "items"
    <2>a. i \in iter[th].pos .. iter[th].cnt /\ iter[th].txn = d
      BY <1>4, Zenon DEF StillToRelease
    <2>1. ReleaseChild(th)
      <3>1. ~EndFinishExecution(th)
        BY <1>e, <2>a, SMTT(30) DEF EndFinishExecution
      <3> QED
        BY <1>4, <3>1, StepAt, ZenonT(30)
    <2>2. CASE Call(th, critical_path_parent[iter[th].txn][iter[th].pos], "finish") /\ iter' = iter
      <3>1. call'[th].caller = "finish"
        BY <1>a, <2>2, Zenon DEF Call, NoCall
      <3>2. StillToRelease(th, d, i)'
        BY <2>a, <2>2, <3>1, Zenon DEF StillToRelease
      <3> QED
        BY <1>d, <3>2, Zenon
    <2>3. CASE /\ channels' = Append(channels, critical_path_parent[iter[th].txn][iter[th].pos])
               /\ iter' = [iter EXCEPT ![th].pos = @ + 1] /\ pc' = pc
      <3>1. CASE i = iter[th].pos
        <4>1. channels' = Append(channels, t) /\ channels \in Seq(Txns)
          BY <1>a, <1>b, <2>a, <2>3, <3>1, ZenonT(30) DEF TypeOK
        <4>2. Queued(t)'
          BY <4>1, AppendedIsThere, Zenon DEF Queued
        <4> QED
          BY <4>2, Zenon DEF Waiting
      <3>2. CASE i # iter[th].pos
        BY <1>4, <1>f, <2>3, <3>2, ZenonT(30)
      <3> QED
        BY <3>1, <3>2, Zenon
    <2>4. CASE /\ priochannels' =
                     Append(priochannels, critical_path_parent[iter[th].txn][iter[th].pos])
               /\ iter' = [iter EXCEPT ![th].pos = @ + 1] /\ pc' = pc
      <3>1. CASE i = iter[th].pos
        <4>1. priochannels' = Append(priochannels, t) /\ priochannels \in Seq(Txns)
          BY <1>a, <1>b, <2>a, <2>4, <3>1, ZenonT(30) DEF TypeOK
        <4>2. Queued(t)'
          BY <4>1, AppendedIsThere, ZenonT(30) DEF Queued
        <4> QED
          BY <4>2, Zenon DEF Waiting
      <3>2. CASE i # iter[th].pos
        BY <1>4, <1>f, <2>4, <3>2, Zenon
      <3> QED
        BY <3>1, <3>2, Zenon
    <2> QED
      BY <2>1, <2>2, <2>3, <2>4, Zenon DEF ReleaseChild
  <1>5. CASE StillToRelease(th, d, i) /\ call[th].caller = "finish"
    <2>a. /\ Incarnating(th)
          /\ i \in iter[th].pos .. iter[th].cnt /\ iter[th].txn = d
          /\ critical_path_parent[iter[th].txn][iter[th].pos] = call[th].txn
      BY <1>a, <1>5, Zenon DEF StillToRelease, Control, Incarnating, Registered
    \* Its own entry is in its hands.
    <2>1. CASE i = iter[th].pos
      <3>1. InHand(th, t)
        BY <1>b, <2>1, <2>a, Zenon DEF InHand, Incarnating
      <3> QED
        BY <3>1, InHandStep, Zenon
    <2>2. CASE i # iter[th].pos
      <3>a. ASSUME call'[th].caller = "finish", iter' = iter
            PROVE  Waiting(t)'
        <4>1. StillToRelease(th, d, i)'
          BY <2>a, <3>a, Zenon DEF StillToRelease
        <4> QED
          BY <1>d, <4>1, Zenon
      <3>b. ASSUME IncarnateFails(th)
            PROVE  Waiting(t)'
        <4>1. IncarnateReturns(th)
          BY <1>a, <2>a, <3>b, IncarnateReturn, Zenon
        <4>2. iter' = [iter EXCEPT ![th].pos = @ + 1] /\ pc'[th] = "items"
          BY <1>a, <1>5, <4>1, Zenon DEF IncarnateReturns
        <4> QED
          BY <1>5, <1>f, <2>2, <2>a, <4>2, Zenon DEF Incarnating
      <3>1. CASE LockStatus(th)
        <4>1. CASE call' = [call EXCEPT ![th].dep = Len(HintGraph[call[th].txn])] /\ iter' = iter
          BY <1>a, <1>5, <3>a, <4>1, Zenon DEF CallType
        <4> QED
          BY <3>1, <3>b, <4>1, Zenon DEF LockStatus
      <3>2. CASE CheckHint(th) \/ PushHint(th)
        BY <1>a, <1>5, <3>2, <3>a, ZenonT(30) DEF CheckHint, PushHint, is_executed, CallType
      <3>3. CASE RecheckHint(th)
        <4>1. CASE call' = [call EXCEPT ![th].dep = @ - 1] /\ iter' = iter
          BY <1>a, <1>5, <3>a, <4>1, ZenonT(30) DEF CallType
        <4> QED
          BY <3>3, <3>b, <4>1, Zenon DEF RecheckHint
      <3>4. CASE Incarnate(th)
        <4>1. iter' = [iter EXCEPT ![th].pos = @ + 1] /\ pc'[th] = "items"
          BY <1>a, <1>5, <3>4, Zenon DEF Incarnate, Goto
        <4> QED
          BY <1>5, <1>f, <2>2, <2>a, <4>1, Zenon DEF Incarnating
      <3> QED
        BY <2>a, <3>1, <3>2, <3>3, <3>4, StepAt, ZenonT(30) DEF Incarnating
    <2> QED
      BY <2>1, <2>2, Zenon
  <1> QED
    BY <1>1, <1>2, <1>3, <1>4, <1>5, <1>b, Zenon DEF StillToRelease

-----------------------------------------------------------------------------
(* The theorem *)

\* Scheduler::new chooses as parent one of the hints, or the marker.
LEMMA ParentInRange ==
    ASSUME NEW t \in Txns, parent(t) # NoParent
    PROVE  parent(t) \in Txns
  <1> DEFINE cost(i) == path_cost[t][HintGraph[t][i]]
             Best == {i \in 1 .. Len(HintGraph[t]) :
                        /\ cost(i) > 0
                        /\ \A j \in 1 .. Len(HintGraph[t]) : cost(j) <= cost(i)
                        /\ \A j \in 1 .. (i - 1) : cost(j) < cost(i)}
  <1>1. Best \subseteq 1 .. Len(HintGraph[t])
    BY Zenon
  <1>2. parent(t) = IF Best = {} THEN NoParent ELSE HintGraph[t][CHOOSE i \in Best : TRUE]
    BY Zenon DEF parent, SlowestParent
  <1> HIDE DEF Best
  <1>3. (CHOOSE i \in Best : TRUE) \in 1 .. Len(HintGraph[t])
    BY <1>1, <1>2, Zenon
  <1> QED
    BY <1>2, <1>3, Constants, SMTT(30)

\* Initially every transaction is in a channel or on the list of its parent.
LEMMA InitWaiting ==
    ASSUME Init, NEW t \in Txns
    PROVE  Waiting(t)
  <1>a. TypeOK
    BY InitTypeInv, Zenon DEF TypeInv
  <1>b. ASSUME NEW S \in SUBSET Txns, NEW s \in Ascending(S), t \in S
        PROVE  \E i \in 1 .. Len(s) : s[i] = t
    BY <1>b, Zenon DEF Ascending
  <1>1. CASE t \in send_vec
    <2>1. CASE children(t) = {}
      <3> DEFINE S == {u \in send_vec : children(u) = {}}
      <3>1. S \in SUBSET Txns /\ channels \in Ascending(S) /\ t \in S
        BY <1>1, <2>1, Zenon DEF Init, send_vec
      <3> QED
        BY <1>b, <3>1, Zenon DEF Waiting, Queued
    <2>2. CASE children(t) # {}
      <3> DEFINE S == {u \in send_vec : children(u) # {}}
      <3>1. S \in SUBSET Txns /\ priochannels \in Ascending(S) /\ t \in S
        BY <1>1, <2>2, Zenon DEF Init, send_vec
      <3> QED
        BY <1>b, <3>1, Zenon DEF Waiting, Queued
    <2> QED
      BY <2>1, <2>2, Zenon
  <1>2. CASE t \notin send_vec
    <2> DEFINE p == parent(t)
    <2>1. p \in Txns /\ p # NoParent
      BY <1>2, ParentInRange, Zenon DEF send_vec
    <2>2. assigned(p) \in SUBSET Txns /\ t \in assigned(p)
      BY <2>1, Zenon DEF assigned
    <2>3. critical_path_parent[p] \in Ascending(assigned(p))
      BY <2>1, Zenon DEF Init
    <2> HIDE DEF p
    <2>4. \E i \in 1 .. Len(critical_path_parent[p]) : critical_path_parent[p][i] = t
      BY <1>b, <2>2, <2>3, Zenon
    <2>5. ~is_executed(p, TRUE)
      BY <2>1, Zenon DEF Init, Status, is_executed
    <2> QED
      BY <2>1, <2>4, <2>5, Zenon DEF Waiting, Listed, is_executed
  <1> QED
    BY <1>1, <1>2, Zenon

WakeupSafety == SafetyInv /\ WakeupInv

\* No wake-up is lost when Scheduler::new returns.
LEMMA InitWakeup == Init => WakeupSafety
  <1> SUFFICES ASSUME Init PROVE WakeupSafety
    BY Zenon
  <1>1. SafetyInv
    BY InitSafetyInv, Zenon
  <1>2. NoLostWakeup
    BY InitWaiting, WaitingIsEnough, Zenon
  <1>3. \A th \in Threads : Registered(th)
    BY Zenon DEF Init, Registered, NoCall
  <1> QED
    BY <1>1, <1>2, <1>3, Zenon DEF WakeupSafety, WakeupInv

\* Every step of a worker preserves the wake-up invariant.
LEMMA WakeupStep == WakeupSafety /\ [Next]_vars => WakeupSafety'
  <1> SUFFICES ASSUME WakeupSafety, [Next]_vars PROVE WakeupSafety'
    BY Zenon
  <1>a. /\ SafetyInv /\ TypeInv /\ StatusInv /\ TypeOK /\ NoLostWakeup
        /\ \A th \in Threads : Registered(th)
    BY Zenon DEF WakeupSafety, WakeupInv, SafetyInv, TypeInv
  <1>b. SafetyInv' /\ TypeInv' /\ TypeOK'
    <2>1. SafetyInv'
      BY <1>a, SafetyInvStep, Zenon
    <2> QED
      BY <2>1, Zenon DEF SafetyInv, TypeInv
  <1>1. ASSUME NEW th \in Threads, Step(th)
        PROVE  WakeupInv'
    <2>1. ASSUME NEW t \in Txns, txn_status'[t].st = "ReadyToExecute"
          PROVE  Waiting(t)'
      <3>1. CASE txn_status[t].st = "ReadyToExecute"
        <4>1. Queued(t) \/ (\E w \in Threads : InHand(w, t)) \/ Listed(t)
          BY <1>a, <3>1, WaitingIsEnough, Zenon DEF Waiting
        <4>2. CASE Queued(t)
          BY <1>a, <1>1, <4>2, QueuedStep, Zenon
        <4>3. ASSUME NEW w \in Threads, InHand(w, t)
              PROVE  Waiting(t)'
          BY <1>a, <1>1, <2>1, <3>1, <4>3, InHandStep, Zenon
        <4>4. CASE Listed(t)
          BY <1>a, <1>b, <1>1, <2>1, <3>1, <4>4, ListedStep, Zenon
        <4> QED
          BY <4>1, <4>2, <4>3, <4>4, Zenon
      <3>2. CASE txn_status[t].st # "ReadyToExecute"
        <4>a. /\ txn_status \in [Txns -> [st : StatusNames, inc : Nat]]
              /\ task[th].txn \in Txns /\ call[th].txn \in Txns
          BY <1>a, LocalTypes, Zenon DEF TypeOK
        <4>b. \A s, n : Status(s, n).st = s
          BY Zenon DEF Status
        <4>1. CASE Restarts(th) /\ t = task[th].txn
          BY <4>1, Zenon DEF Restarts, Waiting, InHand
        <4>2. CASE Restarts(th) /\ t # task[th].txn
          BY <2>1, <3>2, <4>a, <4>2, ZenonT(30) DEF Restarts, Sets
        <4>3. CASE Commits(th) \/ Starts(th)
          BY <2>1, <3>2, <4>a, <4>b, <4>3, SMTT(30) DEF Commits, Starts, Sets
        <4>4. CASE Finishes(th) \/ Quiet(th)
          BY <2>1, <3>2, <4>a, <4>b, <4>4, SMTT(30) DEF Finishes, Quiet, Sets
        <4>5. CASE Aborts(th)
          <5>1. Sets(task[th].txn, "Aborting", task[th].inc)
            BY <2>1, <3>2, <4>5, ZenonT(30) DEF Aborts
          <5>2. Status("Aborting", task[th].inc).st = "Aborting"
            BY <4>b, Zenon
          <5> QED
            BY <2>1, <3>2, <4>a, <5>1, <5>2, Zenon DEF Sets
        <4> QED
          BY <1>a, <1>1, <4>1, <4>2, <4>3, <4>4, <4>5, StatusEffects, Zenon
      <3> QED
        BY <3>1, <3>2, Zenon
    <2>2. NoLostWakeup'
      BY <2>1, Zenon DEF NoLostWakeup, Waiting, Queued, Listed
    <2>3. \A w \in Threads : Registered(w)'
      BY <1>a, <1>b, <1>1, RegisteredStep, Zenon
    <2> QED
      BY <2>2, <2>3, Zenon DEF WakeupInv
  <1>2. CASE UNCHANGED vars
    <2>1. /\ txn_status' = txn_status /\ channels' = channels
          /\ priochannels' = priochannels /\ pc' = pc /\ task' = task
          /\ critical_path_parent' = critical_path_parent
          /\ call' = call /\ iter' = iter
      BY <1>2, Zenon DEF vars, queues, locals
    <2>2. \A t \in Txns, th \in Threads : InHand(th, t)' <=> InHand(th, t)
      BY <2>1, Zenon DEF InHand
    <2>3. \A d, th, i : StillToRelease(th, d, i)' <=> StillToRelease(th, d, i)
      BY <2>1, Zenon DEF StillToRelease
    <2>4. \A d \in Txns : is_executed(d, TRUE)' <=> is_executed(d, TRUE)
      BY <2>1, Zenon DEF is_executed
    <2>5. NoLostWakeup'
      BY <1>a, <2>1, <2>2, <2>3, <2>4, Zenon DEF NoLostWakeup
    <2>6. \A th \in Threads : Registered(th)'
      BY <1>a, <2>1, Zenon DEF Registered, Hint
    <2> QED
      BY <1>b, <2>5, <2>6, Zenon DEF WakeupInv, WakeupSafety
  <1> QED
    BY <1>b, <1>1, <1>2, Zenon DEF Next, Step, Joined, WakeupSafety

\* A transaction that is ready to execute is never forgotten, for any hints, gas
\* estimates and value of the "no parent" marker of Scheduler::new (a block with
\* more transactions than the marker included): it is in a channel, in the hands
\* of a worker, or on the list of a transaction that is still to release it.
THEOREM WakeupsAreKept == Spec => []NoLostWakeup
  <1>1. WakeupSafety => NoLostWakeup
    BY Zenon DEF WakeupSafety, WakeupInv
  <1> QED
    BY <1>1, InitWakeup, WakeupStep, PTL DEF Spec

=============================================================================
