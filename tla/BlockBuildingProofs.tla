-------------------------- MODULE BlockBuildingProofs --------------------------
(****************************************************************************)
(* What DependencyFiller promises the scheduler, for every workload, number *)
(* of cores and limit: its hints point back, a transaction that waits for   *)
(* its hints waits for every earlier writer, and the block fits its budget. *)
(* And what the loop around it promises the senders: their transactions go  *)
(* into blocks in sequence, each of them once.                              *)
(****************************************************************************)
EXTENDS BlockBuilding, FiniteSetTheorems, TLAPS

LEMMA DivType == \A a \in Nat, b \in Nat \ {0} : a \div b \in Nat
    BY SMT

LEMMA TimesType == \A a \in Nat, b \in Nat : a * b \in Nat
    BY SMT

LEMMA PerCoreType == MaxGas \div Cores \in Nat /\ total_max_gas \in Nat
  <1>1. MaxGas \div Cores \in Nat
    BY DivType, FillerAssumption, Zenon
  <1>2. Cores \in Nat
    BY FillerAssumption, Zenon
  <1> QED
    BY <1>1, <1>2, TimesType, Zenon DEF total_max_gas

LEMMA GasUsedType == ASSUME TypeOK, NEW t \in Txns PROVE gas_used(t) \in Nat
  <1>1. profile[t].gas \in Nat
    BY SMT DEF TypeOK, AddAllType, Profile
  <1> QED
    BY <1>1, SMT DEF gas_used, U16

----------------------------------------------------------------------------
\* The inductive invariant.

\* last_touched names a transaction of the block that ends at the time it gives...
TouchedIsReal ==
    \A k \in RawKeys : last_touched[k].time > 0 =>
        /\ last_touched[k].idx \in 0 .. Len(block) - 1
        /\ finish_time[last_touched[k].idx + 1] = last_touched[k].time

\* ... and no transaction of the block that touches the key ends later.
TouchedIsLast ==
    \A k \in RawKeys : \A j \in 1 .. Len(block) :
        k \in Touches(block[j]) => finish_time[j] <= last_touched[k].time

LimitKept == relaxed = 0 => gas_per_core = MaxGas \div Cores

\* What the invariant says of the block and of the hints found so far.
BlockInv == TouchedIsReal /\ TouchedIsLast /\ HintsPointBack /\ StartsAfterWriters

----------------------------------------------------------------------------
\* Types.

LEMMA NewFillerFacts ==
    /\ MaxGas \div Cores \in Nat
    /\ NoTouch \in [RawKeys -> [time : Nat, idx : Nat]]
    /\ <<>> \in Seq(Txns) /\ <<>> \in Seq(SUBSET Nat) /\ <<>> \in Seq(Nat)
    /\ 0 \in Nat /\ FALSE \in BOOLEAN
  <1>1. NoTouch \in [RawKeys -> [time : Nat, idx : Nat]]
    BY SMT DEF NoTouch
  <1>2. <<>> \in Seq(Txns) /\ <<>> \in Seq(SUBSET Nat) /\ <<>> \in Seq(Nat) /\ 0 \in Nat
    BY SMT
  <1> QED
    BY <1>1, <1>2, PerCoreType, Zenon

LEMMA InitType == Init => TypeOK
  <1> SUFFICES ASSUME Init PROVE TypeOK
    OBVIOUS
  <1>1. FillerType
    BY NewFillerFacts, Zenon DEF Init, NewFiller, FillerType
  <1>2. profile \in [Txns -> Profile]
    BY BuildingAssumption, Zenon DEF Init
  <1>3. /\ result \in Seq(Txns) /\ return_vec \in Seq(Txns) /\ non_user_skip \in Nat
        /\ relaxed \in Nat /\ prev_filler_state \in Nat /\ startlen \in Nat
        /\ proposed \in Seq(Txns) /\ first_iter_tx \in Int /\ total_tx \in Int
    BY SMT DEF Init, NewFiller
  <1>4. AddAllType
    BY <1>2, <1>3, Zenon DEF AddAllType, Init, NewFiller
  <1>5. index \in 0 .. NumBatches /\ index \in Batches
    BY BuildingAssumption, SMT DEF Init, Batches
  <1>6. txns \in [Batches -> Seq(Txns)] /\ full_block_skip \in [Batches -> BOOLEAN]
    BY BuildingAssumption, Zenon DEF Init
  <1>7. DriverType
    BY <1>3, <1>5, <1>6, Zenon DEF DriverType, Init
  <1> QED
    BY <1>1, <1>4, <1>7 DEF TypeOK

\* Counting goes on or is the end.
LEMMA CountPc ==
    ASSUME NEW n, NEW next, Count(n, next)
    PROVE  pc' \in {next, "panic"}
  BY Zenon DEF Count

LEMMA CountType ==
    ASSUME TypeOK, NEW n \in Int, NEW next, Count(n, next)
    PROVE  first_iter_tx' \in Int
  BY SMT DEF Count, TypeOK, DriverType

\* Where the loop goes after a batch that is skipped or empty.
LEMMA BatchGoesOn ==
    ASSUME TypeOK, SkipBatch \/ EmptyBatch
    PROVE  /\ pc' \in {"batch", "done", "panic"}
           /\ index' = index \/ index' = index + 1
           /\ pc' = "batch" => index' = index + 1 /\ ~(index + 1 >= NumBatches)
  <1>1. index \in Batches
    BY Zenon DEF SkipBatch, EmptyBatch, TypeOK, DriverType
  <1>2. CASE SkipBatch
    <2>1. pc' \in {IF index + 2 >= NumBatches THEN "done" ELSE "batch", "panic"}
      BY <1>2, CountPc, Zenon DEF SkipBatch
    <2>2. index' = index + 1
      BY <1>2, Zenon DEF SkipBatch
    <2>3. index + 1 >= NumBatches => index + 2 >= NumBatches
      BY <1>1, BuildingAssumption, SMT DEF Batches
    <2> QED
      BY <2>1, <2>2, <2>3, Zenon
  <1>3. CASE EmptyBatch
    <2>1. CASE Count(BatchSize, "done") /\ index' = index
      <3>1. pc' = "done" \/ pc' = "panic"
        BY <2>1, CountPc, Zenon
      <3> QED
        BY <2>1, <3>1, SMT
    <2>2. CASE index + 1 < NumBatches /\ Count(BatchSize, "batch") /\ index' = index + 1
      <3>1. ~(index + 1 >= NumBatches)
        BY <1>1, <2>2, BuildingAssumption, SMT DEF Batches
      <3> QED
        BY <2>2, <3>1, CountPc, Zenon
    <2> QED
      BY <1>3, <2>1, <2>2, Zenon DEF EmptyBatch
  <1> QED
    BY <1>2, <1>3

LEMMA BatchType ==
    ASSUME TypeOK, SkipBatch \/ EmptyBatch
    PROVE  TypeOK'
  <1>1. UNCHANGED <<input, filler, result, return_vec, non_user_skip, txns,
                    full_block_skip, is_first, relaxed, prev_filler_state, startlen,
                    total_tx, proposed>>
    BY Zenon DEF SkipBatch, EmptyBatch
  <1>2. index \in Batches
    BY Zenon DEF SkipBatch, EmptyBatch, TypeOK, DriverType
  <1>3. skipped_users' \subseteq Senders
    <2>1. CASE SkipBatch
      <3>1. txns[index] \in Seq(Txns)
        BY <1>2, Zenon DEF TypeOK, DriverType
      <3>2. UsersOf(txns[index]) \subseteq Senders
        BY <3>1, SMT DEF UsersOf, Senders
      <3> QED
        BY <2>1, <3>2, Zenon DEF SkipBatch, TypeOK, AddAllType
    <2>2. CASE EmptyBatch
      BY <2>2, Zenon DEF EmptyBatch, TypeOK, AddAllType
    <2> QED
      BY <2>1, <2>2
  <1>4. first_iter_tx' \in Int
    <2>1. txns[index] \in Seq(Txns)
      BY <1>2, Zenon DEF TypeOK, DriverType
    <2>2. BatchSize - Len(txns[index]) \in Int /\ BatchSize \in Int
      BY <2>1, BuildingAssumption, SMT
    <2> QED
      BY <2>2, CountType, Zenon DEF SkipBatch, EmptyBatch
  <1>5. index' \in 0 .. NumBatches /\ (pc' = "batch" => index' \in Batches)
    BY <1>2, BatchGoesOn, BuildingAssumption, SMT DEF Batches
  <1>6. pc' \in {"batch", "done", "panic"}
    BY BatchGoesOn, Zenon
  <1>7. FillerType'
    BY <1>1, Zenon DEF TypeOK, FillerType, filler
  <1>8. AddAllType'
    BY <1>1, <1>3, Zenon DEF TypeOK, AddAllType, input
  <1>9. DriverType'
    BY <1>1, <1>4, <1>5, <1>6, Zenon DEF TypeOK, DriverType
  <1> QED
    BY <1>7, <1>8, <1>9 DEF TypeOK

LEMMA CallType ==
    ASSUME TypeOK, CallAddAll
    PROVE  TypeOK'
  <1>1. index \in Batches
    BY Zenon DEF CallAddAll, TypeOK, DriverType
  <1>2. txns[index] \in Seq(Txns)
    BY <1>1, Zenon DEF TypeOK, DriverType
  <1>3. txns' \in [Batches -> Seq(Txns)]
    BY <1>1, SMT DEF CallAddAll, TypeOK, DriverType
  <1>4. /\ startlen' \in Nat /\ result' \in Seq(Txns) /\ return_vec' \in Seq(Txns)
        /\ non_user_skip' \in Nat
    BY <1>2, SMT DEF CallAddAll
  <1>5. FillerType'
    BY Zenon DEF CallAddAll, TypeOK, FillerType, filler
  <1>6. AddAllType'
    BY <1>4, Zenon DEF CallAddAll, TypeOK, AddAllType, input
  <1>7. DriverType'
    BY <1>1, <1>3, <1>4, Zenon DEF CallAddAll, TypeOK, DriverType
  <1> QED
    BY <1>5, <1>6, <1>7 DEF TypeOK

\* What add_all is at: the next transaction, and the rest of its input.
LEMMA HeadTail ==
    ASSUME TypeOK, result # <<>>
    PROVE  Head(result) \in Txns /\ Tail(result) \in Seq(Txns)
    BY SMT DEF TypeOK, AddAllType

LEMMA SenderType == \A t \in Txns : Sender[t] \in Senders /\ Sender[t] \in RawKeys
    BY Zenon DEF Senders, RawKeys

\* The ways of giving a transaction back.
Returns(t) ==
    /\ return_vec' = Append(return_vec, t)
    /\ skipped_users' \in {skipped_users, skipped_users \cup {Sender[t]}}
    /\ non_user_skip' \in {non_user_skip, non_user_skip + 1}
    /\ full' \in {full, TRUE}
    /\ UNCHANGED <<gas_per_core, total_estimated_gas, block, dependency_graph,
                   estimated_gas, finish_time, last_touched>>

LEMMA AddAllKinds ==
    ASSUME TypeOK, AddAll
    PROVE  /\ result # <<>>
           /\ result' = Tail(result)
           /\ UNCHANGED <<profile, good_block>>
           /\ UNCHANGED driver
           /\ \/ Returns(Head(result))
              \/ \E a : Include(Head(result), a)
  <1>1. /\ result # <<>>
        /\ result' = Tail(result)
        /\ UNCHANGED <<profile, good_block>>
        /\ UNCHANGED driver
    BY Zenon DEF AddAll, AddNext, input
  <1> DEFINE t == Head(result)
  <1>2. CASE ReturnWhenFull(t) \/ ReturnOfSkippedUser(t)
    BY <1>1, <1>2, Zenon DEF ReturnWhenFull, ReturnOfSkippedUser, GiveBack, Returns, filler
  <1>3. CASE ReturnTooHot(t) \/ \E a : ReturnTooLong(t, a)
    <2>1. SkipUser(t)
      BY <1>3, Zenon DEF ReturnTooHot, ReturnTooLong
    <2> QED
      BY <1>1, <2>1, Zenon DEF SkipUser, GiveBack, Returns, filler
  <1>4. CASE \E a : ReturnNoGas(t, a)
    BY <1>1, <1>4, Zenon DEF ReturnNoGas, GiveBack, Returns
  <1>5. CASE \E a : Include(t, a)
    BY <1>1, <1>5, Zenon
  <1> QED
    BY <1>1, <1>2, <1>3, <1>4, <1>5, Zenon DEF AddAll, AddNext

LEMMA ReturnsType ==
    ASSUME TypeOK, NEW t \in Txns, Returns(t), Tail(result) \in Seq(Txns),
           result' = Tail(result), UNCHANGED <<profile, good_block>>, UNCHANGED driver
    PROVE  TypeOK'
  <1>1. return_vec' \in Seq(Txns)
    BY SMT DEF Returns, TypeOK, AddAllType
  <1>2. skipped_users' \subseteq Senders
    <2>1. Sender[t] \in Senders /\ skipped_users \subseteq Senders
      BY SenderType, Zenon DEF TypeOK, AddAllType
    <2>2. \/ skipped_users' = skipped_users
          \/ skipped_users' = skipped_users \cup {Sender[t]}
      BY Zenon DEF Returns
    <2> QED
      BY <2>1, <2>2, Zenon
  <1>3. non_user_skip' \in Nat
    <2>1. non_user_skip \in Nat /\ non_user_skip + 1 \in Nat
      BY SMT DEF TypeOK, AddAllType
    <2> QED
      BY <2>1, Zenon DEF Returns
  <1>4. AddAllType'
    BY <1>1, <1>2, <1>3, Zenon DEF TypeOK, AddAllType
  <1>5. FillerType'
    BY Zenon DEF Returns, TypeOK, FillerType
  <1>6. DriverType'
    BY Zenon DEF driver, TypeOK, DriverType
  <1> QED
    BY <1>4, <1>5, <1>6 DEF TypeOK

\* What a transaction reads has been written at a time and by a transaction of last_touched.
LEMMA TouchedType ==
    ASSUME TypeOK, NEW t \in Txns
    PROVE  /\ Touched(t) \subseteq RawKeys
           /\ Touches(t) \subseteq RawKeys
           /\ profile[t].reads \subseteq Keys
           /\ \A k \in RawKeys : /\ last_touched[k].time \in Nat
                                 /\ last_touched[k].idx \in Nat
  <1>1. profile[t].reads \subseteq Keys /\ profile[t].writes \subseteq Keys
    BY SMT DEF TypeOK, AddAllType, Profile
  <1>2. \A k \in RawKeys : last_touched[k].time \in Nat /\ last_touched[k].idx \in Nat
    BY SMT DEF TypeOK, FillerType
  <1>3. Touched(t) \subseteq RawKeys
    BY <1>1, SenderType, Zenon DEF Touched, RawKeys
  <1> QED
    BY <1>1, <1>2, <1>3, SenderType, Zenon DEF Touches, RawKeys

LEMMA ArrivesType ==
    ASSUME TypeOK, NEW t \in Txns, NEW a, Arrives(t, a)
    PROVE  a \in Nat
  <1>1. Touched(t) \subseteq RawKeys
    BY TouchedType, Zenon
  <1>2. \A k \in Touched(t) : last_touched[k].time \in Nat
    BY <1>1, TouchedType, Zenon
  <1> QED
    BY <1>2, SMT DEF Arrives

LEMMA IncludeType ==
    ASSUME TypeOK, NEW t \in Txns, NEW a, Include(t, a), Tail(result) \in Seq(Txns),
           result' = Tail(result), UNCHANGED <<profile, good_block>>, UNCHANGED driver
    PROVE  TypeOK'
  <1>1. a \in Nat /\ gas_used(t) \in Nat
    BY ArrivesType, GasUsedType, Zenon DEF Include, Considered
  <1> DEFINE u == gas_used(t)
             f == a + gas_used(t)
             D == dependencies(t)
  <1>2. f \in Nat
    BY <1>1, SMT
  <1>3. D \in SUBSET Nat
    BY TouchedType, Zenon DEF dependencies
  <1>4. /\ total_estimated_gas' = total_estimated_gas + u
        /\ estimated_gas' = Append(estimated_gas, u)
        /\ dependency_graph' = Append(dependency_graph, D)
        /\ block' = Append(block, t)
        /\ finish_time' = Append(finish_time, f)
    BY Zenon DEF Include, Push
  <1>5. u \in Nat
    BY <1>1
  <1>6. /\ total_estimated_gas' \in Nat
        /\ estimated_gas' \in Seq(Nat)
        /\ dependency_graph' \in Seq(SUBSET Nat)
        /\ block' \in Seq(Txns)
        /\ finish_time' \in Seq(Nat)
        /\ Len(dependency_graph') = Len(block')
        /\ Len(estimated_gas') = Len(block')
        /\ Len(finish_time') = Len(block')
    <2> HIDE DEF u, f, D
    <2> QED
      BY <1>2, <1>3, <1>4, <1>5, SMT DEF TypeOK, FillerType
  <1>7. last_touched' \in [RawKeys -> [time : Nat, idx : Nat]]
    <2>1. Len(block) \in Nat
      BY SMT DEF TypeOK, FillerType
    <2>2. last_touched' = TouchedAfter(t, Len(block), f)
      BY Zenon DEF Include
    <2> HIDE DEF f
    <2> QED
      BY <1>2, <2>1, <2>2, SMT DEF TouchedAfter, TypeOK, FillerType
  <1>8. FillerType'
    <2>1. full' \in BOOLEAN
      <3>1. full' = (Len(block) + 1 >= MaxTxns)
        BY Zenon DEF Include, Push
      <3> QED
        BY <3>1, SMT
    <2>2. gas_per_core' \in Nat
      BY Zenon DEF Include, TypeOK, FillerType
    <2> QED
      BY <1>6, <1>7, <2>1, <2>2, Zenon DEF FillerType
  <1>9. AddAllType'
    BY Zenon DEF Include, TypeOK, AddAllType
  <1>10. DriverType'
    BY Zenon DEF driver, TypeOK, DriverType
  <1> QED
    BY <1>8, <1>9, <1>10 DEF TypeOK

LEMMA AddAllStepType == ASSUME TypeOK, AddAll PROVE TypeOK'
  <1> DEFINE t == Head(result)
  <1>1. /\ result # <<>> /\ result' = Tail(result)
        /\ UNCHANGED <<profile, good_block>> /\ UNCHANGED driver
        /\ Returns(t) \/ \E a : Include(t, a)
    BY AddAllKinds, Zenon
  <1>2. t \in Txns /\ Tail(result) \in Seq(Txns)
    BY <1>1, HeadTail, Zenon
  <1> HIDE DEF t
  <1> QED
    BY <1>1, <1>2, ReturnsType, IncludeType, Zenon

\* Where the loop goes after add_all.
LEMMA EndBatchGoesOn ==
    ASSUME EndBatch
    PROVE  \/ pc' \in {"done", "panic"} /\ index' = index
           \/ /\ pc' \in {"batch", "panic"} /\ index' = index + 1
              /\ ~(index + 1 >= NumBatches)
  <1>1. pc' \in {IF LastTurn(relaxed') THEN "done" ELSE "batch", "panic"}
    BY CountPc, Zenon DEF EndBatch
  <1>2. index' = IF LastTurn(relaxed') THEN index ELSE index + 1
    BY Zenon DEF EndBatch
  <1>3. ~LastTurn(relaxed') => ~(index + 1 >= NumBatches)
    BY Zenon DEF LastTurn
  <1> QED
    BY <1>1, <1>2, <1>3, Zenon

LEMMA EndBatchType == ASSUME TypeOK, EndBatch PROVE TypeOK'
  <1>1. index \in Batches
    BY Zenon DEF EndBatch, TypeOK, DriverType
  <1>2. txns' \in [Batches -> Seq(Txns)]
    BY <1>1, Zenon DEF EndBatch, TypeOK, DriverType, AddAllType
  <1>3. full_block_skip' \in [Batches -> BOOLEAN]
    BY <1>1, Zenon DEF EndBatch, TypeOK, DriverType
  <1>4. prev_filler_state' \in Nat /\ return_vec' \in Seq(Txns)
    BY SMT DEF EndBatch, TypeOK, FillerType
  <1>5. gas_per_core' \in Nat /\ relaxed' \in Nat
    <2>1. CASE Relaxes
      <3>1. relaxed' \in Nat
        BY <2>1, SMT DEF EndBatch, TypeOK, DriverType
      <3>2. dif \in Nat \ {0}
        <4>1. dif \in Int /\ dif > 0
          BY <2>1, SMT DEF Relaxes, dif, TypeOK, FillerType, DriverType
        <4> QED
          BY <4>1, SMT
      <3>3. dif * RelaxFactor \in Nat \ {0}
        BY <3>2, BuildingAssumption, SMT
      <3>4. min_modifier \in Nat \ {0}
        BY FillerAssumption, BuildingAssumption, SMT DEF min_modifier
      <3>5. per_batch_target \in Nat
        BY <3>4, DivType, Zenon DEF per_batch_target, TypeOK, DriverType
      <3>6. per_batch_target \div (dif * RelaxFactor) \in Nat
        BY <3>3, <3>5, DivType, Zenon
      <3>7. RelaxedBy \in Nat
        BY <3>6, SMT DEF RelaxedBy
      <3>8. (MaxGas \div Cores) * RelaxedBy \in Nat
        BY <3>7, PerCoreType, TimesType, Zenon
      <3>9. ((MaxGas \div Cores) * RelaxedBy) \div Cores \in Nat
        BY <3>8, DivType, FillerAssumption, Zenon
      <3> QED
        BY <2>1, <3>1, <3>9, Zenon DEF EndBatch, set_gas_per_core
    <2>2. CASE ~Relaxes
      BY <2>2, Zenon DEF EndBatch, TypeOK, FillerType, DriverType
    <2> QED
      BY <2>1, <2>2
  <1>6. first_iter_tx' \in Int
    <2>1. (IF index < Goal THEN BatchSize - Len(return_vec) ELSE 0) \in Int
      BY BuildingAssumption, SMT DEF TypeOK, AddAllType
    <2> QED
      BY <2>1, CountType, Zenon DEF EndBatch
  <1>7. index' \in 0 .. NumBatches /\ (pc' = "batch" => index' \in Batches)
    BY <1>1, EndBatchGoesOn, BuildingAssumption, SMT DEF Batches
  <1>8. FillerType'
    BY <1>5, Zenon DEF EndBatch, TypeOK, FillerType
  <1>9. AddAllType'
    BY <1>4, Zenon DEF EndBatch, TypeOK, AddAllType, input
  <1>10. DriverType'
    BY <1>2, <1>3, <1>4, <1>5, <1>6, <1>7, EndBatchGoesOn, Zenon
       DEF EndBatch, TypeOK, DriverType
  <1> QED
    BY <1>8, <1>9, <1>10 DEF TypeOK

LEMMA FinishBlockType == ASSUME TypeOK, FinishBlock PROVE TypeOK'
  <1>1. FillerType'
    BY NewFillerFacts, Zenon DEF FinishBlock, ReplaceFiller, FillerType
  <1>2. AddAllType'
    BY NewFillerFacts, Zenon DEF FinishBlock, ReplaceFiller, TypeOK, AddAllType, input
  <1>3. proposed' \in Seq(Txns)
    BY SMT DEF FinishBlock, TypeOK, DriverType, FillerType
  <1>4. index' \in 0 .. NumBatches /\ index' \in Batches
    BY BuildingAssumption, SMT DEF FinishBlock, Batches
  <1>5. first_iter_tx' \in Int /\ total_tx' \in Int
    BY SMT DEF FinishBlock, TypeOK, DriverType
  <1>6. DriverType'
    BY <1>3, <1>4, <1>5, NewFillerFacts, Zenon DEF FinishBlock, TypeOK, DriverType
  <1> QED
    BY <1>1, <1>2, <1>6 DEF TypeOK

\* All that a panic changes.
LEMMA PanicKeeps ==
    ASSUME FinishBlockPanics
    PROVE  /\ pc = "done" /\ pc' = "panic"
           /\ UNCHANGED <<profile, good_block, filler, skipped_users, result, return_vec,
                          non_user_skip, txns, full_block_skip, index, is_first, relaxed,
                          prev_filler_state, startlen, first_iter_tx, total_tx, proposed>>
  BY Zenon DEF FinishBlockPanics, input

LEMMA NextType == ASSUME TypeOK, [Next]_vars PROVE TypeOK'
  <1>1. CASE UNCHANGED vars
    BY <1>1, Zenon DEF vars, filler, driver, TypeOK, FillerType, AddAllType, DriverType
  <1>2. CASE FinishBlockPanics
    BY <1>2, PanicKeeps, Zenon DEF filler, TypeOK, FillerType, AddAllType, DriverType
  <1> QED
    BY <1>1, <1>2, BatchType, CallType, AddAllStepType, EndBatchType, FinishBlockType, Zenon
       DEF Next

\* The builder's state keeps its type for every workload and every limit, and the loop of
\* get_transaction_register never asks for a batch past the last.
THEOREM BuilderTypeCorrect == Spec => []TypeOK
  <1>1. Init => TypeOK
    BY InitType
  <1>2. TypeOK /\ [Next]_vars => TypeOK'
    BY NextType
  <1> QED
    BY <1>1, <1>2, PTL DEF Spec

----------------------------------------------------------------------------
\* The block and the hints.

\* A transaction that starts at time a and is put at the end of the block.
Grows(t, a) ==
    LET n == Len(block) IN
    /\ n \in Nat /\ a \in Nat /\ gas_used(t) \in Nat
    /\ Len(block') = n + 1
    /\ block'[n + 1] = t
    /\ finish_time'[n + 1] = a + gas_used(t)
    /\ estimated_gas'[n + 1] = gas_used(t)
    /\ dependency_graph'[n + 1] = dependencies(t)
    /\ \A i \in 1 .. n : /\ block'[i] = block[i]
                         /\ block[i] \in Txns
                         /\ finish_time'[i] = finish_time[i]
                         /\ finish_time[i] \in Nat
                         /\ estimated_gas'[i] = estimated_gas[i]
                         /\ dependency_graph'[i] = dependency_graph[i]
    /\ \A k \in RawKeys :
          /\ last_touched[k].time \in Nat
          /\ last_touched'[k] = IF k \in Touches(t) /\ a + gas_used(t) > last_touched[k].time
                                THEN [time |-> a + gas_used(t), idx |-> n]
                                ELSE last_touched[k]

LEMMA IncludeGrows ==
    ASSUME TypeOK, NEW t \in Txns, NEW a, Include(t, a)
    PROVE  Grows(t, a)
  <1>1. a \in Nat /\ gas_used(t) \in Nat
    BY ArrivesType, GasUsedType, Zenon DEF Include, Considered
  <1> DEFINE u == gas_used(t)
             f == a + gas_used(t)
             D == dependencies(t)
             n == Len(block)
  <1>2. /\ estimated_gas' = Append(estimated_gas, u)
        /\ dependency_graph' = Append(dependency_graph, D)
        /\ block' = Append(block, t)
        /\ finish_time' = Append(finish_time, f)
    BY Zenon DEF Include, Push
  <1>3. n \in Nat
    BY SMT DEF TypeOK, FillerType
  <1>4. /\ Len(block') = n + 1
        /\ block'[n + 1] = t
        /\ \A i \in 1 .. n : block'[i] = block[i] /\ block[i] \in Txns
    BY <1>2, SMT DEF TypeOK, FillerType
  <1>5. /\ finish_time'[n + 1] = f
        /\ \A i \in 1 .. n : finish_time'[i] = finish_time[i] /\ finish_time[i] \in Nat
    BY <1>2, SMT DEF TypeOK, FillerType
  <1>6. /\ estimated_gas'[n + 1] = u
        /\ \A i \in 1 .. n : estimated_gas'[i] = estimated_gas[i]
    BY <1>2, SMT DEF TypeOK, FillerType
  <1>7. /\ dependency_graph'[n + 1] = D
        /\ \A i \in 1 .. n : dependency_graph'[i] = dependency_graph[i]
    BY <1>2, SMT DEF TypeOK, FillerType
  <1>8. last_touched' = TouchedAfter(t, n, f)
    BY Zenon DEF Include
  <1>9. \A k \in RawKeys :
          last_touched'[k] = IF k \in Touches(t) /\ f > last_touched[k].time
                             THEN [time |-> f, idx |-> n] ELSE last_touched[k]
    BY <1>8, Zenon DEF TouchedAfter
  <1> QED
    BY <1>1, <1>3, <1>4, <1>5, <1>6, <1>7, <1>9, TouchedType, Zenon DEF Grows

LEMMA GrowsTouched ==
    ASSUME TypeOK, BlockInv, NEW t \in Txns, NEW a, Grows(t, a), UNCHANGED profile
    PROVE  TouchedIsReal' /\ TouchedIsLast'
  <1> DEFINE n == Len(block)
             f == a + gas_used(t)
  <1>1. n \in Nat /\ f \in Nat /\ Len(block') = n + 1
        /\ block'[n + 1] = t /\ finish_time'[n + 1] = f
    BY SMT DEF Grows
  <1>2. \A i \in 1 .. n : /\ block'[i] = block[i]
                          /\ finish_time'[i] = finish_time[i]
                          /\ finish_time[i] \in Nat
    BY Zenon DEF Grows
  <1>3. ASSUME NEW k \in RawKeys
        PROVE  /\ last_touched[k].time \in Nat
               /\ \/ /\ k \in Touches(t) /\ f > last_touched[k].time
                     /\ last_touched'[k].time = f /\ last_touched'[k].idx = n
                  \/ /\ ~(k \in Touches(t) /\ f > last_touched[k].time)
                     /\ last_touched'[k] = last_touched[k]
    BY <1>3, SMT DEF Grows
  <1> HIDE DEF n, f
  <1>4. ASSUME NEW k \in RawKeys, last_touched'[k].time > 0
        PROVE  /\ last_touched'[k].idx \in 0 .. Len(block') - 1
               /\ finish_time'[last_touched'[k].idx + 1] = last_touched'[k].time
    <2>1. CASE last_touched'[k].time = f /\ last_touched'[k].idx = n
      BY <1>1, <2>1, SMT
    <2>2. CASE last_touched'[k] = last_touched[k]
      <3>1. /\ last_touched[k].idx \in 0 .. n - 1
            /\ finish_time[last_touched[k].idx + 1] = last_touched[k].time
        BY <1>4, <2>2, Zenon DEF BlockInv, TouchedIsReal, n
      <3>2. last_touched[k].idx + 1 \in 1 .. n /\ last_touched[k].idx \in 0 .. n
        BY <1>1, <3>1, SMT
      <3>3. last_touched[k].idx \in 0 .. Len(block') - 1
        BY <1>1, <3>2, SMT
      <3> QED
        BY <1>2, <2>2, <3>1, <3>2, <3>3, Zenon
    <2> QED
      BY <1>3, <2>1, <2>2, Zenon
  <1>5. ASSUME NEW k \in RawKeys, NEW j \in 1 .. Len(block'), k \in Touches(block'[j])
        PROVE  finish_time'[j] <= last_touched'[k].time
    <2>1. CASE j = n + 1
      BY <1>1, <1>3, <1>5, <2>1, SMT
    <2>2. CASE j \in 1 .. n
      <3>1. finish_time[j] <= last_touched[k].time
        BY <1>2, <1>5, <2>2, Zenon DEF BlockInv, TouchedIsLast, n
      <3> QED
        BY <1>1, <1>2, <1>3, <2>2, <3>1, SMT
    <2> QED
      BY <1>1, <2>1, <2>2, SMT
  <1>6. TouchedIsReal'
    BY <1>4, Zenon DEF TouchedIsReal
  <1>7. TouchedIsLast'
    BY <1>5, Zenon DEF TouchedIsLast, Touches
  <1> QED
    BY <1>6, <1>7

LEMMA GrowsHints ==
    ASSUME TypeOK, BlockInv, NEW t \in Txns, NEW a, Grows(t, a)
    PROVE  HintsPointBack'
  <1> DEFINE n == Len(block)
  <1>1. n \in Nat /\ Len(block') = n + 1 /\ dependency_graph'[n + 1] = dependencies(t)
    BY Zenon DEF Grows
  <1>2. ASSUME NEW i \in 1 .. Len(block'), NEW d \in dependency_graph'[i]
        PROVE  d \in 0 .. i - 2
    <2>1. CASE i \in 1 .. n
      <3>1. d \in dependency_graph[i]
        BY <2>1, Zenon DEF Grows
      <3> QED
        BY <2>1, <3>1, Zenon DEF BlockInv, HintsPointBack
    <2>2. CASE i = n + 1
      <3>1. PICK k \in Touched(t) : d = last_touched[k].idx
        BY <1>1, <2>2, Zenon DEF dependencies
      <3>2. k \in RawKeys /\ last_touched[k].time > 0
        BY <3>1, TouchedType, Zenon DEF Touched
      <3>3. d \in 0 .. n - 1
        BY <3>1, <3>2, Zenon DEF BlockInv, TouchedIsReal
      <3> HIDE DEF n
      <3> QED
        BY <1>1, <2>2, <3>3, SMT
    <2> HIDE DEF n
    <2> QED
      BY <1>1, <2>1, <2>2, SMT
  <1> QED
    BY <1>2, Zenon DEF HintsPointBack

\* What a transaction waits for: no earlier writer of what it reads ends after it starts,
\* and unless it starts at once one of its hints ends just then.
LEMMA ArrivesAfterWriters ==
    ASSUME TypeOK, BlockInv, NEW t \in Txns, NEW a \in Nat, Arrives(t, a)
    PROVE  /\ \A j \in 1 .. Len(block) :
                 Touches(block[j]) \cap (profile[t].reads \cup {Sender[t]}) # {}
                     => finish_time[j] <= a
           /\ a > 0 => \E d \in dependencies(t) : d \in 0 .. Len(block) - 1
                                                  /\ finish_time[d + 1] = a
  <1>1. ASSUME NEW j \in 1 .. Len(block),
               Touches(block[j]) \cap (profile[t].reads \cup {Sender[t]}) # {}
        PROVE  finish_time[j] <= a
    <2>1. PICK k \in Touches(block[j]) : k \in profile[t].reads \cup {Sender[t]}
      BY <1>1, Zenon
    <2>2. k \in RawKeys
      BY <2>1, TouchedType, SenderType, Zenon DEF RawKeys
    <2>3. finish_time[j] <= last_touched[k].time
      BY <2>1, <2>2, Zenon DEF BlockInv, TouchedIsLast
    <2>4. last_touched[k].time \in Nat
      BY <2>2, TouchedType, Zenon
    <2>5. finish_time[j] \in Nat
      BY SMT DEF TypeOK, FillerType
    <2>6. CASE last_touched[k].time > 0
      <3>1. last_touched[k].time <= a
        BY <2>1, <2>6, Zenon DEF Touched, Arrives
      <3> QED
        BY <2>3, <2>4, <2>5, <3>1, SMT
    <2>7. CASE ~(last_touched[k].time > 0)
      BY <2>3, <2>4, <2>5, <2>7, SMT
    <2> QED
      BY <2>6, <2>7
  <1>2. ASSUME a > 0
        PROVE  \E d \in dependencies(t) : d \in 0 .. Len(block) - 1
                                          /\ finish_time[d + 1] = a
    <2>1. a # 0
      BY <1>2, SMT
    <2>2. PICK k \in Touched(t) : a = last_touched[k].time
      BY <2>1, Zenon DEF Arrives
    <2>3. k \in RawKeys /\ last_touched[k].time > 0
      BY <2>2, TouchedType, Zenon DEF Touched
    <2>4. /\ last_touched[k].idx \in 0 .. Len(block) - 1
          /\ finish_time[last_touched[k].idx + 1] = a
      BY <2>2, <2>3, Zenon DEF BlockInv, TouchedIsReal
    <2> QED
      BY <2>2, <2>4, Zenon DEF dependencies
  <1> QED
    BY <1>1, <1>2, Zenon

LEMMA GrowsStarts ==
    ASSUME TypeOK, BlockInv, NEW t \in Txns, NEW a, Arrives(t, a), Grows(t, a),
           UNCHANGED profile
    PROVE  StartsAfterWriters'
  <1>0. PICK n \in Nat : n = Len(block)
    BY Zenon DEF Grows
  <1>1. /\ n \in Nat /\ a \in Nat /\ gas_used(t) \in Nat /\ Len(block') = n + 1
        /\ block'[n + 1] = t /\ finish_time'[n + 1] = a + gas_used(t)
        /\ estimated_gas'[n + 1] = gas_used(t)
        /\ dependency_graph'[n + 1] = dependencies(t)
    BY <1>0, Zenon DEF Grows
  <1>2. \A i \in 1 .. n : /\ block'[i] = block[i]
                          /\ finish_time'[i] = finish_time[i]
                          /\ estimated_gas'[i] = estimated_gas[i]
                          /\ dependency_graph'[i] = dependency_graph[i]
    BY <1>0, Zenon DEF Grows
  <1>3. ASSUME NEW i \in 1 .. n
        PROVE  /\ \A j \in 1 .. i - 1 : Conflict(j, i)' => finish_time'[j] <= start_time(i)'
               /\ start_time(i)' > 0
                     => \E d \in dependency_graph'[i] : finish_time'[d + 1] = start_time(i)'
    <2>1. start_time(i)' = start_time(i)
      BY <1>2, Zenon DEF start_time
    <2>2. \A j \in 1 .. i - 1 : j \in 1 .. n
      BY <1>1, SMT
    <2>3. ASSUME NEW j \in 1 .. i - 1, Conflict(j, i)'
          PROVE  finish_time'[j] <= start_time(i)'
      <3>1. j \in 1 .. n
        BY <2>2
      <3>2. block'[j] = block[j] /\ block'[i] = block[i] /\ finish_time'[j] = finish_time[j]
        BY <1>2, <3>1, Zenon
      <3>3. Conflict(j, i)
        BY <2>3, <3>2, Zenon DEF Conflict, Touches
      <3> QED
        BY <1>0, <2>1, <3>2, <3>3, Zenon DEF BlockInv, StartsAfterWriters
    <2>4. ASSUME start_time(i)' > 0
          PROVE  \E d \in dependency_graph'[i] : finish_time'[d + 1] = start_time(i)'
      <3>1. PICK d \in dependency_graph[i] : finish_time[d + 1] = start_time(i)
        BY <1>0, <2>1, <2>4, Zenon DEF BlockInv, StartsAfterWriters
      <3>2. d \in 0 .. i - 2
        BY <1>0, <3>1, Zenon DEF BlockInv, HintsPointBack
      <3>3. d + 1 \in 1 .. n
        BY <1>1, <3>2, SMT
      <3> QED
        BY <1>2, <2>1, <3>1, <3>3, Zenon
    <2> QED
      BY <2>3, <2>4, Zenon
  <1>4. start_time(n + 1)' = a
    <2>1. start_time(n + 1)' = (a + gas_used(t)) - gas_used(t)
      BY <1>1, Zenon DEF start_time
    <2> QED
      BY <1>1, <2>1, SMT
  <1>5. /\ \A j \in 1 .. (n + 1) - 1 :
              Conflict(j, n + 1)' => finish_time'[j] <= start_time(n + 1)'
        /\ start_time(n + 1)' > 0
              => \E d \in dependency_graph'[n + 1] :
                     finish_time'[d + 1] = start_time(n + 1)'
    <2>1. ASSUME NEW j \in 1 .. (n + 1) - 1, Conflict(j, n + 1)'
          PROVE  finish_time'[j] <= start_time(n + 1)'
      <3>1. j \in 1 .. n
        BY <1>1, SMT
      <3>2. Touches(block[j]) \cap (profile[t].reads \cup {Sender[t]}) # {}
        BY <1>1, <1>2, <2>1, <3>1, Zenon DEF Conflict, Touches
      <3> QED
        BY <1>0, <1>1, <1>2, <1>4, <3>1, <3>2, ArrivesAfterWriters, Zenon
    <2>2. ASSUME start_time(n + 1)' > 0
          PROVE  \E d \in dependency_graph'[n + 1] : finish_time'[d + 1] = start_time(n + 1)'
      <3>1. PICK d \in dependencies(t) : d \in 0 .. n - 1 /\ finish_time[d + 1] = a
        <4>1. a > 0
          BY <1>4, <2>2, Zenon
        <4>2. \E d \in dependencies(t) : d \in 0 .. Len(block) - 1
                                          /\ finish_time[d + 1] = a
          BY <1>1, <4>1, ArrivesAfterWriters, Zenon
        <4> QED
          BY <1>0, <4>2, Zenon
      <3>2. d + 1 \in 1 .. n
        BY <1>1, <3>1, SMT
      <3> QED
        BY <1>1, <1>2, <1>4, <3>1, <3>2, Zenon
    <2> QED
      BY <2>1, <2>2, Zenon
  <1>6. \A i \in 1 .. Len(block') : i \in 1 .. n \/ i = n + 1
    BY <1>1, SMT
  <1> QED
    BY <1>3, <1>5, <1>6, Zenon DEF StartsAfterWriters

\* A step that leaves the block and last_touched alone keeps what is said of them.
LEMMA SameBlock ==
    ASSUME BlockInv,
           UNCHANGED <<profile, block, dependency_graph, estimated_gas, finish_time,
                       last_touched>>
    PROVE  BlockInv'
    BY Zenon DEF BlockInv, TouchedIsReal, TouchedIsLast, HintsPointBack,
                 StartsAfterWriters, Conflict, Touches, start_time

\* An empty block.
LEMMA NoBlockYet ==
    ASSUME block = <<>>, last_touched = NoTouch
    PROVE  BlockInv
  <1>1. 1 .. Len(block) = {}
    BY SMT
  <1>2. \A k \in RawKeys : ~(last_touched[k].time > 0)
    BY SMT DEF NoTouch
  <1> QED
    BY <1>1, <1>2, Zenon DEF BlockInv, TouchedIsReal, TouchedIsLast, HintsPointBack,
                             StartsAfterWriters

LEMMA NoBlockAnyMore ==
    ASSUME block' = <<>>, last_touched' = NoTouch
    PROVE  BlockInv'
  <1>1. 1 .. Len(block') = {}
    BY SMT
  <1>2. \A k \in RawKeys : ~(last_touched'[k].time > 0)
    BY SMT DEF NoTouch
  <1> QED
    BY <1>1, <1>2, Zenon DEF BlockInv, TouchedIsReal, TouchedIsLast, HintsPointBack,
                             StartsAfterWriters

\* What every action does to the block: it leaves it alone, adds to it or begins anew.
LEMMA BlockKinds ==
    ASSUME TypeOK, [Next]_vars
    PROVE  \/ UNCHANGED <<profile, block, dependency_graph, estimated_gas, finish_time,
                          last_touched>>
           \/ /\ UNCHANGED profile
              /\ \E t \in Txns : \E a : Include(t, a)
           \/ block' = <<>> /\ last_touched' = NoTouch
  <1>1. CASE UNCHANGED vars
    BY <1>1, Zenon DEF vars, filler
  <1>2. CASE SkipBatch \/ EmptyBatch \/ CallAddAll
    BY <1>2, Zenon DEF SkipBatch, EmptyBatch, CallAddAll, input, filler
  <1>3. CASE AddAll
    <2>1. /\ result # <<>> /\ UNCHANGED profile
          /\ Returns(Head(result)) \/ \E a : Include(Head(result), a)
      BY <1>3, AddAllKinds, Zenon
    <2>2. Head(result) \in Txns
      BY <2>1, HeadTail, Zenon
    <2>3. CASE Returns(Head(result))
      BY <2>1, <2>3, Zenon DEF Returns
    <2> QED
      BY <2>1, <2>2, <2>3, Zenon
  <1>4. CASE EndBatch
    BY <1>4, Zenon DEF EndBatch, input
  <1>5. CASE FinishBlock
    BY <1>5, Zenon DEF FinishBlock, ReplaceFiller
  <1>6. CASE FinishBlockPanics
    BY <1>6, PanicKeeps, Zenon DEF filler
  <1> QED
    BY <1>1, <1>2, <1>3, <1>4, <1>5, <1>6, Zenon DEF Next

LEMMA BlockInvStep == ASSUME TypeOK, BlockInv, [Next]_vars PROVE BlockInv'
  <1>1. CASE UNCHANGED <<profile, block, dependency_graph, estimated_gas, finish_time,
                         last_touched>>
    BY <1>1, SameBlock
  <1>2. ASSUME UNCHANGED profile, NEW t \in Txns, NEW a, Include(t, a)
        PROVE  BlockInv'
    <2>1. Grows(t, a) /\ Arrives(t, a)
      BY <1>2, IncludeGrows, Zenon DEF Include, Considered
    <2> QED
      BY <1>2, <2>1, GrowsTouched, GrowsHints, GrowsStarts, Zenon DEF BlockInv
  <1>3. CASE block' = <<>> /\ last_touched' = NoTouch
    BY <1>3, NoBlockAnyMore, Zenon
  <1> QED
    BY <1>1, <1>2, <1>3, BlockKinds, Zenon

----------------------------------------------------------------------------
\* The budget.

Budget == LimitKept /\ FitsBudget

LEMMA BudgetAtStart ==
    ASSUME gas_per_core = MaxGas \div Cores, total_estimated_gas = 0, block = <<>>
    PROVE  Budget
  <1>1. 1 .. Len(block) = {}
    BY SMT
  <1>2. total_estimated_gas <= total_max_gas
    BY PerCoreType, SMT
  <1> QED
    BY <1>1, <1>2, Zenon DEF Budget, LimitKept, FitsBudget

LEMMA BudgetAnew ==
    ASSUME gas_per_core' = MaxGas \div Cores, total_estimated_gas' = 0, block' = <<>>
    PROVE  Budget'
  <1>1. 1 .. Len(block') = {}
    BY SMT
  <1>2. total_estimated_gas' <= total_max_gas
    BY PerCoreType, SMT
  <1> QED
    BY <1>1, <1>2, Zenon DEF Budget, LimitKept, FitsBudget, total_max_gas

LEMMA BudgetSame ==
    ASSUME Budget,
           UNCHANGED <<gas_per_core, total_estimated_gas, block, finish_time, good_block,
                       relaxed>>
    PROVE  Budget'
    BY Zenon DEF Budget, LimitKept, FitsBudget, total_max_gas

LEMMA IncludeBudget ==
    ASSUME TypeOK, Budget, NEW t \in Txns, NEW a, Include(t, a),
           UNCHANGED <<good_block, relaxed>>
    PROVE  Budget'
  <1>1. PICK n \in Nat : n = Len(block)
    BY IncludeGrows, Zenon DEF Grows
  <1>2. /\ Len(block') = n + 1
        /\ finish_time'[n + 1] = a + gas_used(t)
        /\ \A i \in 1 .. n : finish_time'[i] = finish_time[i]
        /\ a \in Nat /\ gas_used(t) \in Nat
    BY <1>1, IncludeGrows, Zenon DEF Grows
  <1>3. total_estimated_gas' <= total_max_gas
    <2>1. /\ total_estimated_gas' = total_estimated_gas + gas_used(t)
          /\ ~(total_estimated_gas + gas_used(t) > total_max_gas)
      BY Zenon DEF Include, Push, NoGasLeft
    <2>2. total_estimated_gas \in Nat /\ total_max_gas \in Nat
      BY PerCoreType, Zenon DEF TypeOK, FillerType
    <2> QED
      BY <1>2, <2>1, <2>2, SMT
  <1>4. ASSUME good_block, relaxed = 0, NEW i \in 1 .. n + 1
        PROVE  finish_time'[i] <= MaxGas \div Cores
    <2>1. CASE i \in 1 .. n
      BY <1>1, <1>2, <1>4, <2>1, Zenon DEF Budget, FitsBudget
    <2>2. CASE i = n + 1
      <3>1. gas_per_core = MaxGas \div Cores
        BY <1>4, Zenon DEF Budget, LimitKept
      <3>2. ~(a + gas_used(t) > gas_per_core)
        BY <1>4, Zenon DEF Include, TooLong
      <3>3. gas_per_core \in Nat
        BY Zenon DEF TypeOK, FillerType
      <3>4. a + gas_used(t) <= gas_per_core
        BY <1>2, <3>2, <3>3, SMT
      <3> QED
        BY <1>2, <2>2, <3>1, <3>4, Zenon
    <2>3. i \in 1 .. n \/ i = n + 1
      BY <1>1, SMT
    <2> QED
      BY <2>1, <2>2, <2>3
  <1>5. UNCHANGED gas_per_core
    BY Zenon DEF Include
  <1> QED
    BY <1>2, <1>3, <1>4, <1>5, Zenon DEF Budget, LimitKept, FitsBudget, total_max_gas

LEMMA EndBatchBudget == ASSUME TypeOK, Budget, EndBatch PROVE Budget'
  <1>1. UNCHANGED <<total_estimated_gas, block, finish_time, good_block>>
    BY Zenon DEF EndBatch, input
  <1>2. CASE UNCHANGED <<gas_per_core, relaxed>>
    BY <1>1, <1>2, BudgetSame, Zenon
  <1>3. CASE relaxed' = relaxed + 1
    <2>1. relaxed \in Nat
      BY Zenon DEF TypeOK, DriverType
    <2>2. relaxed' # 0
      BY <1>3, <2>1, SMT
    <2> QED
      BY <1>1, <2>2, Zenon DEF Budget, LimitKept, FitsBudget, total_max_gas
  <1> QED
    BY <1>2, <1>3, Zenon DEF EndBatch

LEMMA BudgetStep == ASSUME TypeOK, Budget, [Next]_vars PROVE Budget'
  <1>1. CASE UNCHANGED vars
    BY <1>1, BudgetSame, Zenon DEF vars, filler, driver
  <1>2. CASE SkipBatch \/ EmptyBatch \/ CallAddAll
    BY <1>2, BudgetSame, Zenon DEF SkipBatch, EmptyBatch, CallAddAll, input, filler
  <1>3. CASE AddAll
    <2>1. /\ result # <<>> /\ UNCHANGED <<good_block, relaxed>>
          /\ Returns(Head(result)) \/ \E a : Include(Head(result), a)
      BY <1>3, AddAllKinds, Zenon DEF AddAll, driver
    <2>2. Head(result) \in Txns
      BY <2>1, HeadTail, Zenon
    <2>3. CASE Returns(Head(result))
      BY <2>1, <2>3, BudgetSame, Zenon DEF Returns
    <2> QED
      BY <2>1, <2>2, <2>3, IncludeBudget, Zenon
  <1>4. CASE EndBatch
    BY <1>4, EndBatchBudget
  <1>5. CASE FinishBlock
    BY <1>5, BudgetAnew, Zenon DEF FinishBlock, ReplaceFiller
  <1>6. CASE FinishBlockPanics
    BY <1>6, PanicKeeps, BudgetSame, Zenon DEF filler
  <1> QED
    BY <1>1, <1>2, <1>3, <1>4, <1>5, <1>6, Zenon DEF Next

----------------------------------------------------------------------------
Inv == TypeOK /\ BlockInv /\ Budget

LEMMA InvHolds == Spec => []Inv
  <1>1. Init => Inv
    BY InitType, NoBlockYet, BudgetAtStart, Zenon DEF Init, NewFiller, Inv
  <1>2. Inv /\ [Next]_vars => Inv'
    BY NextType, BlockInvStep, BudgetStep, Zenon DEF Inv
  <1> QED
    BY <1>1, <1>2, PTL DEF Spec

\* add_all only hints at transactions already in the block: the graph that
\* Scheduler::new reads has no cycle, whatever the workload and the number of cores.
THEOREM HintsPointBackHolds == Spec => []HintsPointBack
  <1>1. Inv => HintsPointBack
    BY Zenon DEF Inv, BlockInv
  <1> QED
    BY <1>1, InvHolds, PTL

\* Keeping only the writer that ends last in last_touched is enough: a transaction that
\* waits for its hints waits for every earlier transaction that writes what it reads.
THEOREM StartsAfterWritersHolds == Spec => []StartsAfterWriters
  <1>1. Inv => StartsAfterWriters
    BY Zenon DEF Inv, BlockInv
  <1> QED
    BY <1>1, InvHolds, PTL

\* The tests of add_all keep every block within its gas, and every chain of hints of a
\* good block within what one core may use, until the limit is changed.
THEOREM FitsBudgetHolds == Spec => []FitsBudget
  <1>1. Inv => FitsBudget
    BY Zenon DEF Inv, Budget
  <1> QED
    BY <1>1, InvHolds, PTL

----------------------------------------------------------------------------
\* Transactions on their way from the batches to the blocks.

At(s, t) == \E i \in 1 .. Len(s) : s[i] = t

\* What is left of each batch, wherever add_all keeps it: neither calling add_all nor
\* giving a transaction back nor ending the batch changes it.
Left(at, i, back, input_left, batches) ==
    [b \in Batches |-> IF at = "add_all" /\ b = i THEN back \o input_left ELSE batches[b]]

pending == Left(pc, index, return_vec, result, txns)

\* Every transaction is in one place: in a block or in what is left of a batch.
Located(taken, left) ==
    /\ \A t \in Txns : At(taken, t) \/ \E b \in Batches : At(left[b], t)
    /\ \A b \in Batches : \A t : At(left[b], t) =>
          /\ ~At(taken, t)
          /\ \A c \in Batches : At(left[c], t) => c = b

NoRepeats(s) == \A i, j \in 1 .. Len(s) : s[i] = s[j] => i = j

\* No transaction comes after a later one of its sender.
InOrder(s) == \A i, j \in 1 .. Len(s) : i < j => ~Before(s[j], s[i])

\* What is left of the batches is in the order in which it was made.
Ordered(left) ==
    /\ \A b \in Batches : InOrder(left[b])
    /\ \A b, c \in Batches : \A s, t :
          b < c /\ At(left[b], s) /\ At(left[c], t) => ~Before(t, s)

\* Each transaction comes after all earlier ones of its sender.
Led(s) ==
    \A i \in 1 .. Len(s) : \A t \in Txns :
        Before(t, s[i]) => \E j \in 1 .. i - 1 : s[j] = t

\* What goes into blocks, in relation to what is left.
Flow(taken, left) ==
    /\ Located(taken, left)
    /\ NoRepeats(taken) /\ \A b \in Batches : NoRepeats(left[b])
    /\ Ordered(left)
    /\ Led(taken)

\* A transaction that was passed over keeps the later ones of its sender out of the block.
Blocked ==
    \A s : At(return_vec, s) \/ (\E b \in Batches : b < index /\ At(txns[b], s)) =>
        full \/ (good_block /\ Sender[s] \in skipped_users)

\* Outside of add_all it holds nothing, inside it the batch is drained.
Idle ==
    /\ pc # "add_all" => result = <<>> /\ return_vec = <<>>
    /\ pc = "add_all" => txns[index] = <<>> /\ ~is_first

EmptyBelow(i) == \A j \in Batches : j < i => pending[j] = <<>>

\* Blocks that need not be good are filled in order: what was taken from a batch was taken
\* after all batches below it, and a batch marked to be passed over comes first.
InSequence ==
    ~good_block =>
        /\ non_user_skip = 0
        /\ \A i \in Batches :
              /\ Len(pending[i]) < Len(InitialBatches[i]) => EmptyBelow(i)
              /\ full_block_skip[i] => EmptyBelow(i)
              /\ full_block_skip[i] /\ ~is_first => i < index \/ (i = index /\ pc # "batch")
        /\ pc = "add_all" /\ startlen < Len(InitialBatches[index]) => EmptyBelow(index)

FlowInv == Idle /\ Flow(Taken, pending) /\ Blocked /\ InSequence
----------------------------------------------------------------------------
\* Sequences.

LEMMA AppendFacts ==
    ASSUME NEW s \in Seq(Txns), NEW x \in Txns
    PROVE  /\ Len(s) \in Nat /\ Len(Append(s, x)) = Len(s) + 1
           /\ Append(s, x)[Len(s) + 1] = x
           /\ \A i \in 1 .. Len(s) : Append(s, x)[i] = s[i]
  BY SMT

LEMMA AtAppend ==
    ASSUME NEW s \in Seq(Txns), NEW x \in Txns, NEW t
    PROVE  At(Append(s, x), t) <=> At(s, t) \/ t = x
  <1> DEFINE r == Append(s, x)
             n == Len(s)
  <1>1. n \in Nat /\ Len(r) = n + 1 /\ r[n + 1] = x /\ \A i \in 1 .. n : r[i] = s[i]
    BY AppendFacts, Zenon
  <1> HIDE DEF r, n
  <1>2. \A i : i \in 1 .. n + 1 <=> i \in 1 .. n \/ i = n + 1
    BY <1>1, SMT
  <1>3. At(r, t) <=> At(s, t) \/ t = x
    BY <1>1, <1>2, Zenon DEF At, n
  <1> QED
    BY <1>3, Zenon DEF r

LEMMA NoRepeatsAppend ==
    ASSUME NEW s \in Seq(Txns), NEW x \in Txns, NoRepeats(s), ~At(s, x)
    PROVE  NoRepeats(Append(s, x))
  <1> DEFINE r == Append(s, x)
             n == Len(s)
  <1>1. n \in Nat /\ Len(r) = n + 1 /\ r[n + 1] = x /\ \A i \in 1 .. n : r[i] = s[i]
    BY AppendFacts, Zenon
  <1> HIDE DEF r, n
  <1>2. \A i : i \in 1 .. n + 1 <=> i \in 1 .. n \/ i = n + 1
    BY <1>1, SMT
  <1>3. NoRepeats(r)
    BY <1>1, <1>2, Zenon DEF At, NoRepeats, n
  <1> QED
    BY <1>3, Zenon DEF r

LEMMA LedAppend ==
    ASSUME NEW s \in Seq(Txns), NEW x \in Txns, Led(s),
           \A t \in Txns : Before(t, x) => At(s, t)
    PROVE  Led(Append(s, x))
  <1> DEFINE r == Append(s, x)
             n == Len(s)
  <1>1. n \in Nat /\ Len(r) = n + 1 /\ r[n + 1] = x /\ \A i \in 1 .. n : r[i] = s[i]
    BY AppendFacts, Zenon
  <1> SUFFICES ASSUME NEW i \in 1 .. Len(r), NEW t \in Txns, Before(t, r[i])
               PROVE  \E j \in 1 .. i - 1 : r[j] = t
    BY Zenon DEF Led
  <1> HIDE DEF r
  <1>2. CASE i = n + 1
    <2>1. PICK j \in 1 .. n : s[j] = t
      BY <1>1, <1>2, Zenon DEF At
    <2>2. j \in 1 .. i - 1
      BY <1>1, <1>2, SMT
    <2> QED
      BY <1>1, <2>1, <2>2, Zenon
  <1>3. CASE i \in 1 .. n
    <2>1. PICK j \in 1 .. i - 1 : s[j] = t
      BY <1>1, <1>3, Zenon DEF Led
    <2>2. j \in 1 .. n
      BY <1>1, <1>3, SMT
    <2> QED
      BY <1>1, <2>1, <2>2, Zenon
  <1> QED
    BY <1>1, <1>2, <1>3, SMT

\* r is s without its element k.
Removed(s, r, k) ==
    /\ k \in 1 .. Len(s)
    /\ Len(s) = Len(r) + 1
    /\ \A i \in 1 .. Len(r) : r[i] = s[IF i < k THEN i ELSE i + 1]

LEMMA RemovedFacts ==
    ASSUME NEW s \in Seq(Txns), NEW r \in Seq(Txns), NEW k, Removed(s, r, k)
    PROVE  /\ \A t : At(s, t) <=> At(r, t) \/ t = s[k]
           /\ NoRepeats(s) => NoRepeats(r) /\ ~At(r, s[k])
           /\ InOrder(s) => InOrder(r)
  <1> DEFINE up(i) == IF i < k THEN i ELSE i + 1
  <1>1. /\ Len(s) \in Nat /\ Len(r) \in Nat /\ k \in 1 .. Len(s) /\ Len(s) = Len(r) + 1
        /\ \A i \in 1 .. Len(r) : r[i] = s[up(i)]
    BY SMT DEF Removed
  <1>2. /\ \A i \in 1 .. Len(r) : up(i) \in 1 .. Len(s) /\ up(i) # k
        /\ \A i, j \in 1 .. Len(r) : (up(i) = up(j) => i = j) /\ (i < j => up(i) < up(j))
    BY <1>1, SMT
  <1>3. \A j \in 1 .. Len(s) : j = k \/ \E i \in 1 .. Len(r) : up(i) = j
    <2> SUFFICES ASSUME NEW j \in 1 .. Len(s), j # k
                 PROVE  \E i \in 1 .. Len(r) : up(i) = j
      BY Zenon
    <2>1. CASE j < k
      <3>1. j \in 1 .. Len(r) /\ up(j) = j
        BY <1>1, <2>1, SMT
      <3> QED
        BY <3>1, Zenon
    <2>2. CASE ~(j < k)
      <3>1. j - 1 \in 1 .. Len(r) /\ up(j - 1) = j
        BY <1>1, <2>2, SMT
      <3> QED
        BY <3>1, Zenon
    <2> QED
      BY <2>1, <2>2, Zenon
  <1> HIDE DEF up
  <1>4. \A t : At(s, t) <=> At(r, t) \/ t = s[k]
    BY <1>1, <1>2, <1>3, Zenon DEF At
  <1>5. NoRepeats(s) => NoRepeats(r) /\ ~At(r, s[k])
    BY <1>1, <1>2, Zenon DEF At, NoRepeats
  <1>6. InOrder(s) => InOrder(r)
    BY <1>1, <1>2, Zenon DEF InOrder
  <1> QED
    BY <1>4, <1>5, <1>6, Zenon

\* A transaction goes from what is left of a batch into the block when no earlier one of
\* its sender is left.
LEMMA FlowInclude ==
    ASSUME NEW taken \in Seq(Txns), NEW left \in [Batches -> Seq(Txns)], Flow(taken, left),
           NEW b \in Batches, NEW r \in Seq(Txns), NEW k, Removed(left[b], r, k),
           NEW t \in Txns, t = left[b][k],
           \A s \in Txns : Before(s, t) => At(taken, s)
    PROVE  Flow(Append(taken, t), [left EXCEPT ![b] = r])
  <1> DEFINE more == Append(taken, t)
             rest == [left EXCEPT ![b] = r]
  <1>1. rest[b] = r /\ \A c \in Batches : c # b => rest[c] = left[c]
    BY Zenon
  <1>2. left[b] \in Seq(Txns)
    BY Zenon
  <1>3. /\ \A x : At(left[b], x) <=> At(r, x) \/ x = t
        /\ NoRepeats(left[b]) => NoRepeats(r) /\ ~At(r, t)
        /\ InOrder(left[b]) => InOrder(r)
    BY <1>2, RemovedFacts, Zenon
  <1>4. \A x : At(more, x) <=> At(taken, x) \/ x = t
    BY AtAppend, Zenon
  <1>5. At(left[b], t) /\ ~At(taken, t) /\ \A c \in Batches : At(left[c], t) => c = b
    BY <1>3, Zenon DEF Flow, Located
  <1>6. NoRepeats(more) /\ Led(more)
    BY <1>5, NoRepeatsAppend, LedAppend, Zenon DEF Flow
  <1> HIDE DEF more, rest
  <1>7. \A c \in Batches : NoRepeats(rest[c])
    BY <1>1, <1>3, Zenon DEF Flow
  <1>8. \A c \in Batches : \A x : At(rest[c], x) => At(left[c], x) /\ x # t
    <2> SUFFICES ASSUME NEW c \in Batches, NEW x, At(rest[c], x)
                 PROVE  At(left[c], x) /\ x # t
      BY Zenon
    <2>1. CASE c = b
      BY <1>1, <1>3, <2>1, Zenon DEF Flow
    <2>2. CASE c # b
      BY <1>1, <1>5, <2>2, Zenon
    <2> QED
      BY <2>1, <2>2, Zenon
  <1>9. Ordered(rest)
    BY <1>1, <1>3, <1>8, Zenon DEF Flow, Ordered
  <1>10. Located(more, rest)
    <2>1. ASSUME NEW x \in Txns
          PROVE  At(more, x) \/ \E c \in Batches : At(rest[c], x)
      <3>1. At(taken, x) \/ \E c \in Batches : At(left[c], x)
        BY Zenon DEF Flow, Located
      <3> QED
        BY <1>1, <1>3, <1>4, <3>1, Zenon
    <2> QED
      BY <1>4, <1>8, <2>1, Zenon DEF Flow, Located
  <1>11. Flow(more, rest)
    BY <1>6, <1>7, <1>9, <1>10, Zenon DEF Flow
  <1> QED
    BY <1>11, Zenon DEF more, rest

----------------------------------------------------------------------------
\* What is left of the batches.

LEMMA LeftOutside ==
    ASSUME NEW at, at # "add_all", NEW i, NEW back, NEW rest,
           NEW batches \in [Batches -> Seq(Txns)]
    PROVE  Left(at, i, back, rest, batches) = batches
  BY Zenon DEF Left

LEMMA LeftAtCall ==
    ASSUME NEW i \in Batches, NEW batches \in [Batches -> Seq(Txns)]
    PROVE  Left("add_all", i, <<>>, batches[i], [batches EXCEPT ![i] = <<>>]) = batches
  <1>1. <<>> \o batches[i] = batches[i]
    BY SMT
  <1>2. ASSUME NEW b \in Batches
        PROVE  (IF "add_all" = "add_all" /\ b = i THEN <<>> \o batches[i]
                ELSE [batches EXCEPT ![i] = <<>>][b]) = batches[b]
    BY <1>1, Zenon
  <1> QED
    BY <1>2, Zenon DEF Left

LEMMA LeftAtReturn ==
    ASSUME NEW i, NEW back \in Seq(Txns), NEW rest \in Seq(Txns), rest # <<>>, NEW batches
    PROVE  Left("add_all", i, Append(back, Head(rest)), Tail(rest), batches)
               = Left("add_all", i, back, rest, batches)
  <1>1. Append(back, Head(rest)) \o Tail(rest) = back \o rest
    BY SMT
  <1> QED
    BY <1>1, Zenon DEF Left

LEMMA LeftAtEnd ==
    ASSUME NEW i \in Batches, NEW back \in Seq(Txns),
           NEW batches \in [Batches -> Seq(Txns)]
    PROVE  Left("add_all", i, back, <<>>, batches) = [batches EXCEPT ![i] = back]
  <1>1. back \o <<>> = back
    BY SMT
  <1>2. ASSUME NEW b \in Batches
        PROVE  (IF "add_all" = "add_all" /\ b = i THEN back \o <<>> ELSE batches[b])
                   = [batches EXCEPT ![i] = back][b]
    BY <1>1, Zenon
  <1> QED
    BY <1>2, Zenon DEF Left

LEMMA LeftAtInclude ==
    ASSUME NEW i \in Batches, NEW back \in Seq(Txns), NEW rest \in Seq(Txns), rest # <<>>,
           NEW batches \in [Batches -> Seq(Txns)]
    PROVE  LET left == Left("add_all", i, back, rest, batches)
               r == back \o Tail(rest)
           IN  /\ left \in [Batches -> Seq(Txns)] /\ r \in Seq(Txns)
               /\ Removed(left[i], r, Len(back) + 1)
               /\ left[i][Len(back) + 1] = Head(rest)
               /\ Left("add_all", i, back, Tail(rest), batches) = [left EXCEPT ![i] = r]
  <1> DEFINE left == Left("add_all", i, back, rest, batches)
             s == back \o rest
             r == back \o Tail(rest)
  <1>1. s \in Seq(Txns) /\ r \in Seq(Txns)
    BY SMT
  <1>2. /\ Len(s) = Len(r) + 1 /\ Len(back) + 1 \in 1 .. Len(s)
        /\ s[Len(back) + 1] = Head(rest)
    BY SMT
  <1>3. ASSUME NEW j \in 1 .. Len(r)
        PROVE  r[j] = s[IF j < Len(back) + 1 THEN j ELSE j + 1]
    <2>1. CASE j < Len(back) + 1
      BY <2>1, SMT
    <2>2. CASE ~(j < Len(back) + 1)
      BY <2>2, SMT
    <2> QED
      BY <2>1, <2>2, Zenon
  <1>4. Removed(s, r, Len(back) + 1)
    BY <1>2, <1>3, Zenon DEF Removed
  <1>5. left[i] = s
    BY Zenon DEF Left
  <1>6. left \in [Batches -> Seq(Txns)]
    BY <1>1, Zenon DEF Left
  <1>7. Left("add_all", i, back, Tail(rest), batches) = [left EXCEPT ![i] = r]
    BY Zenon DEF Left
  <1> QED
    BY <1>1, <1>2, <1>4, <1>5, <1>6, <1>7, Zenon

\* Where the next transaction is while add_all looks at it.
LEMMA Loop ==
    ASSUME TypeOK, AddAll
    PROVE  /\ pc = "add_all" /\ index \in Batches
           /\ txns \in [Batches -> Seq(Txns)]
           /\ return_vec \in Seq(Txns) /\ result \in Seq(Txns) /\ result # <<>>
           /\ Head(result) \in Txns
           /\ result' = Tail(result)
           /\ UNCHANGED <<pc, index, txns, full_block_skip, is_first, startlen, proposed,
                          good_block>>
  BY HeadTail, Zenon DEF TypeOK, AddAllType, DriverType, AddAll, AddNext, driver, input

\* A transaction is given back because the block is full or its sender is skipped, or
\* makes it so; only the latter counts as skipped, and only in good blocks.
LEMMA ReturnsBlock ==
    ASSUME TypeOK, AddAll
    PROVE  \/ /\ Returns(Head(result))
              /\ full' \/ (good_block /\ Sender[Head(result)] \in skipped_users')
              /\ ~good_block => non_user_skip' = non_user_skip
           \/ \E a : Include(Head(result), a)
  <1> DEFINE t == Head(result)
  <1>1. CASE ReturnWhenFull(t) \/ ReturnOfSkippedUser(t)
    <2>1. /\ full \/ UserSkipped(t)
          /\ return_vec' = Append(return_vec, t)
          /\ UNCHANGED <<filler, skipped_users, non_user_skip>>
      BY <1>1, Zenon DEF ReturnWhenFull, ReturnOfSkippedUser, GiveBack
    <2>2. Returns(t)
      BY <2>1, Zenon DEF Returns, filler
    <2>3. full' = full /\ skipped_users' = skipped_users
      BY <2>1, Zenon DEF filler
    <2>4. full' \/ (good_block /\ Sender[t] \in skipped_users')
      <3>1. CASE full
        BY <2>3, <3>1
      <3>2. CASE UserSkipped(t)
        BY <2>3, <3>2, Zenon DEF UserSkipped
      <3> QED
        BY <2>1, <3>1, <3>2, Zenon
    <2> QED
      BY <2>1, <2>2, <2>4, Zenon
  <1>2. CASE ReturnTooHot(t) \/ \E a : ReturnTooLong(t, a)
    <2>1. SkipUser(t) /\ good_block
      BY <1>2, Zenon DEF ReturnTooHot, ReturnTooLong, Bails, TooLong
    <2> QED
      BY <2>1, Zenon DEF SkipUser, GiveBack, Returns, filler
  <1>3. CASE \E a : ReturnNoGas(t, a)
    BY <1>3, Zenon DEF ReturnNoGas, GiveBack, Returns
  <1> QED
    BY <1>1, <1>2, <1>3, Zenon DEF AddAll, AddNext

\* A step moves one transaction into the block, or none and leaves everything in its place.
LEMMA FlowKinds ==
    ASSUME TypeOK, Idle, [Next]_vars
    PROVE  \/ Taken' = Taken /\ pending' = pending
           \/ AddAll /\ \E a : Include(Head(result), a)
  <1>0. /\ txns \in [Batches -> Seq(Txns)] /\ return_vec \in Seq(Txns)
        /\ block \in Seq(Txns) /\ proposed \in Seq(Txns)
    BY Zenon DEF TypeOK, FillerType, AddAllType, DriverType
  <1>1. CASE UNCHANGED vars
    BY <1>1, Zenon DEF vars, filler, driver, Taken, pending
  <1>2. CASE SkipBatch \/ EmptyBatch
    <2>1. /\ pc = "batch" /\ pc' \in {"batch", "done", "panic"}
          /\ UNCHANGED <<txns, result, return_vec, block, proposed>>
      BY <1>2, BatchGoesOn, Zenon DEF SkipBatch, EmptyBatch, filler
    <2>2. pending = txns /\ pending' = txns'
      BY <1>0, <2>1, LeftOutside, Zenon DEF pending
    <2> QED
      BY <2>1, <2>2, Zenon DEF Taken
  <1>3. CASE CallAddAll
    <2>1. /\ pc = "batch" /\ pc' = "add_all" /\ index' = index /\ result' = txns[index]
          /\ return_vec' = <<>> /\ txns' = [txns EXCEPT ![index] = <<>>]
          /\ UNCHANGED <<block, proposed>>
      BY <1>3, Zenon DEF CallAddAll, filler
    <2>2. index \in Batches
      BY <2>1, Zenon DEF TypeOK, DriverType
    <2>3. pending = txns
      BY <1>0, <2>1, LeftOutside, Zenon DEF pending
    <2>4. Left("add_all", index, <<>>, txns[index], [txns EXCEPT ![index] = <<>>]) = txns
      BY <1>0, <2>2, LeftAtCall, Zenon
    <2>5. pending' = txns
      BY <2>1, <2>4, Zenon DEF pending
    <2> QED
      BY <2>1, <2>3, <2>5, Zenon DEF Taken
  <1>4. CASE AddAll
    <2>1. ASSUME Returns(Head(result))
          PROVE  Taken' = Taken /\ pending' = pending
      <3>1. return_vec' = Append(return_vec, Head(result)) /\ block' = block
        BY <2>1, Zenon DEF Returns
      <3>2. Left("add_all", index, Append(return_vec, Head(result)), Tail(result), txns)
                = Left("add_all", index, return_vec, result, txns)
        <4>1. result \in Seq(Txns) /\ result # <<>>
          BY <1>4, Loop, Zenon
        <4> QED
          BY <1>0, <4>1, LeftAtReturn
      <3>3. pending' = pending
        BY <1>4, <3>1, <3>2, Loop, Zenon DEF pending
      <3> QED
        BY <1>4, <3>1, <3>3, Loop, Zenon DEF Taken
    <2> QED
      BY <1>4, <2>1, ReturnsBlock, Zenon
  <1>5. CASE EndBatch
    <2>1. /\ pc = "add_all" /\ pc' \in {"done", "batch", "panic"} /\ result = <<>>
          /\ txns' = [txns EXCEPT ![index] = return_vec]
          /\ UNCHANGED <<block, proposed>>
      BY <1>5, EndBatchGoesOn, Zenon DEF EndBatch
    <2>2. index \in Batches
      BY <2>1, Zenon DEF TypeOK, DriverType
    <2>3. pending = [txns EXCEPT ![index] = return_vec]
      BY <1>0, <2>1, <2>2, LeftAtEnd, Zenon DEF pending
    <2>4. txns' \in [Batches -> Seq(Txns)]
      BY <1>0, <2>1, Zenon
    <2>5. pending' = txns'
      BY <2>1, <2>4, LeftOutside, Zenon DEF pending
    <2> QED
      BY <2>1, <2>3, <2>5, Zenon DEF Taken
  <1>6. CASE FinishBlock
    <2>1. /\ pc = "done" /\ pc' \in {"end", "batch"} /\ txns' = txns
          /\ proposed' = proposed \o block /\ block' = <<>>
      BY <1>6, Zenon DEF FinishBlock, ReplaceFiller
    <2>2. pending = txns /\ pending' = txns'
      BY <1>0, <2>1, LeftOutside, Zenon DEF pending
    <2>3. (proposed \o block) \o <<>> = proposed \o block
      BY <1>0, SMT
    <2> QED
      BY <2>1, <2>2, <2>3, Zenon DEF Taken
  <1>7. CASE FinishBlockPanics
    <2>1. pending = txns /\ pending' = txns'
      BY <1>0, <1>7, PanicKeeps, LeftOutside, Zenon DEF pending
    <2> QED
      BY <1>7, <2>1, PanicKeeps, Zenon DEF Taken, filler
  <1> QED
    BY <1>1, <1>2, <1>3, <1>4, <1>5, <1>6, <1>7, Zenon DEF Next

\* A transaction put into the block is the first of its sender that is left.
LEMMA IncludeIsNext ==
    ASSUME TypeOK, FlowInv, AddAll, NEW t, t = Head(result), NEW a, Include(t, a),
           NEW s \in Txns, Before(s, t)
    PROVE  At(Taken, s)
  <1> SUFFICES ASSUME ~At(Taken, s) PROVE FALSE
    BY Zenon
  <1>0. PICK k \in Nat : k = Len(return_vec) + 1
    <2>1. Len(return_vec) + 1 \in Nat
      BY SMT DEF TypeOK, AddAllType
    <2> QED
      BY <2>1, Zenon
  <1>1. /\ pc = "add_all" /\ index \in Batches
        /\ pending[index] = return_vec \o result
        /\ \A c \in Batches : c # index => pending[c] = txns[c]
    BY Loop, Zenon DEF pending, Left
  <1>2. (return_vec \o result)[k] = t /\ k \in 1 .. Len(return_vec \o result)
    BY <1>0, Loop, SMT
  <1>3. ~full /\ ~(good_block /\ Sender[s] \in skipped_users)
    BY Zenon DEF Include, Considered, UserSkipped, Before
  <1>4. PICK c \in Batches : At(pending[c], s)
    BY Zenon DEF FlowInv, Flow, Located
  <1>5. c \in Int /\ index \in Int
    BY <1>1, <1>4, BuildingAssumption, SMT DEF Batches
  <1>6. CASE c < index
    <2>1. At(txns[c], s)
      BY <1>1, <1>4, <1>5, <1>6, SMT
    <2> QED
      BY <1>3, <1>6, <2>1, Zenon DEF FlowInv, Blocked
  <1>7. CASE index < c
    <2>1. At(pending[index], t)
      BY <1>1, <1>2, Zenon DEF At
    <2> QED
      BY <1>1, <1>4, <1>7, <2>1, Zenon DEF FlowInv, Flow, Ordered
  <1>8. CASE c = index
    <2>1. PICK i \in 1 .. Len(return_vec \o result) : (return_vec \o result)[i] = s
      BY <1>1, <1>4, <1>8, Zenon DEF At
    <2>2. CASE i < k
      <3>1. i \in 1 .. Len(return_vec) /\ return_vec[i] = s
        BY <1>0, <2>1, <2>2, Loop, SMT
      <3>2. At(return_vec, s)
        BY <3>1, Zenon DEF At
      <3> QED
        BY <1>3, <3>2, Zenon DEF FlowInv, Blocked
    <2>3. CASE k < i
      BY <1>1, <1>2, <2>1, <2>3, Zenon DEF FlowInv, Flow, Ordered, InOrder
    <2>4. CASE i = k
      <3>1. s = t
        BY <1>2, <2>1, <2>4, Zenon
      <3>2. SequenceNumber[s] < SequenceNumber[s] /\ SequenceNumber[s] \in Nat
        BY <3>1, BuildingAssumption, Zenon DEF Before
      <3> QED
        BY <3>2, SMT
    <2> QED
      BY <1>0, <2>1, <2>2, <2>3, <2>4, SMT
  <1> QED
    BY <1>5, <1>6, <1>7, <1>8, SMT

LEMMA FlowStep ==
    ASSUME TypeOK, FlowInv, [Next]_vars
    PROVE  Flow(Taken', pending')
  <1>1. CASE Taken' = Taken /\ pending' = pending
    BY <1>1, Zenon DEF FlowInv
  <1>2. ASSUME AddAll, NEW a, Include(Head(result), a)
        PROVE  Flow(Taken', pending')
    <2>0. PICK t : t = Head(result)
      BY Zenon
    <2>1. t \in Txns /\ Include(t, a)
      BY <1>2, <2>0, Loop, Zenon
    <2>2. /\ pc = "add_all" /\ index \in Batches /\ txns \in [Batches -> Seq(Txns)]
          /\ return_vec \in Seq(Txns) /\ result \in Seq(Txns) /\ result # <<>>
          /\ result' = Tail(result) /\ UNCHANGED <<pc, index, txns, proposed>>
      BY <1>2, Loop, Zenon
    <2> DEFINE r == return_vec \o Tail(result)
    <2>3. /\ pending \in [Batches -> Seq(Txns)] /\ r \in Seq(Txns)
          /\ Removed(pending[index], r, Len(return_vec) + 1)
          /\ pending[index][Len(return_vec) + 1] = t
          /\ Left("add_all", index, return_vec, Tail(result), txns)
                 = [pending EXCEPT ![index] = r]
      <3>1. pending = Left("add_all", index, return_vec, result, txns)
        BY <2>2, Zenon DEF pending
      <3>2. LET left == Left("add_all", index, return_vec, result, txns)
            IN  /\ left \in [Batches -> Seq(Txns)] /\ r \in Seq(Txns)
                /\ Removed(left[index], r, Len(return_vec) + 1)
                /\ left[index][Len(return_vec) + 1] = Head(result)
                /\ Left("add_all", index, return_vec, Tail(result), txns)
                       = [left EXCEPT ![index] = r]
        BY <2>2, LeftAtInclude, Zenon
      <3> QED
        BY <2>0, <3>1, <3>2, Zenon
    <2>4. block' = Append(block, t) /\ return_vec' = return_vec
      BY <2>1, Zenon DEF Include, Push
    <2>5. pending' = [pending EXCEPT ![index] = r]
      <3>1. pending' = Left("add_all", index, return_vec, Tail(result), txns)
        BY <2>2, <2>4, Zenon DEF pending
      <3> QED
        BY <2>3, <3>1, Zenon
    <2>6. Taken \in Seq(Txns) /\ Taken' = Append(Taken, t)
      <3>1. proposed \in Seq(Txns) /\ block \in Seq(Txns)
        BY Zenon DEF TypeOK, DriverType, FillerType
      <3>2. proposed \o block \in Seq(Txns)
        BY <3>1, SMT
      <3>3. proposed \o Append(block, t) = Append(proposed \o block, t)
        BY <2>1, <3>1, SMT
      <3> QED
        BY <2>2, <2>4, <3>2, <3>3, Zenon DEF Taken
    <2>7. \A s \in Txns : Before(s, t) => At(Taken, s)
      BY <1>2, <2>0, <2>1, IncludeIsNext, Zenon
    <2>8. Flow(Append(Taken, t), [pending EXCEPT ![index] = r])
      <3> HIDE DEF r
      <3>1. Flow(Taken, pending)
        BY Zenon DEF FlowInv
      <3> QED
        BY <2>1, <2>2, <2>3, <2>6, <2>7, <3>1, FlowInclude, Zenon
    <2> QED
      BY <2>5, <2>6, <2>8, Zenon
  <1> QED
    BY <1>1, <1>2, FlowKinds, Zenon DEF FlowInv

LEMMA IdleStep ==
    ASSUME TypeOK, Idle, [Next]_vars
    PROVE  Idle'
  <1>1. CASE UNCHANGED vars
    BY <1>1, Zenon DEF vars, driver, Idle
  <1>2. CASE SkipBatch \/ EmptyBatch
    BY <1>2, BatchGoesOn, Zenon DEF SkipBatch, EmptyBatch, Idle
  <1>3. CASE CallAddAll
    <2>1. index \in Batches /\ txns \in [Batches -> Seq(Txns)]
      BY <1>3, Zenon DEF CallAddAll, TypeOK, DriverType
    <2> QED
      BY <1>3, <2>1, Zenon DEF CallAddAll, Idle
  <1>4. CASE AddAll
    BY <1>4, Loop DEF Idle
  <1>5. CASE EndBatch
    BY <1>5, EndBatchGoesOn, Zenon DEF EndBatch, Idle
  <1>6. CASE FinishBlock
    BY <1>6, Zenon DEF FinishBlock, ReplaceFiller, Idle
  <1>7. CASE FinishBlockPanics
    BY <1>7, PanicKeeps, Zenon DEF Idle
  <1> QED
    BY <1>1, <1>2, <1>3, <1>4, <1>5, <1>6, <1>7, Zenon DEF Next

LEMMA NothingAt == \A s : ~At(<<>>, s)
  <1>1. 1 .. Len(<<>>) = {}
    BY SMT
  <1> QED
    BY <1>1, Zenon DEF At

\* A batch is passed over in good blocks only.
LEMMA SkipsInGoodBlocks ==
    ASSUME TypeOK, FlowInv, SkipBatch
    PROVE  good_block
  <1> SUFFICES ASSUME ~good_block PROVE FALSE
    BY Zenon
  <1>1. pc = "batch" /\ ~is_first /\ full_block_skip[index] /\ index \in Batches
    BY Zenon DEF SkipBatch, Skips, TypeOK, DriverType
  <1>2. index < index
    BY <1>1, Zenon DEF FlowInv, InSequence
  <1>3. index \in Int
    BY <1>1, BuildingAssumption, SMT DEF Batches
  <1> QED
    BY <1>2, <1>3, SMT

LEMMA BlockedStep ==
    ASSUME TypeOK, FlowInv, [Next]_vars
    PROVE  Blocked'
  <1> DEFINE Covered(s) == full \/ (good_block /\ Sender[s] \in skipped_users)
             CoveredNext(s) == full' \/ (good_block' /\ Sender[s] \in skipped_users')
  <1>1. /\ \A s : At(return_vec, s) => Covered(s)
        /\ \A s : \A b \in Batches : b < index /\ At(txns[b], s) => Covered(s)
    BY Zenon DEF FlowInv, Blocked
  <1> SUFFICES ASSUME NEW s
               PROVE  /\ At(return_vec', s) => CoveredNext(s)
                      /\ \A b \in Batches : b < index' /\ At(txns'[b], s) => CoveredNext(s)
    BY Zenon DEF Blocked
  <1>2. /\ txns \in [Batches -> Seq(Txns)] /\ index \in Int /\ full \in BOOLEAN
        /\ \A b \in Batches : b < index + 1 => b < index \/ b = index
    BY BuildingAssumption, SMT DEF TypeOK, DriverType, FillerType, Batches
  <1>3. CASE UNCHANGED vars
    BY <1>1, <1>3, Zenon DEF vars, filler, driver
  <1>4. CASE SkipBatch
    <2>1. /\ good_block' /\ UNCHANGED <<return_vec, txns, full>> /\ index' = index + 1
          /\ skipped_users' = skipped_users \cup UsersOf(txns[index])
          /\ full' = full /\ good_block
      BY <1>4, SkipsInGoodBlocks, Zenon DEF SkipBatch, filler, input
    <2>2. Covered(s) => CoveredNext(s)
      BY <1>2, <2>1
    <2>3. At(txns[index], s) => CoveredNext(s)
      <3>1. At(txns[index], s) => Sender[s] \in UsersOf(txns[index])
        <4>1. index \in Batches
          BY <1>4, Zenon DEF SkipBatch, TypeOK, DriverType
        <4>2. DOMAIN txns[index] = 1 .. Len(txns[index])
          BY <1>2, <4>1, SMT
        <4> QED
          BY <4>2, Zenon DEF At, UsersOf
      <3> QED
        BY <2>1, <3>1, Zenon
    <2> QED
      BY <1>1, <1>2, <2>1, <2>2, <2>3, Zenon
  <1>5. CASE EmptyBatch
    <2>1. /\ UNCHANGED <<return_vec, txns, full, skipped_users, good_block>>
          /\ index' = index \/ index' = index + 1
          /\ txns[index] = <<>>
      BY <1>5, Zenon DEF EmptyBatch, filler, input
    <2> QED
      BY <1>1, <1>2, <2>1, NothingAt, Zenon
  <1>6. CASE CallAddAll
    <2>1. /\ UNCHANGED <<full, skipped_users, good_block, index>>
          /\ txns' = [txns EXCEPT ![index] = <<>>] /\ return_vec' = <<>>
      BY <1>6, Zenon DEF CallAddAll, filler, input
    <2>2. \A b \in Batches : txns'[b] = txns[b] \/ txns'[b] = <<>>
      BY <1>2, <2>1, Zenon
    <2> QED
      BY <1>1, <2>1, <2>2, NothingAt, Zenon
  <1>7. CASE AddAll
    <2>0. UNCHANGED <<txns, index, good_block>>
      BY <1>7, Loop, Zenon
    <2>1. CASE /\ Returns(Head(result))
               /\ full' \/ (good_block /\ Sender[Head(result)] \in skipped_users')
      <3>1. Covered(s) => CoveredNext(s)
        <4>1. skipped_users \subseteq skipped_users'
          BY <2>1, Zenon DEF Returns
        <4>2. full => full'
          BY <1>2, <2>1 DEF Returns
        <4> QED
          BY <2>0, <4>1, <4>2, Zenon
      <3>2. At(return_vec', s) <=> At(return_vec, s) \/ s = Head(result)
        <4>1. /\ return_vec' = Append(return_vec, Head(result))
              /\ return_vec \in Seq(Txns) /\ Head(result) \in Txns
          BY <1>7, <2>1, Loop, Zenon DEF Returns
        <4>2. At(Append(return_vec, Head(result)), s) <=> At(return_vec, s) \/ s = Head(result)
          BY <4>1, AtAppend, Zenon
        <4> QED
          BY <4>1, <4>2, Zenon
      <3>3. CoveredNext(Head(result))
        BY <2>0, <2>1, Zenon
      <3> QED
        BY <1>1, <2>0, <3>1, <3>2, <3>3, Zenon
    <2>2. CASE \E a : Include(Head(result), a)
      <3>1. ~full /\ UNCHANGED <<return_vec, skipped_users>>
        BY <2>2, Zenon DEF Include, Considered
      <3> QED
        BY <1>1, <2>0, <3>1, Zenon
    <2> QED
      BY <1>7, <2>1, <2>2, ReturnsBlock, Zenon
  <1>8. CASE EndBatch
    <2>1. /\ UNCHANGED <<full, skipped_users, good_block>>
          /\ txns' = [txns EXCEPT ![index] = return_vec] /\ return_vec' = <<>>
          /\ index' = index \/ index' = index + 1
      BY <1>8, Zenon DEF EndBatch, input
    <2>2. \A b \in Batches : txns'[b] = IF b = index THEN return_vec ELSE txns[b]
      BY <1>2, <2>1, Zenon
    <2> QED
      BY <1>1, <1>2, <2>1, <2>2, NothingAt, Zenon
  <1>9. CASE FinishBlock
    <2>1. return_vec' = <<>> /\ index' = 0
      BY <1>9, Zenon DEF FinishBlock, ReplaceFiller
    <2>2. \A b \in Batches : ~(b < 0)
      BY BuildingAssumption, SMT DEF Batches
    <2> QED
      BY <2>1, <2>2, NothingAt, Zenon
  <1>10. CASE FinishBlockPanics
    <2>1. UNCHANGED <<return_vec, txns, full, skipped_users, good_block, index>>
      BY <1>10, PanicKeeps, Zenon DEF filler
    <2> QED
      BY <1>1, <2>1, Zenon
  <1> QED
    BY <1>3, <1>4, <1>5, <1>6, <1>7, <1>8, <1>9, <1>10, Zenon DEF Next

\* Below the batch from which a transaction goes into a block that need not be good,
\* nothing is left.
LEMMA IncludeInSequence ==
    ASSUME TypeOK, FlowInv, AddAll, NEW a, Include(Head(result), a), ~good_block
    PROVE  /\ \A i \in Batches : EmptyBelow(i) => EmptyBelow(i)'
           /\ EmptyBelow(index)'
           /\ \A i \in Batches : i # index => pending'[i] = pending[i]
  <1>1. /\ pc = "add_all" /\ index \in Batches /\ txns \in [Batches -> Seq(Txns)]
        /\ return_vec \in Seq(Txns) /\ result \in Seq(Txns) /\ result # <<>>
        /\ UNCHANGED <<pc, index, txns>>
    BY Loop, Zenon
  <1>2. /\ pending[index] = return_vec \o result
        /\ \A i \in Batches : i # index => pending[i] = txns[i] /\ pending'[i] = txns[i]
    BY <1>1, Zenon DEF pending, Left
  <1>3. return_vec \o result # <<>>
    BY <1>1, SMT
  <1>4. \A j \in Batches : j < index => j # index
    BY <1>1, BuildingAssumption, SMT DEF Batches
  <1>5. ASSUME NEW i \in Batches, EmptyBelow(i), NEW j \in Batches, j < i
        PROVE  pending'[j] = <<>>
    <2>1. pending[j] = <<>>
      BY <1>5, Zenon DEF EmptyBelow
    <2>2. j # index
      BY <1>2, <1>3, <2>1, Zenon
    <2> QED
      BY <1>2, <2>1, <2>2, Zenon
  <1>6. ASSUME NEW j \in Batches, j < index
        PROVE  pending'[j] = <<>>
    <2>1. ~full
      BY Zenon DEF Include, Considered
    <2>2. \A s : ~At(txns[j], s)
      BY <1>6, <2>1, Zenon DEF FlowInv, Blocked
    <2>3. txns[j] \in Seq(Txns) /\ ~At(txns[j], txns[j][1])
      BY <1>1, <2>2, Zenon
    <2>4. ~(1 \in 1 .. Len(txns[j]))
      BY <2>3, Zenon DEF At
    <2>5. txns[j] = <<>>
      BY <2>3, <2>4, SMT
    <2> QED
      BY <1>2, <1>4, <1>6, <2>5, Zenon
  <1> QED
    BY <1>1, <1>2, <1>5, <1>6, Zenon DEF EmptyBelow

LEMMA InSequenceStep ==
    ASSUME TypeOK, FlowInv, [Next]_vars
    PROVE  InSequence'
  <1>0. good_block' = good_block
    BY Zenon DEF Next, vars, SkipBatch, EmptyBatch, CallAddAll, AddAll, AddNext, EndBatch,
                 FinishBlock, FinishBlockPanics, input
  <1> SUFFICES ASSUME ~good_block PROVE InSequence'
    BY <1>0, Zenon DEF InSequence
  <1>1. /\ non_user_skip = 0
        /\ \A i \in Batches :
              /\ Len(pending[i]) < Len(InitialBatches[i]) => EmptyBelow(i)
              /\ full_block_skip[i] => EmptyBelow(i)
              /\ full_block_skip[i] /\ ~is_first => i < index \/ (i = index /\ pc # "batch")
        /\ pc = "add_all" /\ startlen < Len(InitialBatches[index]) => EmptyBelow(index)
    BY Zenon DEF FlowInv, InSequence
  <1>2. /\ index \in Int
        /\ \A i \in Batches : i \in Int
    BY BuildingAssumption, SMT DEF TypeOK, DriverType, Batches
  <1>3. pending' = pending => \A i : EmptyBelow(i)' <=> EmptyBelow(i)
    BY Zenon DEF EmptyBelow
  <1>4. pending' = pending \/ AddAll
    BY FlowKinds, Zenon DEF FlowInv
  <1>5. CASE UNCHANGED vars
    <2>1. pending' = pending
      BY <1>5, Zenon DEF vars, driver, pending
    <2> QED
      BY <1>0, <1>1, <1>3, <1>5, <2>1, Zenon DEF vars, driver, InSequence
  <1>6. CASE SkipBatch
    BY <1>6, SkipsInGoodBlocks, Zenon
  <1>7. CASE EmptyBatch
    <2>1. /\ pc = "batch" /\ pc' \in {"batch", "done", "panic"}
          /\ index' = index \/ index' = index + 1
          /\ UNCHANGED <<full_block_skip, is_first, non_user_skip>>
      BY <1>7, BatchGoesOn, Zenon DEF EmptyBatch
    <2>2. pending' = pending
      BY <1>4, <2>1, Zenon DEF AddAll
    <2>3. \A i \in Batches : i < index => i < index'
      BY <1>2, <2>1, SMT
    <2> QED
      BY <1>0, <1>1, <1>3, <2>1, <2>2, <2>3, Zenon DEF InSequence
  <1>8. CASE CallAddAll
    <2>1. /\ pc = "batch" /\ pc' = "add_all" /\ index' = index /\ non_user_skip' = 0
          /\ txns[index] # <<>> /\ startlen' = Len(txns[index]) /\ full_block_skip' = full_block_skip
      BY <1>8, Zenon DEF CallAddAll
    <2>2. index \in Batches /\ txns \in [Batches -> Seq(Txns)]
      BY <2>1, Zenon DEF TypeOK, DriverType
    <2>3. pending' = pending /\ pending = txns
      BY <1>4, <2>1, <2>2, LeftOutside, Zenon DEF AddAll, pending
    <2>4. \A i \in Batches : full_block_skip[i] => i < index \/ i = index
      <3>1. \A i \in Batches : full_block_skip[i] => ~(index < i)
        BY <1>1, <2>1, <2>2, <2>3, Zenon DEF EmptyBelow
      <3> QED
        BY <1>2, <3>1, SMT
    <2>5. startlen' < Len(InitialBatches[index]) => EmptyBelow(index)
      BY <1>1, <2>1, <2>2, <2>3, Zenon
    <2>6. \A i : EmptyBelow(i)' <=> EmptyBelow(i)
      BY <1>3, <2>3, Zenon
    <2>7. EmptyBelow(index)' <=> EmptyBelow(index)
      BY <2>1, <2>3, Zenon DEF EmptyBelow
    <2> QED
      BY <1>0, <1>1, <2>1, <2>3, <2>4, <2>5, <2>6, <2>7, Zenon DEF InSequence
  <1>9. CASE AddAll
    <2>1. /\ pc = "add_all" /\ index \in Batches
          /\ UNCHANGED <<pc, index, full_block_skip, is_first, startlen>>
      BY <1>9, Loop, Zenon
    <2>2. ASSUME Returns(Head(result)), non_user_skip' = non_user_skip
          PROVE  InSequence'
      <3>1. pending' = pending
        <4>1. /\ return_vec \in Seq(Txns) /\ result \in Seq(Txns) /\ result # <<>>
              /\ result' = Tail(result) /\ txns' = txns
              /\ return_vec' = Append(return_vec, Head(result))
          BY <1>9, <2>2, Loop, Zenon DEF Returns
        <4>2. Left("add_all", index, Append(return_vec, Head(result)), Tail(result), txns)
                  = Left("add_all", index, return_vec, result, txns)
          BY <4>1, LeftAtReturn
        <4> QED
          BY <2>1, <4>1, <4>2, Zenon DEF pending
      <3>2. EmptyBelow(index)' <=> EmptyBelow(index)
        BY <2>1, <3>1, Zenon DEF EmptyBelow
      <3> QED
        BY <1>0, <1>1, <1>3, <2>1, <2>2, <3>1, <3>2, Zenon DEF InSequence
    <2>3. ASSUME NEW a, Include(Head(result), a)
          PROVE  InSequence'
      <3>1. /\ \A i \in Batches : EmptyBelow(i) => EmptyBelow(i)'
            /\ EmptyBelow(index)'
            /\ \A i \in Batches : i # index => pending'[i] = pending[i]
        BY <1>9, <2>3, IncludeInSequence, Zenon
      <3>2. non_user_skip' = non_user_skip
        BY <2>3, Zenon DEF Include
      <3>3. \A i \in Batches : i = index => EmptyBelow(i)'
        BY <2>1, <3>1, Zenon DEF EmptyBelow
      <3> QED
        BY <1>0, <1>1, <2>1, <3>1, <3>2, <3>3, Zenon DEF InSequence
    <2> QED
      BY <1>9, <2>2, <2>3, ReturnsBlock, Zenon
  <1>10. CASE EndBatch
    <2>1. /\ pc = "add_all" /\ index \in Batches /\ ~is_first
          /\ full_block_skip \in [Batches -> BOOLEAN] /\ startlen \in Nat
          /\ UNCHANGED <<is_first, non_user_skip>>
          /\ full_block_skip' = [full_block_skip EXCEPT
                 ![index] = @ \/ non_user_skip + SkipSlack >= startlen]
          /\ \/ pc' \in {"done", "panic"} /\ index' = index
             \/ pc' \in {"batch", "panic"} /\ index' = index + 1
      BY <1>10, EndBatchGoesOn, Zenon DEF EndBatch, TypeOK, DriverType, FlowInv, Idle
    <2>2. pending' = pending
      BY <1>4, <1>10, Zenon DEF AddAll, AddNext, EndBatch
    <2>3. ASSUME NEW i \in Batches, full_block_skip'[i]
          PROVE  EmptyBelow(i) /\ (i < index \/ i = index)
      <3>1. CASE full_block_skip[i]
        BY <1>1, <2>1, <3>1, Zenon
      <3>2. CASE ~full_block_skip[i]
        <4>1. i = index /\ 0 + SkipSlack >= startlen
          BY <1>1, <2>1, <2>3, <3>2, Zenon
        <4>2. Len(InitialBatches[index]) > SkipSlack /\ InitialBatches[index] \in Seq(Txns)
          BY <2>1, BuildingAssumption, WorkloadAssumption, Zenon
        <4>3. startlen < Len(InitialBatches[index])
          BY <2>1, <4>1, <4>2, BuildingAssumption, SMT
        <4> QED
          BY <1>1, <2>1, <4>1, <4>3, Zenon
      <3> QED
        BY <3>1, <3>2, Zenon
    <2>4. \A i \in Batches : i < index \/ i = index =>
              i < index' \/ (i = index' /\ pc' # "batch")
      BY <1>2, <2>1, SMT
    <2> QED
      BY <1>0, <1>1, <1>3, <2>1, <2>2, <2>3, <2>4, Zenon DEF InSequence
  <1>11. CASE FinishBlock
    <2>1. /\ pc = "done" /\ pc' \in {"end", "batch"} /\ is_first' = TRUE
          /\ non_user_skip' = 0 /\ full_block_skip' = full_block_skip
      BY <1>11, Zenon DEF FinishBlock, ReplaceFiller
    <2>2. pending' = pending
      BY <1>4, <2>1, Zenon DEF AddAll
    <2> QED
      BY <1>0, <1>1, <1>3, <2>1, <2>2, Zenon DEF InSequence
  <1>12. CASE FinishBlockPanics
    <2>1. /\ pc = "done" /\ pc' = "panic"
          /\ UNCHANGED <<is_first, index, non_user_skip, full_block_skip>>
      BY <1>12, PanicKeeps, Zenon
    <2>2. pending' = pending
      BY <1>4, <2>1, Zenon DEF AddAll
    <2> QED
      BY <1>0, <1>1, <1>3, <2>1, <2>2, Zenon DEF InSequence
  <1> QED
    BY <1>5, <1>6, <1>7, <1>8, <1>9, <1>10, <1>11, <1>12, Zenon DEF Next

LEMMA FlowAtStart == Init => FlowInv
  <1> SUFFICES ASSUME Init PROVE FlowInv
    BY Zenon
  <1>0. TypeOK
    BY InitType, Zenon
  <1>1. /\ pc = "batch" /\ index = 0 /\ is_first = TRUE /\ result = <<>> /\ return_vec = <<>>
        /\ non_user_skip = 0 /\ block = <<>> /\ proposed = <<>> /\ txns = InitialBatches
        /\ full_block_skip = [i \in Batches |-> FALSE]
    BY Zenon DEF Init, NewFiller
  <1>2. Idle
    BY <1>1, Zenon DEF Idle
  <1>3. Blocked
    <2>1. \A b \in Batches : ~(b < 0)
      BY BuildingAssumption, SMT DEF Batches
    <2> QED
      BY <1>1, <2>1, NothingAt, Zenon DEF Blocked
  <1>4. Taken = <<>>
    BY <1>1, SMT DEF Taken
  <1>5. pending = InitialBatches
    BY <1>1, BuildingAssumption, LeftOutside, Zenon DEF pending
  <1>6. InSequence
    <2>1. \A i \in Batches : ~(Len(InitialBatches[i]) < Len(InitialBatches[i]))
      BY BuildingAssumption, SMT
    <2>2. \A i \in Batches : ~full_block_skip[i]
      BY <1>1, Zenon
    <2> QED
      BY <1>1, <1>5, <2>1, <2>2, Zenon DEF InSequence
  <1>7. Flow(<<>>, InitialBatches)
    <2>1. \A b \in Batches : DOMAIN InitialBatches[b] = 1 .. Len(InitialBatches[b])
      BY BuildingAssumption, SMT
    <2>2. \A t \in Txns : \E b \in Batches : At(InitialBatches[b], t)
      BY <2>1, WorkloadAssumption, Zenon DEF At
    <2>3. \A b, c \in Batches :
            \A i \in 1 .. Len(InitialBatches[b]), j \in 1 .. Len(InitialBatches[c]) :
              b < c \/ (b = c /\ i < j) =>
                  /\ InitialBatches[b][i] # InitialBatches[c][j]
                  /\ ~Before(InitialBatches[c][j], InitialBatches[b][i])
      <3>1. ASSUME NEW b \in Batches, NEW c \in Batches,
                   NEW i \in 1 .. Len(InitialBatches[b]),
                   NEW j \in 1 .. Len(InitialBatches[c]), b < c \/ (b = c /\ i < j)
            PROVE  /\ InitialBatches[b][i] # InitialBatches[c][j]
                   /\ ~Before(InitialBatches[c][j], InitialBatches[b][i])
        <4>1. i \in DOMAIN InitialBatches[b] /\ j \in DOMAIN InitialBatches[c]
          BY <2>1, Zenon
        <4>2. \A k \in DOMAIN InitialBatches[b], l \in DOMAIN InitialBatches[c] :
                b < c \/ (b = c /\ k < l) =>
                    /\ InitialBatches[b][k] # InitialBatches[c][l]
                    /\ ~Before(InitialBatches[c][l], InitialBatches[b][k])
          BY WorkloadAssumption, Zenon
        <4> QED
          BY <3>1, <4>1, <4>2, Zenon
      <3> QED
        BY <3>1, Zenon
    <2>4. \A b, c \in Batches : b < c \/ c < b \/ b = c
      BY BuildingAssumption, SMT DEF Batches
    <2>5. ASSUME NEW b \in Batches, NEW c \in Batches, NEW t,
                 At(InitialBatches[b], t), At(InitialBatches[c], t)
          PROVE  c = b
      BY <2>3, <2>4, <2>5, Zenon DEF At
    <2>6. \A b \in Batches : InOrder(InitialBatches[b])
      BY <2>3, Zenon DEF InOrder
    <2>7. \A b, c \in Batches : \A s, t :
             b < c /\ At(InitialBatches[b], s) /\ At(InitialBatches[c], t) => ~Before(t, s)
      <3>1. ASSUME NEW b \in Batches, NEW c \in Batches, NEW s, NEW t,
                   b < c, At(InitialBatches[b], s), At(InitialBatches[c], t)
            PROVE  ~Before(t, s)
        <4>1. PICK i \in 1 .. Len(InitialBatches[b]) : InitialBatches[b][i] = s
          BY <3>1, Zenon DEF At
        <4>2. PICK j \in 1 .. Len(InitialBatches[c]) : InitialBatches[c][j] = t
          BY <3>1, Zenon DEF At
        <4>3. ~Before(InitialBatches[c][j], InitialBatches[b][i])
          BY <2>3, <3>1, Zenon
        <4> QED
          BY <4>1, <4>2, <4>3, Zenon
      <3> QED
        BY <3>1, Zenon
    <2>8. ASSUME NEW b \in Batches
          PROVE  NoRepeats(InitialBatches[b])
      <3>1. \A i, j \in 1 .. Len(InitialBatches[b]) : i < j \/ j < i \/ i = j
        BY BuildingAssumption, SMT
      <3> QED
        BY <2>3, <3>1, Zenon DEF NoRepeats
    <2>9. 1 .. Len(<<>>) = {}
      BY SMT
    <2>10. NoRepeats(<<>>) /\ Led(<<>>)
      BY <2>9, Zenon DEF NoRepeats, Led
    <2>11. Located(<<>>, InitialBatches)
      BY <2>2, <2>5, NothingAt, Zenon DEF Located
    <2>12. Ordered(InitialBatches)
      BY <2>6, <2>7, Zenon DEF Ordered
    <2> QED
      BY <2>8, <2>10, <2>11, <2>12, Zenon DEF Flow
  <1> QED
    BY <1>2, <1>3, <1>4, <1>5, <1>6, <1>7, Zenon DEF FlowInv

\* What is taken and what is left, in its order, is an invariant of the builder.
THEOREM FlowInvariant == Spec => [](TypeOK /\ FlowInv)
  <1>1. Init => TypeOK /\ FlowInv
    BY InitType, FlowAtStart, Zenon
  <1>2. TypeOK /\ FlowInv /\ [Next]_vars => (TypeOK /\ FlowInv)'
    <2> SUFFICES ASSUME TypeOK, FlowInv, [Next]_vars PROVE TypeOK' /\ FlowInv'
      BY Zenon
    <2>1. TypeOK'
      BY NextType, Zenon
    <2>2. Idle' /\ Blocked' /\ InSequence' /\ Flow(Taken, pending)'
      BY IdleStep, BlockedStep, InSequenceStep, FlowStep, Zenon DEF FlowInv
    <2> QED
      BY <2>1, <2>2, Zenon DEF FlowInv
  <1> QED
    BY <1>1, <1>2, PTL DEF Spec

\* For every workload, limit and number of batches, the transactions of one sender go into
\* blocks in the order of their sequence numbers and without a gap: full, skipped_users and
\* the batches passed over by get_transaction_register keep later ones out.
THEOREM SendersKeepOrder == Spec => []SenderOrder
  <1>1. TypeOK /\ FlowInv => SenderOrder
    BY Zenon DEF FlowInv, Flow, Led, SenderOrder
  <1> QED
    BY <1>1, FlowInvariant, PTL

LEMMA DomainOfSeq == \A s \in Seq(Txns) : DOMAIN s = 1 .. Len(s) /\ Len(s) \in Nat
  BY SMT

LEMMA NoOccurrence ==
    ASSUME NEW s \in Seq(Txns), NEW t, ~At(s, t)
    PROVE  Occurrences(s, t) = 0
  <1>1. {i \in DOMAIN s : s[i] = t} = {}
    BY DomainOfSeq, Zenon DEF At
  <1> QED
    BY <1>1, FS_EmptySet DEF Occurrences

LEMMA OneOccurrence ==
    ASSUME NEW s \in Seq(Txns), NEW t, At(s, t), NoRepeats(s)
    PROVE  Occurrences(s, t) = 1
  <1>1. PICK i \in 1 .. Len(s) : s[i] = t
    BY Zenon DEF At
  <1>2. {j \in DOMAIN s : s[j] = t} = {i}
    BY <1>1, DomainOfSeq, Zenon DEF NoRepeats
  <1> QED
    BY <1>2, FS_Singleton DEF Occurrences

LEMMA InNoBatch ==
    ASSUME TypeOK, NEW t, \A b \in Batches : ~At(txns[b], t)
    PROVE  Cardinality(InBatches(t)) = 0
  <1>1. \A b \in Batches : txns[b] \in Seq(Txns)
    BY Zenon DEF TypeOK, DriverType
  <1>2. \A b \in Batches : {i \in DOMAIN txns[b] : txns[b][i] = t} = {}
    BY <1>1, DomainOfSeq, Zenon DEF At
  <1>3. InBatches(t) = {}
    BY <1>2, Zenon DEF InBatches
  <1> QED
    BY <1>3, FS_EmptySet

LEMMA InOneBatch ==
    ASSUME TypeOK, NEW t, NEW b \in Batches, At(txns[b], t), NoRepeats(txns[b]),
           \A c \in Batches : At(txns[c], t) => c = b
    PROVE  Cardinality(InBatches(t)) = 1
  <1>1. \A c \in Batches : txns[c] \in Seq(Txns)
    BY Zenon DEF TypeOK, DriverType
  <1>2. PICK i \in 1 .. Len(txns[b]) : txns[b][i] = t
    BY Zenon DEF At
  <1>3. {j \in DOMAIN txns[b] : txns[b][j] = t} = {i}
    BY <1>1, <1>2, DomainOfSeq, Zenon DEF NoRepeats
  <1>4. \A c \in Batches : c # b => {j \in DOMAIN txns[c] : txns[c][j] = t} = {}
    BY <1>1, DomainOfSeq, Zenon DEF At
  <1>5. InBatches(t) = {<<b, i>>}
    <2>1. ASSUME NEW x \in InBatches(t)
          PROVE  x = <<b, i>>
      <3>1. PICK c \in Batches : \E j \in {j \in DOMAIN txns[c] : txns[c][j] = t} : x = <<c, j>>
        BY Zenon DEF InBatches
      <3>2. c = b
        BY <1>4, <3>1, Zenon
      <3> QED
        BY <1>3, <3>1, <3>2, Zenon
    <2>2. <<b, i>> \in InBatches(t)
      <3>1. i \in {j \in DOMAIN txns[b] : txns[b][j] = t}
        BY <1>3, Zenon
      <3>2. <<b, i>> \in {<<b, k>> : k \in {j \in DOMAIN txns[b] : txns[b][j] = t}}
        BY <3>1, Zenon
      <3> QED
        BY <3>2, Zenon DEF InBatches
    <2> QED
      BY <2>1, <2>2, Zenon
  <1> QED
    BY <1>5, FS_Singleton

\* What add_all has given back and what it has not looked at share no transaction.
LEMMA Halves ==
    ASSUME NEW r \in Seq(Txns), NEW s \in Seq(Txns), NoRepeats(r \o s)
    PROVE  /\ NoRepeats(r) /\ NoRepeats(s)
           /\ \A t : At(r \o s, t) <=> At(r, t) \/ At(s, t)
           /\ \A t : ~(At(r, t) /\ At(s, t))
  <1>1. /\ Len(r) \in Nat /\ Len(s) \in Nat /\ Len(r \o s) = Len(r) + Len(s)
        /\ \A i \in 1 .. Len(r) : (r \o s)[i] = r[i] /\ i \in 1 .. Len(r \o s)
        /\ \A j \in 1 .. Len(s) : /\ (r \o s)[Len(r) + j] = s[j]
                                  /\ Len(r) + j \in 1 .. Len(r \o s)
        /\ \A k \in 1 .. Len(r \o s) : k \in 1 .. Len(r) \/ k - Len(r) \in 1 .. Len(s)
        /\ \A k \in 1 .. Len(r \o s) : k = Len(r) + (k - Len(r))
        /\ \A i \in 1 .. Len(r), j \in 1 .. Len(s) : i # Len(r) + j
        /\ \A i, j \in 1 .. Len(s) : Len(r) + i = Len(r) + j => i = j
    BY SMT
  <1>2. NoRepeats(r)
    BY <1>1, Zenon DEF NoRepeats
  <1>3. NoRepeats(s)
    BY <1>1, Zenon DEF NoRepeats
  <1>4. ASSUME NEW t
        PROVE  At(r \o s, t) <=> At(r, t) \/ At(s, t)
    <2>1. ASSUME At(r, t)
          PROVE  At(r \o s, t)
      BY <1>1, <2>1, Zenon DEF At
    <2>2. ASSUME At(s, t)
          PROVE  At(r \o s, t)
      BY <1>1, <2>2, Zenon DEF At
    <2>3. ASSUME At(r \o s, t)
          PROVE  At(r, t) \/ At(s, t)
      <3>1. PICK k \in 1 .. Len(r \o s) : (r \o s)[k] = t
        BY <2>3, Zenon DEF At
      <3>2. CASE k \in 1 .. Len(r)
        BY <1>1, <3>1, <3>2, Zenon DEF At
      <3>3. CASE k - Len(r) \in 1 .. Len(s)
        <4>1. s[k - Len(r)] = t
          BY <1>1, <3>1, <3>3, Zenon
        <4> QED
          BY <3>3, <4>1, Zenon DEF At
      <3> QED
        BY <1>1, <3>2, <3>3, Zenon
    <2> QED
      BY <2>1, <2>2, <2>3, Zenon
  <1>5. ASSUME NEW t, At(r, t), At(s, t)
        PROVE  FALSE
    <2>1. PICK i \in 1 .. Len(r) : r[i] = t
      BY <1>5, Zenon DEF At
    <2>2. PICK j \in 1 .. Len(s) : s[j] = t
      BY <1>5, Zenon DEF At
    <2>3. (r \o s)[i] = (r \o s)[Len(r) + j]
      BY <1>1, <2>1, <2>2, Zenon
    <2>4. i = Len(r) + j
      BY <1>1, <2>3, Zenon DEF NoRepeats
    <2> QED
      BY <1>1, <2>4, Zenon
  <1> QED
    BY <1>2, <1>3, <1>4, <1>5, Zenon

LEMMA EverythingOnce == ASSUME TypeOK, FlowInv PROVE NothingLost
  <1> DEFINE Counts(t) == Occurrences(Taken, t) + Occurrences(result, t)
                              + Occurrences(return_vec, t) + Cardinality(InBatches(t))
  <1>1. /\ result \in Seq(Txns) /\ return_vec \in Seq(Txns) /\ Taken \in Seq(Txns)
        /\ txns \in [Batches -> Seq(Txns)] /\ <<>> \in Seq(Txns)
    BY SMT DEF TypeOK, AddAllType, DriverType, FillerType, Taken
  <1>2. /\ Located(Taken, pending) /\ NoRepeats(Taken)
        /\ \A b \in Batches : NoRepeats(pending[b])
    BY Zenon DEF FlowInv, Flow
  <1>3. ASSUME pc # "add_all", NEW t \in Txns
        PROVE  Counts(t) = 1
    <2>1. result = <<>> /\ return_vec = <<>> /\ pending = txns
      BY <1>1, <1>3, LeftOutside, Zenon DEF FlowInv, Idle, pending
    <2>2. Occurrences(result, t) = 0 /\ Occurrences(return_vec, t) = 0
      BY <1>1, <2>1, NothingAt, NoOccurrence, Zenon
    <2>3. CASE At(Taken, t)
      <3>1. Occurrences(Taken, t) = 1
        BY <1>1, <1>2, <2>3, OneOccurrence, Zenon
      <3>2. \A b \in Batches : ~At(txns[b], t)
        BY <1>2, <2>1, <2>3, Zenon DEF Located
      <3>3. Cardinality(InBatches(t)) = 0
        BY <3>2, InNoBatch, Zenon
      <3> QED
        BY <2>2, <3>1, <3>3, SMT
    <2>4. CASE ~At(Taken, t)
      <3>1. Occurrences(Taken, t) = 0
        BY <1>1, <2>4, NoOccurrence, Zenon
      <3>2. PICK b \in Batches : At(txns[b], t)
        BY <1>2, <2>1, <2>4, Zenon DEF Located
      <3>3. \A c \in Batches : At(txns[c], t) => c = b
        BY <1>2, <2>1, <3>2, Zenon DEF Located
      <3>4. NoRepeats(txns[b])
        BY <1>2, <2>1, Zenon
      <3>5. Cardinality(InBatches(t)) = 1
        BY <3>2, <3>3, <3>4, InOneBatch, Zenon
      <3> QED
        BY <2>2, <3>1, <3>5, SMT
    <2> QED
      BY <2>3, <2>4, Zenon
  <1>4. ASSUME pc = "add_all", NEW t \in Txns
        PROVE  Counts(t) = 1
    <2>1. index \in Batches /\ txns[index] = <<>>
      BY <1>4, Zenon DEF TypeOK, DriverType, FlowInv, Idle
    <2>2. pending[index] = return_vec \o result
      BY <1>4, <2>1, Zenon DEF pending, Left
    <2>3. \A b \in Batches : b # index => pending[b] = txns[b]
      BY <1>4, Zenon DEF pending, Left
    <2>4. /\ NoRepeats(return_vec) /\ NoRepeats(result)
          /\ At(pending[index], t) <=> At(return_vec, t) \/ At(result, t)
          /\ ~(At(return_vec, t) /\ At(result, t))
      <3>1. NoRepeats(return_vec \o result)
        BY <1>2, <2>1, <2>2, Zenon
      <3> QED
        <4>1. /\ NoRepeats(return_vec) /\ NoRepeats(result)
              /\ \A u : At(return_vec \o result, u) <=> At(return_vec, u) \/ At(result, u)
              /\ \A u : ~(At(return_vec, u) /\ At(result, u))
          BY <1>1, <3>1, Halves
        <4> QED
          BY <2>2, <4>1, Zenon
    <2>5. ~At(txns[index], t)
      BY <2>1, NothingAt, Zenon
    <2>6. CASE At(Taken, t)
      <3>1. Occurrences(Taken, t) = 1
        BY <1>1, <1>2, <2>6, OneOccurrence, Zenon
      <3>2. \A b \in Batches : ~At(pending[b], t)
        BY <1>2, <2>6, Zenon DEF Located
      <3>3. Cardinality(InBatches(t)) = 0
        BY <2>3, <2>5, <3>2, InNoBatch, Zenon
      <3>4. Occurrences(result, t) = 0 /\ Occurrences(return_vec, t) = 0
        BY <1>1, <2>1, <2>4, <3>2, NoOccurrence, Zenon
      <3> QED
        BY <3>1, <3>3, <3>4, SMT
    <2>7. CASE ~At(Taken, t) /\ At(pending[index], t)
      <3>1. Occurrences(Taken, t) = 0
        BY <1>1, <2>7, NoOccurrence, Zenon
      <3>2. \A b \in Batches : b # index => ~At(pending[b], t)
        BY <1>2, <2>1, <2>7, Zenon DEF Located
      <3>3. Cardinality(InBatches(t)) = 0
        BY <2>3, <2>5, <3>2, InNoBatch, Zenon
      <3>4. CASE At(result, t)
        <4>1. Occurrences(result, t) = 1 /\ Occurrences(return_vec, t) = 0
          BY <1>1, <2>4, <3>4, OneOccurrence, NoOccurrence, Zenon
        <4> QED
          BY <3>1, <3>3, <4>1, SMT
      <3>5. CASE At(return_vec, t)
        <4>1. Occurrences(result, t) = 0 /\ Occurrences(return_vec, t) = 1
          BY <1>1, <2>4, <3>5, OneOccurrence, NoOccurrence, Zenon
        <4> QED
          BY <3>1, <3>3, <4>1, SMT
      <3> QED
        BY <2>4, <2>7, <3>4, <3>5, Zenon
    <2>8. CASE ~At(Taken, t) /\ ~At(pending[index], t)
      <3>1. Occurrences(Taken, t) = 0
        BY <1>1, <2>8, NoOccurrence, Zenon
      <3>2. PICK b \in Batches : At(pending[b], t)
        BY <1>2, <2>8, Zenon DEF Located
      <3>3. b # index /\ pending[b] = txns[b]
        BY <2>3, <2>8, <3>2, Zenon
      <3>4. At(txns[b], t) /\ NoRepeats(txns[b])
        BY <1>2, <3>2, <3>3, Zenon
      <3>5. ASSUME NEW c \in Batches, At(txns[c], t)
            PROVE  c = b
        <4>1. c # index
          BY <2>5, <3>5, Zenon
        <4>2. At(pending[c], t)
          BY <2>3, <3>5, <4>1, Zenon
        <4> QED
          BY <1>2, <3>2, <4>2, Zenon DEF Located
      <3>6. Cardinality(InBatches(t)) = 1
        BY <3>4, <3>5, InOneBatch, Zenon
      <3>7. Occurrences(result, t) = 0 /\ Occurrences(return_vec, t) = 0
        BY <1>1, <2>4, <2>8, NoOccurrence, Zenon
      <3> QED
        BY <3>1, <3>6, <3>7, SMT
    <2> QED
      BY <2>6, <2>7, <2>8, Zenon
  <1> QED
    BY <1>3, <1>4, Zenon DEF NothingLost

\* For every workload, limit and number of batches, draining a batch, giving transactions
\* back and putting the rest into blocks keeps every transaction in exactly one place.
THEOREM NothingIsLost == Spec => []NothingLost
  <1>1. TypeOK /\ FlowInv => NothingLost
    BY EverythingOnce
  <1> QED
    BY <1>1, FlowInvariant, PTL

----------------------------------------------------------------------------
\* The counters of the loop.

\* A batch never grows past the length it was made with, and the counters hold what a
\* u16 can.
Counts ==
    /\ \A b \in Batches : Len(txns[b]) <= BatchSize
    /\ Len(result) + Len(return_vec) <= BatchSize
    /\ first_iter_tx \in 0 .. MaxCount
    /\ total_tx \in 0 .. MaxCount

LEMMA CountInRange ==
    ASSUME first_iter_tx \in 0 .. MaxCount, NEW n \in Nat, NEW next, Count(n, next)
    PROVE  first_iter_tx' \in 0 .. MaxCount
  BY BuildingAssumption, SMT DEF Count

LEMMA CountsStep == ASSUME TypeOK, Counts, [Next]_vars PROVE Counts'
  <1>1. /\ txns \in [Batches -> Seq(Txns)] /\ return_vec \in Seq(Txns)
        /\ result \in Seq(Txns)
    BY Zenon DEF TypeOK, DriverType, AddAllType
  <1>2. BatchSize \in Nat /\ MaxCount \in Nat
    BY BuildingAssumption, Zenon
  <1>3. CASE UNCHANGED vars
    BY <1>3, Zenon DEF vars, driver, Counts
  <1>4. CASE SkipBatch \/ EmptyBatch
    <2>1. UNCHANGED <<txns, result, return_vec, total_tx>> /\ index \in Batches
      BY <1>4, Zenon DEF SkipBatch, EmptyBatch, TypeOK, DriverType
    <2>2. BatchSize - Len(txns[index]) \in Nat
      <3>1. txns[index] \in Seq(Txns) /\ Len(txns[index]) <= BatchSize
        BY <1>1, <2>1, Zenon DEF Counts
      <3> QED
        BY <1>2, <3>1, SMT
    <2>3. first_iter_tx' \in 0 .. MaxCount
      BY <1>2, <1>4, <2>2, CountInRange, Zenon DEF SkipBatch, EmptyBatch, Counts
    <2> QED
      BY <2>1, <2>3, Zenon DEF Counts
  <1>5. CASE CallAddAll
    <2>1. /\ index \in Batches /\ result' = txns[index] /\ return_vec' = <<>>
          /\ txns' = [txns EXCEPT ![index] = <<>>]
          /\ UNCHANGED <<first_iter_tx, total_tx>>
      BY <1>5, Zenon DEF CallAddAll, TypeOK, DriverType
    <2>2. txns[index] \in Seq(Txns) /\ Len(txns[index]) <= BatchSize
      BY <1>1, <2>1, Zenon DEF Counts
    <2>3. Len(result') + Len(return_vec') <= BatchSize
      BY <1>2, <2>1, <2>2, SMT
    <2>4. ASSUME NEW b \in Batches PROVE Len(txns'[b]) <= BatchSize
      <3>1. txns'[b] = <<>> \/ txns'[b] = txns[b]
        BY <1>1, <2>1, Zenon
      <3>2. Len(<<>>) <= BatchSize /\ Len(txns[b]) <= BatchSize
        BY <1>2, SMT DEF Counts
      <3> QED
        BY <3>1, <3>2, Zenon
    <2> QED
      BY <2>1, <2>3, <2>4, Zenon DEF Counts
  <1>6. CASE AddAll
    <2>1. UNCHANGED <<txns, first_iter_tx, total_tx>>
      BY <1>6, Zenon DEF AddAll, driver
    <2>2. /\ result # <<>> /\ result' = Tail(result)
          /\ \/ return_vec' = Append(return_vec, Head(result))
             \/ return_vec' = return_vec
      BY <1>6, AddAllKinds, Zenon DEF Returns, Include
    <2>3. Len(result') + Len(return_vec') <= Len(result) + Len(return_vec)
      <3>1. Head(result) \in Txns /\ Len(Tail(result)) = Len(result) - 1
        BY <1>1, <2>2, SMT
      <3>2. Len(return_vec') <= Len(return_vec) + 1 /\ Len(return_vec') \in Nat
        BY <1>1, <2>2, <3>1, SMT
      <3>3. Len(result) \in Nat /\ Len(return_vec) \in Nat
        BY <1>1, SMT
      <3> QED
        BY <2>2, <3>1, <3>2, <3>3, SMT
    <2>4. /\ Len(result) \in Nat /\ Len(return_vec) \in Nat
          /\ Len(result') \in Nat /\ Len(return_vec') \in Nat
      <3>1. Head(result) \in Txns /\ Tail(result) \in Seq(Txns)
        BY <1>1, <2>2, SMT
      <3> QED
        BY <1>1, <2>2, <3>1, SMT
    <2>5. Len(result') + Len(return_vec') <= BatchSize
      BY <1>2, <2>3, <2>4, SMT DEF Counts
    <2> QED
      BY <2>1, <2>5, Zenon DEF Counts
  <1>7. CASE EndBatch
    <2>1. /\ index \in Batches /\ result = <<>> /\ result' = result /\ return_vec' = <<>>
          /\ txns' = [txns EXCEPT ![index] = return_vec]
          /\ total_tx' = total_tx
      BY <1>7, Zenon DEF EndBatch, input, TypeOK, DriverType
    <2>2. Len(return_vec) <= BatchSize /\ Len(return_vec) \in Nat
      <3>1. Len(result) = 0
        BY <2>1, SMT
      <3>2. Len(return_vec) \in Nat
        BY <1>1, SMT
      <3> QED
        BY <1>2, <3>1, <3>2, SMT DEF Counts
    <2>3. first_iter_tx' \in 0 .. MaxCount
      <3>1. (IF index < Goal THEN BatchSize - Len(return_vec) ELSE 0) \in Nat
        BY <1>2, <2>2, SMT
      <3> QED
        BY <1>7, <3>1, CountInRange, Zenon DEF EndBatch, Counts
    <2>4. Len(result') + Len(return_vec') <= BatchSize
      BY <1>2, <2>1, SMT
    <2>5. ASSUME NEW b \in Batches PROVE Len(txns'[b]) <= BatchSize
      <3>1. txns'[b] = return_vec \/ txns'[b] = txns[b]
        BY <1>1, <2>1, Zenon
      <3> QED
        BY <2>2, <3>1, Zenon DEF Counts
    <2> QED
      BY <2>1, <2>3, <2>4, <2>5, Zenon DEF Counts
  <1>8. CASE FinishBlock
    <2>1. /\ txns' = txns /\ total_tx' = first_iter_tx /\ first_iter_tx' = 0
          /\ result' = <<>> /\ return_vec' = <<>>
      BY <1>8, Zenon DEF FinishBlock, ReplaceFiller
    <2>2. Len(result') + Len(return_vec') <= BatchSize
      BY <1>2, <2>1, SMT
    <2>3. 0 \in 0 .. MaxCount
      BY <1>2, SMT
    <2> QED
      BY <2>1, <2>2, <2>3, Zenon DEF Counts
  <1>9. CASE FinishBlockPanics
    BY <1>9, PanicKeeps, Zenon DEF Counts
  <1> QED
    BY <1>3, <1>4, <1>5, <1>6, <1>7, <1>8, <1>9, Zenon DEF Next

\* For every workload, limit and number of batches, what get_transaction_register adds to
\* first_iter_tx, 10000 less the length of a batch as a u16, is never negative, and the
\* counters stay in the range of a u16: the overflow of the sum and the underflow of
\* first_iter_tx - total_tx are the only ways in which counting panics.
THEOREM CountersKept == Spec => []Counts
  <1>1. Init => Counts
    <2> SUFFICES ASSUME Init PROVE Counts
      OBVIOUS
    <2>1. /\ txns = InitialBatches /\ result = <<>> /\ return_vec = <<>>
          /\ first_iter_tx = 0 /\ total_tx = 0
      BY Zenon DEF Init, NewFiller
    <2>2. BatchSize \in Nat /\ MaxCount \in Nat
      BY BuildingAssumption, Zenon
    <2>3. Len(result) + Len(return_vec) <= BatchSize /\ 0 \in 0 .. MaxCount
      BY <2>1, <2>2, SMT
    <2>4. \A b \in Batches : Len(txns[b]) <= BatchSize
      BY <2>1, <2>2, WorkloadAssumption, SMT
    <2> QED
      BY <2>1, <2>3, <2>4, Zenon DEF Counts
  <1>2. TypeOK /\ Counts /\ [Next]_vars => Counts'
    BY CountsStep, Zenon
  <1> QED
    BY <1>1, <1>2, BuilderTypeCorrect, PTL DEF Spec

=============================================================================
