----------------------------- MODULE BlockBuilding -----------------------------
(****************************************************************************)
(* Building block after block from batches of pending transactions, as      *)
(* get_transaction_register and the loop around it do                       *)
(* (aptos-move/e2e-testsuite/tests/run_benchmark.rs): each block is filled  *)
(* from the batches in order, what the filler gives back stays in its       *)
(* batch, and a batch that gave nothing is passed over in later blocks      *)
(* unless it is the first.                                                  *)
(****************************************************************************)
EXTENDS DependencyFiller

CONSTANTS
    NumBatches,         \* num_blocks
    InitialBatches,     \* the output of create_block
    SequenceNumber,     \* of each transaction, in the order of its sender
    Profiles,           \* what speculation may have found
    BatchSize,          \* 10000: length of a fresh batch
    Goal,               \* BATCHES = 5: the batches that first_iter_tx counts
    MaxCount,           \* 65535: what first_iter_tx, a u16, can hold
    NearFull,           \* 9990: a block of this size is good enough
    SkipSlack,          \* 25: a batch with so few other transactions is skipped
    RelaxFactor         \* 2: a batch that gave less than 1/2 of its share relaxes

Batches == 0 .. NumBatches - 1

ASSUME BuildingAssumption ==
    /\ NumBatches \in Nat \ {0}
    /\ InitialBatches \in [Batches -> Seq(Txns)]
    /\ SequenceNumber \in [Txns -> Nat]
    /\ Profiles \subseteq [Txns -> Profile]
    /\ {BatchSize, Goal, NearFull, SkipSlack} \subseteq Nat
    /\ MaxCount \in Nat /\ MaxCount >= Goal * BatchSize
    /\ RelaxFactor \in Nat \ {0}

\* s comes before t in the sequence of their sender.
Before(s, t) == Sender[s] = Sender[t] /\ SequenceNumber[s] < SequenceNumber[t]

\* create_block makes every transaction once, with the next sequence number of its
\* sender, in batches of one length, which is much more than the slack.
ASSUME WorkloadAssumption ==
    /\ \A t \in Txns : \E b \in Batches : \E i \in DOMAIN InitialBatches[b] :
          InitialBatches[b][i] = t
    /\ \A b, c \in Batches :
          \A i \in DOMAIN InitialBatches[b], j \in DOMAIN InitialBatches[c] :
              b < c \/ (b = c /\ i < j) =>
                  /\ InitialBatches[b][i] # InitialBatches[c][j]
                  /\ ~Before(InitialBatches[c][j], InitialBatches[b][i])
    /\ \A b \in Batches : Len(InitialBatches[b]) = BatchSize
    /\ BatchSize > SkipSlack

VARIABLES
    txns,               \* the batches
    full_block_skip,
    index,
    is_first,
    relaxed,
    prev_filler_state,
    startlen,
    first_iter_tx,      \* transactions that have left the batches passed
    total_tx,           \* first_iter_tx of the block before
    pc,                 \* "batch": top of the loop; "add_all"; "done"; "end"; "panic"
    proposed            \* the transactions of the blocks built so far, in order

driver == <<txns, full_block_skip, index, is_first, relaxed, prev_filler_state,
            startlen, first_iter_tx, total_tx, pc, proposed>>
vars == <<profile, good_block, filler, skipped_users, result, return_vec,
          non_user_skip, driver>>

Init ==
    /\ profile \in Profiles
    /\ good_block \in BOOLEAN
    /\ txns = InitialBatches
    /\ full_block_skip = [i \in Batches |-> FALSE]
    /\ NewFiller
    /\ index = 0 /\ is_first = TRUE /\ relaxed = 0
    /\ prev_filler_state = 0 /\ startlen = 0
    /\ first_iter_tx = 0 /\ total_tx = 0
    /\ pc = "batch"
    /\ proposed = <<>>

----------------------------------------------------------------------------
\* One turn of the loop over the batches.

\* first_iter_tx += n, then on to next: overflow is checked, also in a release build.
Count(n, next) ==
    IF first_iter_tx + n <= MaxCount
    THEN first_iter_tx' = first_iter_tx + n /\ pc' = next
    ELSE first_iter_tx' = first_iter_tx /\ pc' = "panic"

UsersOf(batch) == {Sender[batch[i]] : i \in DOMAIN batch}

SkipsAnyMarked == full_block_skip[index]
Skips == ~is_first /\ full_block_skip[index]

SkipBatch ==
    /\ pc = "batch"
    /\ Skips
    /\ skipped_users' = skipped_users \cup UsersOf(txns[index])
    /\ index' = index + 1
    /\ Count(BatchSize - Len(txns[index]),
             IF index + 2 >= NumBatches THEN "done" ELSE "batch")
    /\ UNCHANGED <<input, filler, result, return_vec, non_user_skip, txns,
                   full_block_skip, is_first, relaxed, prev_filler_state, startlen,
                   total_tx, proposed>>

EmptyBatch ==
    /\ pc = "batch"
    /\ ~Skips
    /\ txns[index] = <<>>
    /\ \/ /\ prev_filler_state >= NearFull \/ index + 1 >= NumBatches
          /\ Count(BatchSize, "done")
          /\ index' = index
       \/ /\ prev_filler_state < NearFull /\ index + 1 < NumBatches
          /\ Count(BatchSize, "batch")
          /\ index' = index + 1
    /\ UNCHANGED <<input, filler, skipped_users, result, return_vec, non_user_skip,
                   txns, full_block_skip, is_first, relaxed, prev_filler_state,
                   startlen, total_tx, proposed>>

\* The call of add_all, which drains the batch.
CallAddAll ==
    /\ pc = "batch"
    /\ ~Skips
    /\ txns[index] # <<>>
    /\ is_first' = FALSE
    /\ startlen' = Len(txns[index])
    /\ result' = txns[index]
    /\ return_vec' = <<>>
    /\ non_user_skip' = 0
    /\ txns' = [txns EXCEPT ![index] = <<>>]
    /\ pc' = "add_all"
    /\ UNCHANGED <<input, filler, skipped_users, full_block_skip, index, relaxed,
                   prev_filler_state, first_iter_tx, total_tx, proposed>>

AddAll ==
    /\ pc = "add_all"
    /\ AddNext
    /\ UNCHANGED driver

dif == Len(block) - prev_filler_state
min_modifier == IF NumBatches < Cores THEN NumBatches ELSE Cores
per_batch_target == startlen \div min_modifier
Relaxes == dif > 0 /\ dif * RelaxFactor < per_batch_target

\* usize::min(per_batch_target / (dif * 2), 100)
RelaxedBy ==
    LET m == per_batch_target \div (dif * RelaxFactor) IN IF m < 100 THEN m ELSE 100

\* The tests at the end of a turn, `prod` being true.
LastTurn(rel) ==
    \/ Len(block) >= NearFull
    \/ index + 1 >= NumBatches
    \/ startlen = BatchSize /\ dif = 0
    \/ rel > 2 /\ dif <= 1

\* add_all has returned.
EndBatch ==
    /\ pc = "add_all"
    /\ result = <<>>
    /\ full_block_skip' = [full_block_skip EXCEPT
          ![index] = @ \/ non_user_skip + SkipSlack >= startlen]
    /\ \/ /\ Relaxes
          /\ set_gas_per_core((MaxGas \div Cores) * RelaxedBy)
          /\ relaxed' = relaxed + 1
       \/ /\ ~Relaxes
          /\ UNCHANGED <<gas_per_core, relaxed>>
    /\ prev_filler_state' = Len(block)
    /\ txns' = [txns EXCEPT ![index] = return_vec]
    /\ return_vec' = <<>>
    /\ index' = IF LastTurn(relaxed') THEN index ELSE index + 1
    /\ Count(IF index < Goal THEN BatchSize - Len(return_vec) ELSE 0,
             IF LastTurn(relaxed') THEN "done" ELSE "batch")
    /\ UNCHANGED <<input, total_estimated_gas, full, block, dependency_graph,
                   estimated_gas, finish_time, last_touched, skipped_users, result,
                   non_user_skip, is_first, startlen, total_tx, proposed>>

\* The block is executed and, until enough transactions have been counted, another is
\* built.
FinishBlock ==
    /\ pc = "done"
    /\ first_iter_tx >= total_tx
    /\ total_tx' = first_iter_tx
    /\ pc' = IF first_iter_tx >= Goal * BatchSize THEN "end" ELSE "batch"
    /\ proposed' = proposed \o block
    /\ ReplaceFiller
    /\ index' = 0 /\ is_first' = TRUE /\ relaxed' = 0
    /\ prev_filler_state' = 0 /\ startlen' = 0 /\ first_iter_tx' = 0
    /\ UNCHANGED <<input, txns, full_block_skip>>

\* `first_iter_tx - total_tx` underflows: fewer batches were passed than for the block
\* before.
FinishBlockPanics ==
    /\ pc = "done"
    /\ first_iter_tx < total_tx
    /\ pc' = "panic"
    /\ UNCHANGED <<input, filler, skipped_users, result, return_vec, non_user_skip, txns,
                   full_block_skip, index, is_first, relaxed, prev_filler_state, startlen,
                   first_iter_tx, total_tx, proposed>>

Next ==
    \/ SkipBatch
    \/ EmptyBatch
    \/ CallAddAll
    \/ AddAll
    \/ EndBatch
    \/ FinishBlock
    \/ FinishBlockPanics

Spec == Init /\ [][Next]_vars
\* The builder is one thread that nothing blocks.
FairSpec == Spec /\ WF_vars(Next)

----------------------------------------------------------------------------
FillerType ==
    /\ gas_per_core \in Nat
    /\ total_estimated_gas \in Nat
    /\ full \in BOOLEAN
    /\ block \in Seq(Txns)
    /\ dependency_graph \in Seq(SUBSET Nat)
    /\ estimated_gas \in Seq(Nat)
    /\ finish_time \in Seq(Nat)
    /\ Len(dependency_graph) = Len(block)
    /\ Len(estimated_gas) = Len(block)
    /\ Len(finish_time) = Len(block)
    /\ last_touched \in [RawKeys -> [time : Nat, idx : Nat]]

AddAllType ==
    /\ profile \in [Txns -> Profile]
    /\ good_block \in BOOLEAN
    /\ skipped_users \subseteq Senders
    /\ result \in Seq(Txns)
    /\ return_vec \in Seq(Txns)
    /\ non_user_skip \in Nat

DriverType ==
    /\ txns \in [Batches -> Seq(Txns)]
    /\ full_block_skip \in [Batches -> BOOLEAN]
    /\ index \in 0 .. NumBatches
    /\ is_first \in BOOLEAN
    /\ relaxed \in Nat
    /\ prev_filler_state \in Nat
    /\ startlen \in Nat
    /\ first_iter_tx \in Int /\ total_tx \in Int
    /\ pc \in {"batch", "add_all", "done", "end", "panic"}
    /\ pc \in {"batch", "add_all"} => index \in Batches
    /\ proposed \in Seq(Txns)

\* Every component of the builder's state has its type, the parts of the block agree in
\* length, and the loop reads no batch past the last.
TypeOK == FillerType /\ AddAllType /\ DriverType

\* The hints of a transaction name earlier transactions of the block only, so the
\* hint graph that Scheduler::new is given has no cycle and no index past the block.
HintsPointBack ==
    \A i \in 1 .. Len(block) : \A d \in dependency_graph[i] : d \in 0 .. i - 2

\* j writes something that i reads, or both have one sender.
Conflict(j, i) ==
    Touches(block[j]) \cap (profile[block[i]].reads \cup {Sender[block[i]]}) # {}

start_time(i) == finish_time[i] - estimated_gas[i]

\* A transaction started as soon as its hints are done starts after the estimated end
\* of every earlier transaction it depends on, also of those that are not among its
\* hints because last_touched keeps, of several writers, the one that ends last.
StartsAfterWriters ==
    \A i \in 1 .. Len(block) :
        /\ \A j \in 1 .. i - 1 : Conflict(j, i) => finish_time[j] <= start_time(i)
        /\ start_time(i) > 0
              => \E d \in dependency_graph[i] : finish_time[d + 1] = start_time(i)

\* A block never holds more estimated gas than all cores may use and, unless the limit
\* was changed between batches, no chain of hints of a good block is longer than what
\* one core may use.
FitsBudget ==
    /\ total_estimated_gas <= total_max_gas
    /\ good_block /\ relaxed = 0
          => \A i \in 1 .. Len(block) : finish_time[i] <= MaxGas \div Cores

\* Everything put into a block, in the order it will be executed.
Taken == proposed \o block

\* The transactions of one sender go into blocks in the order of their sequence numbers
\* and without a gap, over all batches and blocks: giving one back (too long a chain,
\* hot reads, a batch passed over) gives back all that follow it.
SenderOrder ==
    \A i \in 1 .. Len(Taken) : \A t \in Txns :
        Before(t, Taken[i]) => \E j \in 1 .. i - 1 : Taken[j] = t

Occurrences(s, t) == Cardinality({i \in DOMAIN s : s[i] = t})
InBatches(t) ==
    UNION {{<<b, i>> : i \in {i \in DOMAIN txns[b] : txns[b][i] = t}} : b \in Batches}

\* Draining a batch, giving transactions back and putting the rest into the block
\* neither loses nor doubles a transaction.
NothingLost ==
    \A t \in Txns :
        Occurrences(Taken, t) + Occurrences(result, t) + Occurrences(return_vec, t)
            + Cardinality(InBatches(t)) = 1

\* If no transaction alone is too long for a core, the loop ends: a batch that was
\* marked to be passed over is tried when it comes first.  Either as many transactions
\* have been put into blocks as Goal batches hold, though batches that were passed over
\* are counted too, or first_iter_tx has left its range, which needs chains to be limited.
NoStarvation ==
    (\A t \in Txns : gas_used(t) <= MaxGas \div Cores)
        => <>(\/ pc = "end" /\ Len(proposed) >= Goal * BatchSize
              \/ pc = "panic" /\ good_block)
=============================================================================
