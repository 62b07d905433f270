# A TLA+ model of Anthemius

Anthemius is a fork of aptos-core. Validators build blocks whose transactions
come with *hints* (which lower transactions they probably depend on) and gas
estimates, and execute them optimistically in parallel. This directory follows a
transaction through a validator: the mempool that stores it, the filler that
puts it into a block and computes its hints, the safety rules that vote for the
block, and the parallel executor that runs it. The models are checked with TLC;
what matters most of the scheduler, the block executor, the resolution and
extraction of outputs, the safety rules and block building is proved with TLAPS
for every size. Paths below are relative to `src/aptos-move/`
unless they start with `src/`.

## 1. The system

| Part | Source | State | Operations | Interacts with |
|---|---|---|---|---|
| Scheduler | `block-executor/src/scheduler.rs` | `txn_status`, waves, `validation_idx`, `commit_state`, two channels, `critical_path_parent` | `new`, `try_commit`, `next_task`, `try_exec`, `try_incarnate`, `try_validate_next_version`, `wait_for_dependency`, `finish_execution`, `finish_validation`, `try_abort`, `finish_abort` | worker loop |
| Worker loop | `block-executor/src/executor.rs` (`work_task_with_scope`) | `scheduler_task`, `finished_val_flag` per worker | one turn of the loop | scheduler, VM |
| Execute, validate | `executor.rs`, `view.rs`, `txn_last_input_output.rs` | captured reads; recorded inputs and outputs | `execute`, `validate`, `record`, `read_set`, `modified_keys` | scheduler, multi-version map |
| Multi-version map | `mvhashmap/src/lib.rs` | per key: transaction index to entry with a DONE or ESTIMATE flag | `add_write`, `add_delta`, `mark_estimate`, `delete`, `read` | deltas |
| Aggregator deltas | `aptos-aggregator/src/delta_change_set.rs` | update, limit, extreme values of the history | `apply_to`, `merge_onto` | |
| Output resolver | `block-executor/src/output_delta_resolver.rs` | running value of a key | `resolve` | multi-version map |
| Output extraction, fallback | `executor.rs` (end of `execute_transactions_parallel`, `execute_block`) | results per chunk, `maybe_err` | extract, merge, return | sequential executor |
| Sequential executor | `executor.rs` (`execute_transactions_sequential`) | `data_map`, `ret` | one transaction per turn | |
| Module publishing race | `txn_last_input_output.rs` (`record`, `append_and_check`) | two sets and a flag | insert, look up, raise | loader cache of the VM |
| Prologue tasks | `executor.rs`, `aptos-vm/src/block_executor/mod.rs`, `aptos-vm/src/aptos_vm.rs` | `prologue_index`; a lock and a flag per transaction | run a prologue ahead, use its result | worker loop, VM |
| Filler | `src/mempool/src/core_mempool/filler.rs` | `last_touched`, finish times, gas, hint graph, `full`, `skipped_users` | `add_all`, `set_gas_per_core` | loop of block building, scheduler |
| Block building | `e2e-testsuite/tests/run_benchmark.rs` (`get_transaction_register`) | batches, `full_block_skip`, `relaxed`, `first_iter_tx` | one batch per turn, one block per call | filler |
| Transaction store | `src/mempool/src/core_mempool/transaction_store.rs`, `index.rs` | transactions, sequence numbers, seven indices | `insert`, `commit_transaction`, `reject_transaction`, `gc_by_*`, `read_timeline` | mempool |
| Mempool | `src/mempool/src/core_mempool/mempool.rs`, `src/mempool/src/shared_mempool/tasks.rs` | the store, behind one lock | `add_sharded_txn`, batch requests, notifications, `gc` | storage, consensus, peers |
| Safety rules | `src/consensus/safety-rules/src/` | stored and cached `SafetyData`, waypoint, signer | `initialize`, `consensus_state`, sign a vote, sign a timeout | round manager, secure storage |
| Round manager, execution pipeline, storage, state sync, API | `src/consensus/src`, `src/execution`, `src/storage`, `src/state-sync`, `src/api` | | | |

How a block runs. `Scheduler::new` sends every transaction without a costly
hinted parent to a channel and puts the others on the list of their most
expensive parent. Workers loop: one of them, the committer, first commits what
it can; each then takes an index from a channel and tries to incarnate it, or
validates the transaction at `validation_idx`. Executing reads through the
multi-version map, writes into it, records inputs and outputs, and releases the
transactions on its list. Validating reads again; if a read differs the version
is aborted, its entries become ESTIMATEs, `validation_idx` moves back and the
*wave* rises. A transaction is committed, in order, when it was validated in a
recent enough wave. Idle workers run prologues ahead of execution.

How a block comes about. A transaction enters the store of a node that is
responsible for its account; it is ready once all sequence numbers below it are
there, and parked otherwise. Batches of pending transactions, with the reads,
writes and gas a speculative execution has found, go through the filler, which
keeps the longest chain of dependent transactions short enough for one core and
gives the rest back. Each validator votes for the proposed block if its safety
rules allow it; a certificate of two consecutive rounds commits.

What makes it hard, each at its line in `hazards` of `PROJECT.json`: wake-ups
between two workers that register and release; an index that is loaded, checked
and incremented in three steps while aborts lower it; copies of one index in
several queues; waves deciding commits while they rise; write sets applied key
by key; sticky per-worker flags; readers that spin on ESTIMATEs; merged deltas
losing intermediate overflows; chunks of outputs that fail on their own;
verdicts of prologues that outlive what they read; votes between a write to
storage and their release; writes of unknown outcome; seven indices that have to
agree after every eviction, expiry and replacement; sequence numbers that are
old when they are used; batches that are given back and passed over, and
counted in 16 bits all the same.

## 2. Modules

| Module | Models | A step is |
|---|---|---|
| `Scheduler` | scheduler and worker loop; which reads and validations fail is left open | one lock acquisition, channel, atomic or push operation of one worker |
| `DeltaOp` | deltas, as operators | |
| `MVHashMap` | the map of one key, as operators (each runs under the key's lock) | |
| `BlockExecutor` | `Scheduler` composed with `MVHashMap`: view, execute, validate | one operation on the map or the recorded inputs and outputs, or one scheduler step |
| `SequentialExecution` | the sequential executor; the abstract specification of `BlockExecutor` | one transaction |
| `OutputDeltaResolver` | `resolve` for one key | one transaction index |
| `OutputExtraction` | extraction of outputs in chunks, merging, fallback | one chunk, one merge, the return |
| `ModuleRace` | `record`'s module sets and the loader caches | one run of the VM, one insert, look-up or store |
| `PrologueTasks` | prologue tasks and the use of their results, over an abstract executor | one lock, one prologue, one execution, an abort or a commit |
| `SafetyRules` | the checks and the storage of one validator, as operators | |
| `Consensus` | all validators of a network, each behind its `SafetyRules` | one call of one validator, a failed write in it, or a restart |
| `DependencyFiller` | `add_all` | one transaction of the input, one action per way out of the loop |
| `BlockBuilding` | the loop of `get_transaction_register` around the filler | one batch skipped, found empty, drained or ended, or one block finished |
| `ParkingLotIndex`, `TransactionStore` | the store, as operators from store to store | |
| `Mempool` | the requests served by one node; storage that commits before it tells | one request, under the lock |
| `MC*` | instances for TLC | |
| `*Proofs` | theorems, see section 4 | |

Correspondence, in short. Variables keep the names of the fields. In `Scheduler`
`pc[th]` is the place of a worker in the code: `commit` and `work` are the top
of the loop (`work` with a task is the `match` on it), `chan` the second
`try_recv`, `tryval`, `valcheck`, `valadd` the three accesses of
`try_validate_next_version`, `lock`, `dep`, `push`, `recheck` those of
`try_incarnate`, `count` and `items` the loop of `finish_execution`, `abort` and
`decrease` the two halves of `finish_abort`, `finval` a `finish_validation`
after a failed `try_abort`. `call` and `iter` hold the locals of the call in
progress. Locks are not variables: who holds one follows from `pc`
(`StatusLocked`, `ValidationLocked`, `valock`). The pair that `validation_idx`
packs into 64 bits is a record. `new` fills queues in index order;
`Ascending(S)` is the set holding that one sequence.

In `BlockExecutor` the Move VM is external: a transaction is a program given by
`NextRead` (the key it reads after what it has seen) and `Output` (its writes
and deltas). Keys of a write set are applied in any order, writes before
deltas, deletions last, as `execute` does. An index a validator takes in
`valadd` may differ from the one it checked in `valcheck`, and its incarnation
is the one it read of the other; both are kept.

In `Consensus` a message is what was signed: `votes` and `timeouts` only grow,
so anything may be delivered late, twice, in any order or never. A certificate
is not a variable: `Certified(b)` says that the votes of a quorum exist, where
validators outside `Honest` always sign. Every call of a validator either
persists and returns, or has its write fail with the data stored or not
(`VoteFails`, `TimeoutFails`, `InitializeFails`), and `Restart` keeps only what
is stored. Nothing is assumed of the round manager: the rules may be called with
any block and any certificate, in any order.

In `DependencyFiller` `result` is the rest of the input, `return_vec` what is
given back; every early `continue` of the loop is an action. `BlockBuilding`
keeps the driver's locals, among them `first_iter_tx`, which decides when the
loop ends (`run_benchmark.rs:423-428`). It counts what has left the first
`Goal` batches, but also, for any batch, what is missing of one that is passed
over (636) or empty (649), and starts at 0 for every block. So the loop can end
with transactions left, the 16-bit sum can overflow (`Count`), and the
difference to the block before can underflow (`FinishBlockPanics`); the
repository's release profile checks both (`Cargo.toml:524`), and either is a
panic. `good_block` and the number of batches vary independently in the model,
while the benchmark has 16 batches in one mode and 5 in the others. `proposed`
collects finished blocks for the properties. In `TransactionStore` each method is an operator on a record with
the fields of the struct, since the mempool's lock makes a call one step. What
is not in the lock is in `Mempool`: the sequence number that `AddTxn` uses may be
any that storage has had, because `tasks.rs` reads it first.

In `ModuleRace` a worker runs one job after another with one VM. A job loads
modules into the loader cache, unless they are there; what it loads or looks up
through its view is recorded by an execution and forgotten by a prologue task.
The cache starts with `0x1::account` (`vm_wrapper.rs:34`) and is emptied when a
publishing failed after its modules were loaded (`aptos_vm.rs:795`). A VM
that publishes a module asks the view for it first
(`resolve_pending_code_publish`, `aptos_vm.rs:597`); the executor of
`block-executor` is generic, so one that does not is modelled too.

`SequentialExecution` panics where a delta does not apply:
`into_transaction_output` expects that it does
(`aptos-aggregator/src/transaction.rs:217`).

`PrologueTasks` stands by itself: the executor is reduced to what the best
behaviour of `BlockExecutor` allows (execute when ready, abort when a recorded
read is no longer current, commit in order when all are), so what goes wrong in
it is due to the prologues alone.

Abstractions. `u128` is unbounded (limits are constants, well below it); waves
and incarnations are naturals (the code packs a wave into 32 bits); the channels
are unbounded FIFOs, as in the code; memory is sequentially consistent. Most
atomics are SeqCst or behind locks. The exceptions are the `fetch_update` of
`validation_idx` (`scheduler.rs:605`), whose success is Acquire, the Acquire load
of `done_marker` (`:792`), and `sig_val_idx` (`:368`, `executor.rs:343`); the
models take the first two as sequentially consistent, which the read-modify-write
and load instructions of x86-64 give, and leave the third out. The flags of
`append_and_check` go through the shard locks of a `DashSet`. A push onto a
list of waiting transactions, a lock-free `boxcar::Vec`, is one step. With two
workers this loses nothing: at most one push is under way while the other worker
walks the list, and it is counted when it is complete. With three or more it is an
assumption, because a later push may be complete, and counted, while an earlier
slot is reserved and not yet filled (the crate is not part of the repository).
The values
a transaction produces are small integers.

The validator set is the same in all epochs, and an epoch has one genesis block.
A timeout may carry a quorum certificate of any epoch, as the code compares only
rounds; a timeout certificate is one of the caller's epoch. Writes of the
waypoint do not fail. `sign_proposal` and `sign_commit_vote` change no state. The gas of the
filler keeps its width (`gas / 10` modulo 2^16); sums of gas are unbounded, the
code's 32 bits being out of reach of 10000 transactions. In the store `exp`
stands for all that must not differ in a transaction that is sent again
(payload, expiration, gas limit), the ranking score is the gas price, all
transactions of an account have one size, clocks show any of a few times, and a
block notified to the mempool holds one transaction.

## 3. Runs

| Run | Instance | Shows |
|---|---|---|
| `scheduler` | 3 transactions in a chain of hints, 2 workers, one abort per transaction | types; one executor per version; commits in order; validation stays manned and past the commits; no lost wake-up; statuses follow the documented diagram |
| `block` | 3 transactions that branch on what they read, one of their dependencies hinted | the asserts and expects of the map and of `validate` hold; ESTIMATEs are pending; entries match recorded outputs; committed reads are current, the block ends, and the parallel executor implements the sequential one |
| `deltas` | 3 transactions, limit 2, every well-formed delta, write and deletion | merging is composition; reads agree with materialised outputs; a panic of `resolve` is one a read had met |
| `outputs` | 10 transactions in 5 chunks, at most two of which do not succeed, with or without a module race | what is returned is the sequential result, outside the two cases listed below |
| `modules` | 3 workers, 3 jobs that load, publish, fail to publish or run a prologue, 3 modules | a module read and published is noticed; otherwise no loader cache holds a published module |
| `consensus` | 4 validators, one of them faulty; two competing branches and a gap of rounds; an epoch change; one restart or failed write | one vote per round; timeouts tell of what was voted on; the cache is what is stored; stored rounds never fall; committed blocks are extended by everything certified above |
| `building` | 12 transactions of 6 senders, 2 keys, 3 batches of 4, every combination of the profiles in `MCBlockBuilding` | hints point back; a transaction starts after all it depends on; blocks fit their budget; senders stay in order; nothing is lost or doubled; the loop ends with enough transactions in blocks, or by a panic in counting if chains are limited |
| `mempool` | 2 accounts with 4 and 2 sequence numbers and sizes 1 and 3, 2 prices, one replacement by a dearer version | the parking lot and all indices agree with the store; what is sequential is ready; limits hold; broadcasts leave out nothing; enough peers keep every account; insertions evict only parked transactions |

Bounds. Two workers suffice for every race above, since each lies between one
worker that reads twice and one that writes between; the proofs remove the bound
for `Scheduler`. Three transactions give a chain in which the middle one is both
a parent and a child. The gas estimate 0 of the first makes `new` send the
second although it has a hint, so registration in `try_incarnate` happens.
`MaxIncarnation` bounds aborts: no validation aborts that incarnation. In
`block` it is 3 and never reached, so the bound takes nothing away and
termination does not rest on it. `MaxList` bounds what spinning readers push.
Ten transactions at level 2 make five chunks of two; level 1 is the sequential
path. Limit 2 is the least at which two deltas can overflow in the middle and
end inside. In `modules` three jobs are enough for one worker to load in a
prologue, and to execute afterwards from its cache, while another publishes.

In `consensus` three honest validators and one other are the smallest network
that tolerates a fault; `c3` skips two rounds, so a vote for it needs a timeout
certificate of both, and `b1`, `b2`, `e1` let either branch win. The second epoch
has votes and no timeouts: with both, the run does not end in useful time. The
proofs remove the bounds. In `building` the constants of the code (10000 transactions,
9990, 25, hot reads between 1000 and 9000) are scaled so that every way out of
`add_all` is taken, among them gas that rounds to 0 and gas that wraps at 16
bits; one more exit of the driver, `relaxed > 2 && dif <= 1`, is in the model but
not reached with three batches. `Goal` is 2 of 3 batches and `MaxCount` is 11,
short of three batches of 4, as 65535 is of seven of 10000: the overflow, the
underflow, and an end with transactions left are all reached.

In `mempool` two accounts are needed to move an entry with `swap_remove`. The
limits of the store (4 transactions, 7 bytes) and of an account (3) each refuse
an insertion that the other two would admit, and the bytes are exceeded by less
than one transaction, as the code allows (`is_full` looks before the insertion).
The expiration times of the first account's transactions alternate, so that a
ready one stands between two that have expired and is parked by `gc`. TLC was
asked for each of these situations and reaches it. `EveryShardTaken` is evaluated
for every network of 2 to 8 peers at both ends of the range of shards,
`BroadcastSkipsNothing` for every position of a peer.

Fairness is weak fairness of each worker's whole step: every worker is a thread
of a pool, its loop has no blocking call except locks held for boundedly many
steps, and the operating system schedules it. Nothing is assumed of the order
in which workers run. `BlockTermination` holds under it because aborts are
finite. `NoStarvation` of `building` assumes weak fairness of the one loop that
builds blocks, which is sequential code without waiting; it is conditional on no
single transaction being too long for one core, since such a one is given back
for ever. It says that the loop ends, with at least as many transactions in
blocks as `Goal` batches hold; where chains are limited (`good_block`) it may
end by one of the two panics instead, and elsewhere it may not.

`ImplementsSequential` of `block` is a refinement. It maps the committed prefix:
`data_map` is what a transaction at `commit_idx` would read, `ret` the recorded
outputs below it. It is about safety; that the block ends is `BlockTermination`.

### Disagreements between the code and its comments

Four runs are expected to violate their property. Each property states what a
comment of the repository says; `findings` in `PROJECT.json` quotes it.

* `stale_commit`: a transaction is committed although what it read was replaced.
  `validation_idx` is raised with a `fetch_add` after being lowered by an abort
  since it was loaded, so a transaction is passed over; and `finish_execution`
  ignores `revalidate_suffix`. It takes two workers, three transactions and no
  hints. With the hint of `block` it does not occur in that block.
* `convoy`: six transactions and three workers, all of them spinning on
  ESTIMATEs of transactions that wait in a channel. The run constrains the
  search to the neighbourhood of that behaviour; the constraint leaves states
  out and adds none.
* `outputs_skip`: a SkipRest in a chunk that is not the last ends that chunk
  only (`executor.rs:527`), while `task.rs:22` says it skips the trailing
  transactions. Later transactions are returned as executed, with the output of
  each at the place of another.
* `prologue_reuse`: `execute_user_transaction` notes that a prologue has run
  before it has passed. If it refuses the first incarnation and a lower
  transaction then writes what it read, the second incarnation skips the prologue
  and is kept, where the sequential executor discards the transaction.

Other places where code and comments part, met while modelling; the properties
of the passing runs are qualified by them:

* An abort replaces the module race error (`executor.rs:544`) and no fallback
  happens, against `errors.rs:6`. Like the SkipRest above, this is a case that
  `MatchesSequentialElsewhere` leaves out; with blocks in which both happen,
  `MatchesSequential` fails for this reason as well.
* A prologue task loads modules that are never recorded (`executor.rs:195`), and
  executions do not record what they find in the cache. The claim at
  `txn_last_input_output.rs:167` holds all the same (`CacheIsClean`), but only
  because the Aptos VM reads what it publishes; of an executor that does not,
  only `IntersectionFound` is claimed.
* `set_gas_per_core` divides by the number of cores a limit that is per core
  already, so "Relax filler" can tighten it, against `run_benchmark.rs:109`:
  `FitsBudget` bounds chains only while nothing was relaxed.
* `transaction_store.rs:381` wants every transaction that is not ready to be
  parked. After a rejection, or an insertion with an old sequence number, one
  can be in the priority index without being sequential, and a NonQualified one
  can be prioritised and parked: `IndexesAgree` asks for one of the two, and for
  exactly one of Ready transactions.
* An insertion with an old number takes the account's number back, and a commit
  for an account without transactions leaves its number behind.
* If the store is full by bytes, a dearer version removes the older one and is
  then refused, and both are gone. The indices stay consistent; `ReadyKept` speaks
  of insertions that succeed.
* A node without peers refuses the accounts of shard 255: `EveryShardTaken` asks
  for two peers or more.
* `get_full_batch` walks the priority queue and selects transactions, and then
  hands none of them to the filler it returns (`mempool.rs:349` is commented
  out), so the "next block of transactions for consensus" of its comment
  (`mempool.rs:264`) is always empty. The selection has no effect and is not
  modelled; what a batch request changes is what has expired
  (`GetBatchRequest`).

## 4. Proofs

All theorems hold for every value of the constants. They assume what the modules
`ASSUME` (TLC evaluates these in every run): a block is not empty and has a
committer among its workers, hints are lists of lower transactions, gas
estimates and the "no parent" marker are naturals, jobs have their type; when a
block is resolved no entry is an ESTIMATE, and the deltas of one aggregator key
are well-formed and share a limit; two quorums meet in an honest validator, hash
links form a tree with one genesis per epoch; there is a core, a block holds at
most 2^16 transactions, batches and profiles have their type; and, of the
workload (`WorkloadAssumption`), that every transaction is in one batch, no
transaction is made after a later one of its sender, and all batches have one
length, which is more than the slack of `full_block_skip`.

`SenderOrder` needs the slack. A batch of at most 25 transactions
(`SkipSlack`) is marked to be passed over while a lower one is not empty,
whatever `add_all` did with it; in a block that is not good, `skipped_users` is
not looked at, and the transactions of a batch passed over would not hold back
later ones of their senders. TLC finds the behaviour with batches of 5, 1, 3 and
0. `create_block` makes batches of 10000, so the mark is set on what is left of
a batch only, and what is left of one was taken after all batches below
(`InSequence`).

**Scheduler** (`SchedulerProofs`), one inductive invariant in layers:

1. `TypeInv` = `TypeOK`, `Control`, `ValidationMutex`. `TypeOK` alone is not
   inductive: `validation_idx` stays in the block only because `valock` admits
   one worker that has found it inside, and positions in hints and lists are in
   range only by what `Control` says of a worker's locals at each step. Theorem
   `TypeCorrect`.
2. `StatusInv` adds that a status lock has one holder, which has found the
   transaction ready; with it, exclusive execution, exclusive abort and the
   committed prefix are inductive together. `ValidatorInv`: a worker that
   validates has not set its flag, so the one that lowers the index is itself
   the one left to validate. `WaveInv`: every validation recorded or in progress
   was *taken* in its wave (in the current wave, from below the index), and some
   transaction started the current wave; hence a commit in a wave that covers it
   is below the index. Theorems `VersionsExecuteOnce`, `VersionsAbortOnce`,
   `CommitsInOrder`, `ValidationIsManned`, `ValidationIsPastCommits`,
   `StatusesFollowDiagram`.
3. `WakeupInv` adds what a worker inside `try_incarnate` was called for and has
   registered. Theorem `WakeupsAreKept`.

The step proofs first reduce the 22 actions to what they do to statuses
(`StatusEffects`), to waves (`Steady`, `Still`) and to lists (`ListsGrow`), and
then argue about those effects.

**Block executor** (`BlockExecutorProofs`). The actions of the composed system
are built from those of `Scheduler`, so each of its steps is a step of
`Scheduler` or leaves its variables alone (lemma `BlockImplementsScheduler`), and
the scheduler's invariants hold in it, `BlockKeepsWakeups` among them. `BlockInv` adds, per
worker, what it has put into the map so far (`Exec`: the keys in `handled` hold
its result, the others what the previous incarnation left) and, per transaction,
what its status says of its entries (`Entered`), and that whatever validation
has reached was recorded (`Reached`). A step of a worker touches one
transaction, which by exclusive execution and abort no other worker executes or
aborts (`Frame`). Theorems `NothingIsMissing`, `EntriesAreTheOutput`,
`EstimatesWillGo`, and `SpinsAreOnPending`, which is in no run: what the read
loop of the view waits for is a lower transaction that is still to be executed.
This bounds whom a reader waits for, not that the other gets to run; see
`convoy`.

**Multi-version map** (`MVHashMapProofs`): the equation of the loop of `read`,
that a dependency it reports is an ESTIMATE of a lower transaction, and what one
more entry changes. The loop is a recursive function, and the induction theorems
of the library have an operator as parameter, which the provers cannot
instantiate. `LeastNat` (every set of naturals has a least element, from the
well-foundedness of `<`) and `SetInduction` take their place.

**Deltas and the resolver** (`OutputDeltaResolverProofs`): `MergeComposes`, for
all well-formed deltas of one limit and all naturals, by cases on the two signs;
`ReadsAndOutputsAgree` for the entries of any block. `resolve` goes up and
applies, a read goes down and merges; `ResolverInv` says that the two agree at
every index. It has to speak of reads that arrive with *any* accumulated delta
(`Agree`), because the read above the next delta arrives with it; the step is
`MergeComposes`. Theorems `OutputsAreWhatWasRead` and `PanicsAreReal`.

**Output extraction** (`OutputExtractionProofs`): chunks are adjacent intervals
(`ChunkInterval`, from facts about division), and a loop over an interval ends at
its first transaction that is not a Success. `ExtractionInv`: while the loop over
the chunks goes on, everything below has succeeded and `final_results` is the
outputs below; when it has ended, it holds what the sequential loop has, a value
or an error. Theorem `ParallelIsSequential`, under the condition of
`MatchesSequentialElsewhere` (see section 3).

**ModuleRace** (`ModuleRaceProofs`): `ReadsCovered` and `WritesCovered` say that
what was read or published is in its set, is still in the hands of a worker, or
has raised the flag, `Noticed` that a path in both sets has
raised the flag or is about to be looked at by a worker. Theorems `RaceIsFound`
and `RaceIsReal`. `CachesAreClean` follows from the first: with a VM that reads
what it publishes, every published module has been read as well, so that the
flag is up once one is published and recorded, whatever the caches hold
(`PublishedIsRead`).

**Consensus** (`ConsensusProofs`). `TypeOK` and `CacheCoherent` are proved
together and, from them, that stored data never fall (`SafetyDataNeverFalls`).
The rest argues about `Voted` (a vote sent, or stored and perhaps about to be
sent; with the votes sent alone nothing is inductive, because a failed call may
have stored its vote) and `Past` (rounds a validator votes in no more).
`VotesArePast`, `OneVote`, `LastVoteOfEpoch` and `TimeoutsTell` say what the two
voting rules leave behind in the store. The core is `VotesExtend`: who votes
above a block that its certificate would commit either extends its parent or the
block is lost, since in every quorum somebody has passed its round without a
vote. A vote on a direct parent follows by induction over votes; one after a
timeout certificate from a common validator of the certificate and the quorum,
whose timeout told of its vote. Theorems `OneVotePerRoundHolds`,
`TimeoutsRespectVotesHolds`, `CommittedIsExtendedHolds` and, from the last,
`AgreementHolds`.

**Block building** (`BlockBuildingProofs`), in two parts. Of a block:
`last_touched` names a transaction of the block that ends at the time it gives
(`TouchedIsReal`), and none that touches the key ends later (`TouchedIsLast`).
With these, hints point back (`HintsPointBackHolds`, which is what `Scheduler`
assumes of its hints), transactions start after all they depend on
(`StartsAfterWritersHolds`), and blocks fit their budget (`FitsBudgetHolds`).

Of the way from batches to blocks: `pending` is what is left of every batch,
wherever `add_all` keeps it at the moment, so that only putting a transaction
into the block changes it. `FlowInv` says that every transaction is in one
place; that batches stay in order; that a transaction that was given back or is
in a batch passed over keeps the later ones of its sender out of the block, by
`full` or by `skipped_users` (`Blocked`); and that blocks that need not be good
take from the batches in sequence (`InSequence`). Theorems `FlowInvariant`,
`SendersKeepOrder`, `NothingIsLost`. A last invariant, `Counts`, bounds the
batches by their first length and the counters by 16 bits: nothing negative is
ever cast, and counting fails in the two ways that are modelled only
(`CountersKept`).

`ResolverInv`, `FlowInv` and `ExtractionInv` were checked with TLC on the
instances of their runs before they were proved.

Only model-checked:

* liveness (`BlockTermination`, `NoStarvation`): the prover does not handle
  fairness and ENABLED;
* `CommittedReadsCurrent`, which holds of the block and hint of `block` and not of
  all blocks (`stale_commit`), so there is no theorem to state;
  `ImplementsSequential` rests on it;
* the store and the mempool, whose operators are recursive or fold over sets and
  sequences;
* what `PrologueTasks` and the runs that expect a violation show.

Proved and in no run: `ExclusiveAbort`, `FlagIsReal`, `Agreement`,
`SpinsOnPending`, `Counts`.

## 5. Not modelled

* Signature tasks of the worker loop. A task verifies 24 signatures and
  `sig_val_idx` advances by 25; the results are discarded, and `try_commit` only
  waits for the index to pass the block, which it does.
* The composition of `PrologueTasks` with `BlockExecutor`: the product of the
  two does not fit a run, and the prologues' defect does not depend on the rest.
* 16-bit truncation of block lengths and of `prologue_index`: a block of the
  filler has at most 10000 transactions.
* Of block building, `SimpleFiller` (no hints, no chains), the warm-up calls with
  `prod` false, and `abort_if_lower`, which no caller sets.
* Of the mempool, the selection of `get_full_batch`, which the code discards.
* Of the shared mempool, validation by the VM and the protocol of broadcasts
  between peers (acknowledgements, retries, backoff): `Mempool` covers what they
  read from and write to the store.
* Of consensus, everything that decides when the safety rules are called
  (rounds, timers, leaders, the block store, the quorum store). Safety does not
  rest on it, and liveness of the protocol is not claimed.
  `initialize` has a branch `WaypointOutOfDate` that no behaviour reaches: the
  waypoint is stored before the safety data, and older proofs do not pass it.
* The execution pipeline, storage, state sync, networking, API and tooling,
  which are upstream code the executor sees as a read-only base view or not at
  all; the Move VM (external).
* `suspend`, `resume`, `DependencyStatus` and `execution_idx` of the scheduler,
  which nothing calls.

By lines these parts are most of the repository; the models cover the code that
makes this fork what it is and the safety core of its consensus.
