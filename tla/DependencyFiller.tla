--------------------------- MODULE DependencyFiller ---------------------------
(****************************************************************************)
(* DependencyFiller (mempool/src/core_mempool/filler.rs): it fills a block  *)
(* with transactions whose read and write sets and gas are known from a     *)
(* speculative execution, so that the longest chain of dependent            *)
(* transactions fits one core and all of them fit all cores, and gives the  *)
(* scheduler the dependencies it found as hints.                            *)
(*                                                                          *)
(* add_all takes its input one transaction at a time; each way out of the   *)
(* body of its loop is an action here.                                      *)
(****************************************************************************)
EXTENDS Integers, Sequences, FiniteSets

CONSTANTS
    Txns,
    Sender,         \* tx.sender(), for each transaction
    Keys,           \* state keys
    Cores,          \* cores
    MaxGas,         \* gas of a whole block: Cores times gas_per_core_init
    MaxTxns,        \* max_txns
    HotFrom,        \* 1000 and 9000: the sizes of the block between which
    HotTo,          \*   reads of hot keys are limited
    HotReads        \* 4: hot reads that send a transaction back

\* The keys of last_touched: raw state keys and the bytes of sender addresses.
Senders == {Sender[t] : t \in Txns}
RawKeys == Keys \cup Senders

\* Indices of transactions and estimates are u16, and max_txns is 10000.
U16 == 65536

ASSUME FillerAssumption ==
    /\ Cores \in Nat \ {0}
    /\ MaxGas \in Nat
    /\ MaxTxns \in 1 .. U16
    /\ {HotFrom, HotTo, HotReads} \subseteq Nat

VARIABLES
    profile,            \* of each transaction: read set, write set and gas
    good_block,         \* the argument of add_all: limit chains and hot reads
    gas_per_core,
    total_estimated_gas,
    full,
    block,
    dependency_graph,
    estimated_gas,
    finish_time,        \* of each transaction of the block (a local of add_all)
    last_touched,       \* per key; time 0: the key is not in the map
    skipped_users,
    result,             \* the transactions add_all has still to look at
    return_vec,
    non_user_skip

filler == <<gas_per_core, total_estimated_gas, full, block, dependency_graph,
            estimated_gas, finish_time, last_touched>>
input == <<profile, good_block>>

Profile == [reads : SUBSET Keys, writes : SUBSET Keys, gas : Nat]

total_max_gas == (MaxGas \div Cores) * Cores

\* DependencyFiller::new and the maps that go with a new block.
NoTouch == [k \in RawKeys |-> [time |-> 0, idx |-> 0]]

NewFiller ==
    /\ gas_per_core = MaxGas \div Cores
    /\ total_estimated_gas = 0
    /\ full = FALSE
    /\ block = <<>> /\ dependency_graph = <<>>
    /\ estimated_gas = <<>> /\ finish_time = <<>>
    /\ last_touched = NoTouch
    /\ skipped_users = {}
    /\ result = <<>> /\ return_vec = <<>> /\ non_user_skip = 0

ReplaceFiller ==
    /\ gas_per_core' = MaxGas \div Cores
    /\ total_estimated_gas' = 0
    /\ full' = FALSE
    /\ block' = <<>> /\ dependency_graph' = <<>>
    /\ estimated_gas' = <<>> /\ finish_time' = <<>>
    /\ last_touched' = NoTouch
    /\ skipped_users' = {}
    /\ result' = <<>> /\ return_vec' = <<>> /\ non_user_skip' = 0

set_gas_per_core(last_max) == gas_per_core' = last_max \div Cores

----------------------------------------------------------------------------
\* One transaction in add_all.

\* `(gas / 10) as u16`.
gas_used(t) == (profile[t].gas \div 10) % U16

\* What has been written of the state the transaction reads, its account included.
Touched(t) ==
    {k \in profile[t].reads \cup {Sender[t]} : last_touched[k].time > 0}

dependencies(t) == {last_touched[k].idx : k \in Touched(t)}

\* When the transaction can start with unlimited cores: a is the latest time at
\* which something it reads was written.
Arrives(t, a) ==
    /\ a \in {0} \cup {last_touched[k].time : k \in Touched(t)}
    /\ \A k \in Touched(t) : last_touched[k].time <= a

hot_read_limit == total_estimated_gas \div Cores

HotKeys(t) == {k \in profile[t].reads : last_touched[k].time > hot_read_limit}

\* limit_hot_reads, and `hot_read_access >= 4` at some read.
Bails(t) ==
    /\ good_block
    /\ Len(block) \in HotFrom .. HotTo
    /\ Cardinality(HotKeys(t)) >= HotReads

\* The transaction goes back to the caller.
GiveBack(t) == return_vec' = Append(return_vec, t)

ReturnWhenFullDrops(t) ==
    /\ full
    /\ UNCHANGED <<return_vec, filler, skipped_users, non_user_skip>>
ReturnWhenFull(t) ==
    /\ full
    /\ GiveBack(t)
    /\ UNCHANGED <<filler, skipped_users, non_user_skip>>

UserSkipped(t) == good_block /\ Sender[t] \in skipped_users

ReturnOfSkippedUser(t) ==
    /\ ~full
    /\ UserSkipped(t)
    /\ GiveBack(t)
    /\ UNCHANGED <<filler, skipped_users, non_user_skip>>

\* The transaction and all later ones of its sender wait for another block.
SkipUserNot(t) ==
    /\ GiveBack(t)
    /\ non_user_skip' = non_user_skip + 1
    /\ UNCHANGED <<filler, skipped_users>>
SkipUser(t) ==
    /\ GiveBack(t)
    /\ skipped_users' = skipped_users \cup {Sender[t]}
    /\ non_user_skip' = non_user_skip + 1
    /\ UNCHANGED filler

ReturnTooHot(t) ==
    /\ ~full
    /\ ~UserSkipped(t)
    /\ Bails(t)
    /\ SkipUser(t)

\* The transaction was not sent back for its sender or its reads.
Considered(t, a) ==
    /\ ~full
    /\ ~UserSkipped(t)
    /\ ~Bails(t)
    /\ Arrives(t, a)

TooLongAtArrival(t, a) == good_block /\ a > gas_per_core
TooLong(t, a) == good_block /\ a + gas_used(t) > gas_per_core

ReturnTooLong(t, a) ==
    /\ Considered(t, a)
    /\ TooLong(t, a)
    /\ SkipUser(t)

NoGasLeft(t) == total_estimated_gas + gas_used(t) > total_max_gas

ReturnNoGas(t, a) ==
    /\ Considered(t, a)
    /\ ~TooLong(t, a)
    /\ NoGasLeft(t)
    /\ full' = TRUE
    /\ GiveBack(t)
    /\ UNCHANGED <<gas_per_core, total_estimated_gas, block, dependency_graph,
                   estimated_gas, finish_time, last_touched, skipped_users,
                   non_user_skip>>

\* The keys a transaction writes, its account included.
Touches(t) == profile[t].writes \cup {Sender[t]}

\* last_touched after transaction t, of index idx, that finishes at time f: a key
\* keeps the writer that finishes last.
TouchedByLast(t, idx, f) ==
    [k \in RawKeys |-> IF k \in Touches(t) THEN [time |-> f, idx |-> idx]
                                           ELSE last_touched[k]]
TouchedAfter(t, idx, f) ==
    [k \in RawKeys |-> IF k \in Touches(t) /\ f > last_touched[k].time
                       THEN [time |-> f, idx |-> idx] ELSE last_touched[k]]

Push(t, f) ==
    /\ total_estimated_gas' = total_estimated_gas + gas_used(t)
    /\ estimated_gas' = Append(estimated_gas, gas_used(t))
    /\ dependency_graph' = Append(dependency_graph, dependencies(t))
    /\ block' = Append(block, t)
    /\ finish_time' = Append(finish_time, f)
    /\ full' = (Len(block) + 1 >= MaxTxns)

IncludeAsNext(t, a) ==
    /\ Considered(t, a)
    /\ ~TooLong(t, a)
    /\ ~NoGasLeft(t)
    /\ Push(t, a + gas_used(t))
    /\ last_touched' = TouchedAfter(t, Len(block) + 1, a + gas_used(t))
    /\ UNCHANGED <<gas_per_core, return_vec, skipped_users, non_user_skip>>
Include(t, a) ==
    /\ Considered(t, a)
    /\ ~TooLong(t, a)
    /\ ~NoGasLeft(t)
    /\ Push(t, a + gas_used(t))
    /\ last_touched' = TouchedAfter(t, Len(block), a + gas_used(t))
    /\ UNCHANGED <<gas_per_core, return_vec, skipped_users, non_user_skip>>

\* One turn of the loop over the input.
AddNext ==
    /\ result # <<>>
    /\ result' = Tail(result)
    /\ LET t == Head(result) IN
       \/ ReturnWhenFull(t)
       \/ ReturnOfSkippedUser(t)
       \/ ReturnTooHot(t)
       \/ \E a \in {0} \cup {last_touched[k].time : k \in Touched(t)} :
             \/ ReturnTooLong(t, a)
             \/ ReturnNoGas(t, a)
             \/ Include(t, a)
    /\ UNCHANGED input
=============================================================================
