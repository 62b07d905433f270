------------------------------- MODULE Mempool -------------------------------
(****************************************************************************)
(* The mempool of one node (mempool/src/core_mempool/mempool.rs) and the    *)
(* requests it serves (shared_mempool/tasks.rs): transactions arrive from   *)
(* clients and peers with a sequence number that was read from storage      *)
(* before the mempool was locked, commits are notified in order, consensus  *)
(* asks for batches and rejects, and old transactions are collected.        *)
(****************************************************************************)
EXTENDS TransactionStore

CONSTANTS
    Incoming,           \* the transactions that clients and peers send
    Expirations,        \* given by clients
    TTLs,               \* given by the system on arrival
    Times,              \* what clocks may show
    PeerCount, PeerId,  \* get_peer_count() + 1 and get_peer_position()
    Shard,              \* of each account: the sum of the bytes of its address
    MaxPeers,           \* the largest network EveryShardTaken looks at
    MaxDb,              \* bounds the commits of each account
    MaxTimeline         \* bounds the ids of a timeline

ASSUME MempoolAssumption ==
    /\ Incoming \subseteq [sender : Accounts, seq : Seqs, price : Prices, exp : Expirations,
                           timeline_state : {"NotReady", "NonQualified"}]
    /\ Expirations \subseteq Nat /\ TTLs \subseteq Nat /\ Times \subseteq Nat
    /\ PeerCount \in 1 .. 255 /\ PeerId \in 0 .. PeerCount - 1
    /\ Shard \in [Accounts -> 0 .. 255]
    /\ {MaxPeers, MaxTimeline} \subseteq Nat /\ MaxDb \in [Accounts -> Nat]

VARIABLES
    store,      \* Mempool::transactions
    db,         \* per account, the sequence number in storage
    told        \* per account, how many of its commits were notified

vars == <<store, db, told>>

Init ==
    /\ store = new_store
    /\ db = [a \in Accounts |-> 0]
    /\ told = [a \in Accounts |-> 0]

----------------------------------------------------------------------------
\* The part of the accounts a peer is responsible for.
shards(n) == (n \div 3) + 1

\* (256.0 / peer_count as f32).ceil()
SpaceFloor(n) == 256 \div n
Space(n) == (256 + n - 1) \div n

ShardedOut(val, n, id) ==
    LET start == IF n > 1 THEN id * Space(n) ELSE 0
        end   == IF n > 1 THEN start + Space(n) * shards(n) ELSE 255
    IN  IF end > 255 THEN val < start /\ val >= end - 255
                     ELSE val < start \/ val >= end

----------------------------------------------------------------------------
\* Storage is committed to by the execution pipeline, before the mempool is told.
StorageCommits(a) ==
    /\ db[a] < MaxDb[a]
    /\ db' = [db EXCEPT ![a] = @ + 1]
    /\ UNCHANGED <<store, told>>

InBounds(st) == \A b \in Buckets : st.timeline_index[b].timeline_id <= MaxTimeline

\* process_incoming_transactions and add_sharded_txn.  The sequence number n was read
\* earlier, so any that storage has had will do.
AddTxn(t, n, ttl) ==
    /\ t.seq >= n
    /\ ~ShardedOut(Shard[t.sender], PeerCount, PeerId)
    /\ MayInsert(store, t)
    /\ \E st \in insert(store,
                        [sender |-> t.sender, seq |-> t.seq, price |-> t.price,
                         exp |-> t.exp, ttl |-> ttl,
                         timeline_state |-> t.timeline_state, id |-> 0], n) :
          InBounds(st) /\ store' = st
    /\ UNCHANGED <<db, told>>

\* process_committed_transactions, for a block with one transaction of this node's
\* accounts; now is the time of the block, 0 if it has none.
CommitNotification(a, now) ==
    /\ told[a] < db[a]
    /\ told' = [told EXCEPT ![a] = @ + 1]
    /\ LET st == commit_transaction(store, a, told[a])
       IN  /\ InBounds(st)
           /\ store' = IF now = 0 THEN st ELSE gc_by_expiration_time(st, now)
    /\ UNCHANGED db

\* process_rejected_transactions.
RejectNotification(h) ==
    /\ h \in store.hash_index
    /\ store' = reject_transaction(store, h)
    /\ UNCHANGED <<db, told>>

\* The request of the quorum store for a batch collects what has expired for clients.
\* The transactions get_full_batch selects are not handed to the filler it returns.
GetBatchRequest(now) ==
    /\ store' = gc_by_expiration_time(store, now)
    /\ UNCHANGED <<db, told>>

\* The periodic Mempool::gc.
Gc(now) ==
    /\ store' = gc_by_system_ttl(store, now)
    /\ UNCHANGED <<db, told>>

Next ==
    \/ \E a \in Accounts : StorageCommits(a)
    \/ \E t \in Incoming : \E n \in 0 .. db[t.sender] : \E ttl \in TTLs : AddTxn(t, n, ttl)
    \/ \E a \in Accounts : \E now \in Times \cup {0} : CommitNotification(a, now)
    \/ \E h \in store.hash_index : RejectNotification(h)
    \/ \E now \in Times : GetBatchRequest(now)
    \/ \E now \in Times : Gc(now)

Spec == Init /\ [][Next]_vars

----------------------------------------------------------------------------
Txn == [sender : Accounts, seq : Seqs, price : Prices, exp : Expirations, ttl : TTLs,
        timeline_state : {"NotReady", "NonQualified", "Ready"}, id : 0 .. MaxTimeline]

\* Every part of the store has its type; there is one transaction per account and
\* sequence number, and sequence numbers are known for every account with transactions.
TypeOK ==
    /\ store.transactions \subseteq Txn
    /\ \A t, u \in store.transactions : Ptr(t) = Ptr(u) => t = u
    /\ DOMAIN store.sequence_numbers \subseteq Accounts
    /\ {t.sender : t \in store.transactions} \subseteq DOMAIN store.sequence_numbers
    /\ \A a \in DOMAIN store.sequence_numbers : store.sequence_numbers[a] \in 0 .. MaxDb[a]
    /\ \A b \in Buckets : store.timeline_index[b].timeline_id \in 1 .. MaxTimeline
    /\ store.size_bytes \in Nat
    /\ \A a \in Accounts : told[a] \in 0 .. db[a] /\ db[a] \in 0 .. MaxDb[a]

Parked(t) == parked(store.parking_lot_index, t.sender, t.seq)
Prioritised(t) == PriorityKey(t) \in store.priority_index

\* The store is well typed, and whatever is replaced, evicted, committed, rejected or
\* collected, each index refers to exactly the transactions it should: both expiration
\* indexes and the hashes to all, the timelines to the Ready ones under their ids, and
\* every transaction is ordered for consensus or parked.
IndexesAgree ==
    /\ TypeOK
    /\ store.system_ttl_index = {TTLKey(t.ttl, t) : t \in store.transactions}
    /\ store.expiration_time_index = {TTLKey(t.exp, t) : t \in store.transactions}
    /\ store.hash_index = {Hash(t) : t \in store.transactions}
    /\ store.priority_index = {PriorityKey(t) : t \in {u \in store.transactions : Prioritised(u)}}
    /\ \A b \in Buckets : store.timeline_index[b].timeline =
          {<<t.id, Ptr(t)>> : t \in {u \in store.transactions : Ready(u) /\ Bucket[u.price] = b}}
    /\ \A t \in store.transactions : Prioritised(t) \/ Parked(t)
    /\ \A t \in store.transactions : Ready(t) => Prioritised(t) /\ ~Parked(t)
    /\ store.size_bytes = MapThenSumSet(LAMBDA t : Bytes[t.sender], store.transactions)

\* The invariants ParkingLotIndex names, and its size: no account has an empty entry,
\* account_indices leads each account to its own entry, also after swap_remove has moved
\* one, and what is parked is in the store.
ParkingLotSound ==
    LET lot == store.parking_lot_index
    IN  /\ \A i \in DOMAIN lot.data : lot.data[i].txns # {}
        /\ DOMAIN lot.account_indices = {lot.data[i].account : i \in DOMAIN lot.data}
        /\ \A a \in DOMAIN lot.account_indices :
              HasEntry(lot, a) /\ lot.data[lot.account_indices[a]].account = a
        /\ lot.size = MapThenSumSet(LAMBDA i : Cardinality(lot.data[i].txns), DOMAIN lot.data)
        /\ \A i \in DOMAIN lot.data : \A s \in lot.data[i].txns :
              At(store, lot.data[i].account, s) # {}

\* All transactions of an account that follow one another from the sequence number the
\* mempool knows are ordered for consensus, are not parked, and are in the timeline
\* unless they never will be: no order of arrival, commit and collection leaves one out.
SequentialAreReady ==
    \A a \in DOMAIN store.sequence_numbers :
        \A t \in Sequential(store, a, store.sequence_numbers[a]) :
            Prioritised(t) /\ ~Parked(t) /\ t.timeline_state # "NotReady"

\* The limits of the store hold after every insertion, whichever of the three is met
\* first and whatever was evicted or cleaned for it: the number of transactions and the
\* number of an account's are never exceeded, the bytes by less than one transaction.
WithinCapacity ==
    /\ Cardinality(store.transactions) <= Capacity
    /\ \A a \in Accounts : Cardinality(Account(store, a)) <= CapacityPerUser
    /\ store.size_bytes < CapacityBytes + Max({Bytes[a] : a \in Accounts})

\* A peer that has been sent everything up to its position has been sent everything up
\* to the position read_timeline gives it next, in every bucket: a batch that is full by
\* number or by bytes leaves nothing out behind the new position.
BroadcastSkipsNothing ==
    \A pos \in [Buckets -> 0 .. MaxTimeline - 1] : \A count \in 1 .. 2 :
        LET read == read_timeline(store, pos, count)
        IN  \A b \in Buckets : \A e \in store.timeline_index[b].timeline :
                pos[b] < e[1] /\ e[1] <= read.pos[b] => e[2] \in ToSet(read.batch)

\* In every network of 2 to MaxPeers peers, a transaction this node keeps is kept by as
\* many of them as a third of them and one more, so that one of them is correct: the
\* shares of the accounts overlap enough, also at the ends of 0 .. 255. (A node without
\* peers refuses the accounts of shard 255, for which nobody is left.)
EveryShardTaken ==
    \A t \in store.transactions : \A n \in 2 .. MaxPeers :
        Cardinality({id \in 0 .. n - 1 : ~ShardedOut(Shard[t.sender], n, id)}) >= shards(n)

\* An insertion takes no ready transaction out of the store except for a dearer version
\* of it or because storage has moved past it: only parked ones are evicted. (When the
\* store is full by bytes the dearer version can be refused after the other is gone.)
ReadyKept ==
    [][store'.hash_index \ store.hash_index # {}
          => \A t \in store.transactions :
                Prioritised(t) /\ ~Parked(t)
                    => \/ At(store', t.sender, t.seq) # {}
                       \/ t.seq < db[t.sender]]_vars
=============================================================================
