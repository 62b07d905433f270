--------------------------- MODULE TransactionStore ---------------------------
(****************************************************************************)
(* The store of pending transactions and its seven indexes                  *)
(* (mempool/src/core_mempool/transaction_store.rs, index.rs).  A method     *)
(* that changes the store is an operator from the store to the store; the   *)
(* mempool's lock makes each call one step.                                 *)
(*                                                                          *)
(* A transaction is a record: its sender and sequence number seq, its gas   *)
(* price, which is its ranking score, its expiration exp given by the       *)
(* client (standing for all that must not differ when a transaction is sent *)
(* again: payload, expiration and gas limit), the expiration ttl given by   *)
(* the system, and the timeline_state with the id of Ready.                 *)
(****************************************************************************)
EXTENDS ParkingLotIndex, FiniteSetsExt, SequencesExt

CONSTANTS
    Accounts, Seqs,         \* addresses, as numbers, and sequence numbers
    Prices,                 \* gas prices
    Bucket,                 \* the broadcast bucket of each price
    Bytes,                  \* estimated size of a transaction of each account
    Capacity, CapacityBytes, CapacityPerUser,
    MaxBroadcastBytes       \* max_batch_bytes

Buckets == {Bucket[p] : p \in Prices}

ASSUME StoreAssumption ==
    /\ Accounts \subseteq Nat /\ Seqs \subseteq Nat /\ Prices \subseteq Nat
    /\ Bucket \in [Prices -> Nat]
    /\ Bytes \in [Accounts -> Nat]
    /\ {Capacity, CapacityBytes, CapacityPerUser} \subseteq Nat \ {0}
    /\ MaxBroadcastBytes \in Nat \ {0}

Ptr(t) == <<t.sender, t.seq>>
Ready(t) == t.timeline_state = "Ready"
Hash(t) == [sender |-> t.sender, seq |-> t.seq, price |-> t.price, exp |-> t.exp]
PriorityKey(t) == [price |-> t.price, ttl |-> t.ttl, sender |-> t.sender, seq |-> t.seq]
TTLKey(time, t) == [time |-> time, sender |-> t.sender, seq |-> t.seq]

new_store ==
    [transactions |-> {},
     sequence_numbers |-> [a \in {} |-> 0],
     priority_index |-> {},
     expiration_time_index |-> {},
     system_ttl_index |-> {},
     timeline_index |-> [b \in Buckets |-> [timeline_id |-> 1, timeline |-> {}]],
     parking_lot_index |-> new_parking_lot,
     hash_index |-> {},
     size_bytes |-> 0]

Account(st, a) == {t \in st.transactions : t.sender = a}
At(st, a, s) == {t \in st.transactions : Ptr(t) = <<a, s>>}
InOrder(txns) == SetToSortSeq(txns, LAMBDA t, u : t.seq < u.seq)

----------------------------------------------------------------------------
\* TimelineIndex::insert and remove; insert also makes the transaction Ready.
timeline_insert(st, t) ==
    LET line == st.timeline_index[Bucket[t.price]]
        id   == line.timeline_id
    IN  [st EXCEPT
            !.timeline_index[Bucket[t.price]] =
                [timeline_id |-> id + 1, timeline |-> line.timeline \cup {<<id, Ptr(t)>>}],
            !.transactions =
                (@ \ {t}) \cup {[t EXCEPT !.timeline_state = "Ready", !.id = id]}]

timeline_remove(st, t) ==
    IF ~Ready(t) THEN st
    ELSE [st EXCEPT !.timeline_index[Bucket[t.price]].timeline =
                        {e \in @ : e[1] # t.id}]

\* The transaction leaves the store and every index; the account goes with its last.
IndexRemoveKeepsHash(st, t) ==
    [timeline_remove(st, t) EXCEPT
        !.transactions = @ \ {t},
        !.system_ttl_index = @ \ {TTLKey(t.ttl, t)},
        !.expiration_time_index = @ \ {TTLKey(t.exp, t)},
        !.priority_index = @ \ {PriorityKey(t)},
        !.parking_lot_index = park_remove(@, t.sender, t.seq),
        !.size_bytes = @ - Bytes[t.sender],
        !.sequence_numbers = IF Account(st, t.sender) \subseteq {t}
                             THEN [a \in DOMAIN @ \ {t.sender} |-> @[a]] ELSE @]
index_remove(st, t) ==
    [timeline_remove(st, t) EXCEPT
        !.transactions = @ \ {t},
        !.system_ttl_index = @ \ {TTLKey(t.ttl, t)},
        !.expiration_time_index = @ \ {TTLKey(t.exp, t)},
        !.priority_index = @ \ {PriorityKey(t)},
        !.parking_lot_index = park_remove(@, t.sender, t.seq),
        !.hash_index = @ \ {Hash(t)},
        !.size_bytes = @ - Bytes[t.sender],
        !.sequence_numbers = IF Account(st, t.sender) \subseteq {t}
                             THEN [a \in DOMAIN @ \ {t.sender} |-> @[a]] ELSE @]

RemoveAll(st, txns) == FoldLeft(index_remove, st, InOrder(txns))

clean_committed_transactions(st, a, n) ==
    RemoveAll(st, {t \in Account(st, a) : t.seq < n})

----------------------------------------------------------------------------
\* Into the priority index, once into the timeline, and out of the parking lot.
Promote(st, t) ==
    LET st1 == [st EXCEPT !.priority_index = @ \cup {PriorityKey(t)},
                          !.parking_lot_index = park_remove(@, t.sender, t.seq)]
    IN  IF t.timeline_state = "NotReady" THEN timeline_insert(st1, t) ELSE st1

Park(st, t) == [st EXCEPT !.parking_lot_index = park_insert(@, t.sender, t.seq)]

\* The transactions of a that follow one another from n on.
Sequential(st, a, n) ==
    {t \in Account(st, a) : t.seq >= n /\ \A s \in n .. t.seq : At(st, a, s) # {}}

process_ready_transactions(st, a, n) ==
    LET run  == Sequential(st, a, n)
        rest == {t \in Account(st, a) \ run : t.seq > n /\ ~Ready(t)}
    IN  FoldLeft(Park, FoldLeft(Promote, st, InOrder(run)), InOrder(rest))

----------------------------------------------------------------------------
IsFullPastLimit(st) ==
    Cardinality(st.system_ttl_index) > Capacity \/ st.size_bytes > CapacityBytes
is_full(st) ==
    Cardinality(st.system_ttl_index) >= Capacity \/ st.size_bytes >= CapacityBytes

check_txn_ready(st, t, n) ==
    t.seq = n \/ \E p \in At(st, t.sender, t.seq - 1) : Ready(p)

\* check_is_full_after_eviction: the stores it may leave.
AfterEvictionOfAny(st, t, n) ==
    IF is_full(st) /\ check_txn_ready(st, t, n) /\ st.transactions # {}
    THEN {index_remove(st, u) : u \in st.transactions}
    ELSE {st}
AfterEviction(st, t, n) ==
    IF is_full(st) /\ check_txn_ready(st, t, n) /\ poppable(st.parking_lot_index) # {}
    THEN {RemoveAll(st, At(st, p[1], p[2])) : p \in poppable(st.parking_lot_index)}
    ELSE {st}

\* insert goes on: there is no such transaction yet, or it is the same but cheaper.
MayInsert(st, t) ==
    \A old \in At(st, t.sender, t.seq) : old.exp = t.exp /\ old.price < t.price

\* The end of insert.
Store(st, t, n) ==
    [st EXCEPT
        !.transactions = @ \cup {t},
        !.system_ttl_index = @ \cup {TTLKey(t.ttl, t)},
        !.expiration_time_index = @ \cup {TTLKey(t.exp, t)},
        !.hash_index = @ \cup {Hash(t)},
        !.sequence_numbers = [a \in DOMAIN @ \cup {t.sender} |->
                                 IF a = t.sender THEN n ELSE @[a]],
        !.size_bytes = @ + Bytes[t.sender]]

\* insert, with the account's sequence number n: the stores it may leave.
insert(st, t, n) ==
    LET finish(s1) ==
            IF is_full(s1) THEN s1
            ELSE LET s2 == clean_committed_transactions(s1, t.sender, n)
                 IN  IF Cardinality(Account(s2, t.sender)) >= CapacityPerUser THEN s2
                     ELSE process_ready_transactions(Store(s2, t, n), t.sender, n)
    IN  {finish(s1) : s1 \in AfterEviction(RemoveAll(st, At(st, t.sender, t.seq)), t, n)}

\* commit_transaction.
CommitPromotesNothing(st, a, s) ==
    LET current == IF a \in DOMAIN st.sequence_numbers THEN st.sequence_numbers[a] ELSE 0
        n       == Max({current, s + 1})
        st1     == [st EXCEPT !.sequence_numbers =
                       [x \in DOMAIN @ \cup {a} |-> IF x = a THEN n ELSE @[x]]]
    IN  clean_committed_transactions(st1, a, n)
commit_transaction(st, a, s) ==
    LET current == IF a \in DOMAIN st.sequence_numbers THEN st.sequence_numbers[a] ELSE 0
        n       == Max({current, s + 1})
        st1     == [st EXCEPT !.sequence_numbers =
                       [x \in DOMAIN @ \cup {a} |-> IF x = a THEN n ELSE @[x]]]
    IN  process_ready_transactions(clean_committed_transactions(st1, a, n), a, n)

\* reject_transaction, of a transaction that hash_index has at that place.
reject_transaction(st, h) == RemoveAll(st, At(st, h.sender, h.seq))

\* gc: the expired transactions of one index go, and all that follow one of them
\* in its account are no longer ready.
Expired(index, now) == {k \in index : k.time < now}

ParkFollower(st, t) ==
    [timeline_remove(st, t) EXCEPT
        !.parking_lot_index = park_insert(@, t.sender, t.seq),
        !.priority_index = @ \ {PriorityKey(t)},
        !.transactions =
            (@ \ {t}) \cup {IF Ready(t) THEN [t EXCEPT !.timeline_state = "NotReady", !.id = 0]
                                        ELSE t}]

\* One expired key: what comes before the next expired one is parked.
GcKey(st, keys, k) ==
    LET next == {o.seq : o \in {o \in keys : o.sender = k.sender /\ o.seq > k.seq}}
        following == {t \in Account(st, k.sender) :
                         t.seq > k.seq /\ \A s \in next : t.seq < s}
    IN  RemoveAll(FoldLeft(ParkFollower, st, InOrder(following)), At(st, k.sender, k.seq))

GcKeys(st, keys) ==
    FoldLeft(LAMBDA s, k : GcKey(s, keys, k), st,
             SetToSortSeq(keys, LAMBDA k, o : \/ k.sender < o.sender
                                              \/ k.sender = o.sender /\ k.seq < o.seq))

gc_by_system_ttl(st, now) ==
    LET keys == Expired(st.system_ttl_index, now)
    IN  GcKeys([st EXCEPT !.system_ttl_index = @ \ keys], keys)

gc_by_expiration_time(st, now) ==
    LET keys == Expired(st.expiration_time_index, now)
    IN  GcKeys([st EXCEPT !.expiration_time_index = @ \ keys], keys)

----------------------------------------------------------------------------
\* read_timeline: at most count transactions after the position pos (an id per bucket),
\* from the highest bucket to the lowest; a bucket is left where the batch is full.

BytesOf(ptrs) == FoldLeft(LAMBDA n, p : n + Bytes[p[1]], 0, ptrs)

EntriesSince(st, b, id) ==
    SetToSortSeq({e \in st.timeline_index[b].timeline : e[1] > id},
                 LAMBDA e, o : e[1] < o[1])

ReadBucketAhead(st, count, acc, b) ==
    LET since == EntriesSince(st, b, acc.pos[b])
        page  == SubSeq(since, 1, Min({Len(since), count - acc.added}))
        ptrs  == [i \in DOMAIN page |-> page[i][2]]
        fits  == {i \in 0 .. Len(page) :
                     acc.bytes + BytesOf(SubSeq(ptrs, 1, i)) <= MaxBroadcastBytes}
        taken == SubSeq(ptrs, 1, Max(fits))
    IN  [added |-> acc.added + Len(page),
         bytes |-> acc.bytes + BytesOf(taken),
         batch |-> acc.batch \o taken,
         pos   |-> IF page = <<>> THEN acc.pos
                   ELSE [acc.pos EXCEPT ![b] = page[Len(page)][1]]]
ReadBucket(st, count, acc, b) ==
    LET since == EntriesSince(st, b, acc.pos[b])
        page  == SubSeq(since, 1, Min({Len(since), count - acc.added}))
        ptrs  == [i \in DOMAIN page |-> page[i][2]]
        fits  == {i \in 0 .. Len(page) :
                     acc.bytes + BytesOf(SubSeq(ptrs, 1, i)) <= MaxBroadcastBytes}
        taken == SubSeq(ptrs, 1, Max(fits))
    IN  [added |-> acc.added + Len(page),
         bytes |-> acc.bytes + BytesOf(taken),
         batch |-> acc.batch \o taken,
         pos   |-> IF taken = <<>> THEN acc.pos
                   ELSE [acc.pos EXCEPT ![b] = page[Len(taken)][1]]]

read_timeline(st, pos, count) ==
    FoldLeft(LAMBDA acc, b : ReadBucket(st, count, acc, b),
             [added |-> 0, bytes |-> 0, batch |-> <<>>, pos |-> pos],
             SetToSortSeq(Buckets, LAMBDA b, c : b > c))
=============================================================================
