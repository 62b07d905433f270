--------------------------- MODULE ParkingLotIndex ---------------------------
(****************************************************************************)
(* The index of the transactions that are not ready                         *)
(* (mempool/src/core_mempool/index.rs, ParkingLotIndex): a vector with one  *)
(* entry per account, so that a random account can be chosen, and the       *)
(* position of each account in it.  Positions start at 1 here.              *)
(****************************************************************************)
EXTENDS Naturals, Sequences, FiniteSets

new_parking_lot == [data |-> <<>>, account_indices |-> [a \in {} |-> 0], size |-> 0]

HasEntry(p, a) ==
    a \in DOMAIN p.account_indices /\ p.account_indices[a] \in DOMAIN p.data

\* ParkingLotIndex::insert.  An account index without an entry is an error that is
\* counted and changes nothing.
park_insert(p, a, s) ==
    IF a \in DOMAIN p.account_indices
    THEN IF ~HasEntry(p, a) THEN p
         ELSE LET i == p.account_indices[a]
              IN  [p EXCEPT !.data[i].txns = @ \cup {s},
                            !.size = @ + (IF s \in p.data[i].txns THEN 0 ELSE 1)]
    ELSE [data |-> Append(p.data, [account |-> a, txns |-> {s}]),
          account_indices |->
              [x \in DOMAIN p.account_indices \cup {a} |->
                  IF x = a THEN Len(p.data) + 1 ELSE p.account_indices[x]],
          size |-> p.size + 1]

\* Vec::swap_remove.
swap_remove(data, i) ==
    LET rest == SubSeq(data, 1, Len(data) - 1)
    IN  IF i = Len(data) THEN rest ELSE [rest EXCEPT ![i] = data[Len(data)]]

\* The entry of account a, at i, is empty.  The account that swap_remove moves is told.
RemoveAccountOnly(p, a, i) ==
    [p EXCEPT !.data = swap_remove(@, i),
              !.account_indices = [x \in DOMAIN @ \ {a} |-> @[x]]]
RemoveAccount(p, a, i) ==
    LET data == swap_remove(p.data, i)
    IN  [p EXCEPT !.data = data,
                  !.account_indices = [x \in DOMAIN @ \ {a} |->
                      IF i \in DOMAIN data /\ x = data[i].account THEN i ELSE @[x]]]

\* ParkingLotIndex::remove.
park_remove(p, a, s) ==
    IF ~HasEntry(p, a) THEN p
    ELSE LET i == p.account_indices[a]
             q == [p EXCEPT !.data[i].txns = @ \ {s},
                            !.size = @ - (IF s \in p.data[i].txns THEN 1 ELSE 0)]
         IN  IF q.data[i].txns = {} THEN RemoveAccount(q, a, i) ELSE q

\* ParkingLotIndex::contains.
parked(p, a, s) == HasEntry(p, a) /\ s \in p.data[p.account_indices[a]].txns

\* ParkingLotIndex::get_poppable: the highest sequence number of any account.
poppable(p) ==
    {<<e.account, CHOOSE s \in e.txns : \A o \in e.txns : o <= s>> :
        e \in {p.data[i] : i \in DOMAIN p.data}}
=============================================================================
