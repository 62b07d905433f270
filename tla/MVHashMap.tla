----------------------------- MODULE MVHashMap -----------------------------
(***************************************************************************)
(* The multi-version map of mvhashmap/src/lib.rs.  The map of one key, its *)
(* versioned_map, is a function from transaction indices to entries; every *)
(* operation on it runs under the lock of the key and is one operator.     *)
(***************************************************************************)
EXTENDS DeltaOp, Integers

\* What a WriteOp::Deletion holds instead of a value.
Deletion == -1

NoEntry == [cell |-> "None"]

\* EntryCell::Write and EntryCell::Delta, flag FLAG_DONE.
WriteEntry(inc, data) ==
    [cell |-> "Write", flag |-> "DONE", inc |-> inc, data |-> data]

DeltaEntry(delta) == [cell |-> "Delta", flag |-> "DONE", delta |-> delta]

\* Faulty: an existing entry keeps its flag.
AddWriteKeepsFlag(vm, t, inc, data) ==
    [vm EXCEPT ![t] = IF @ = NoEntry THEN WriteEntry(inc, data)
                      ELSE [WriteEntry(inc, data) EXCEPT !.flag = vm[t].flag]]

add_write(vm, t, inc, data) == [vm EXCEPT ![t] = WriteEntry(inc, data)]

add_delta(vm, t, delta) == [vm EXCEPT ![t] = DeltaEntry(delta)]

mark_estimate(vm, t) == [vm EXCEPT ![t].flag = "ESTIMATE"]

\* Faulty: the entry stays.
DeleteNothing(vm, t) == vm

delete(vm, t) == [vm EXCEPT ![t] = NoEntry]

-----------------------------------------------------------------------------
(* MVHashMapOutput and MVHashMapError *)

Version(idx, inc, data) ==
    [kind |-> "Version", idx |-> idx, inc |-> inc, data |-> data]

Resolved(value) == [kind |-> "Resolved", value |-> value]

Unresolved(delta) == [kind |-> "Unresolved", delta |-> delta]

Dependency(idx) == [kind |-> "Dependency", idx |-> idx]

DeltaApplicationFailure == [kind |-> "DeltaApplicationFailure"]

NotFound == [kind |-> "NotFound"]

-----------------------------------------------------------------------------
(* read *)

\* The state of its loop: not returned yet, the accumulator still None.
Traversing(acc) == [kind |-> "Traversing", acc |-> acc]

NoAccumulator == [some |-> FALSE]

Accumulated(result) == [some |-> TRUE, delta |-> result]

\* One iteration of the loop, at the entry of transaction i.
Visit(entry, i, acc) ==
    CASE entry.cell = "None" -> Traversing(acc)
      [] entry.cell # "None" /\ entry.flag = "ESTIMATE" -> Dependency(i)
      [] entry.cell = "Write" /\ entry.flag = "DONE" ->
            IF ~acc.some \/ entry.data = Deletion
            THEN Version(i, entry.inc, entry.data)
            ELSE LET result == apply_to(acc.delta.val, entry.data)
                 IN  IF acc.delta.ok /\ result.ok
                     THEN Resolved(result.val)
                     ELSE DeltaApplicationFailure
      [] entry.cell = "Delta" /\ entry.flag = "DONE" ->
            IF ~acc.some THEN Traversing(Accumulated(Ok(entry.delta)))
            ELSE IF acc.delta.ok
            THEN Traversing(Accumulated(merge_onto(acc.delta.val, entry.delta)))
            ELSE Traversing(acc)

\* The end of the map.
Exhausted(acc) ==
    IF ~acc.some THEN NotFound
    ELSE IF acc.delta.ok THEN Unresolved(acc.delta.val)
    ELSE DeltaApplicationFailure

\* Faulty: the first delta ends the traversal, lower entries are not merged.
ReadTopDelta(vm, t) ==
    LET Below == {i \in 0 .. (t - 1) : vm[i].cell # "None"}
    IN  IF Below = {} THEN NotFound
        ELSE LET i == CHOOSE i \in Below : \A j \in Below : j <= i
                 r == Visit(vm[i], i, NoAccumulator)
             IN  IF r.kind = "Traversing" THEN Exhausted(r.acc) ELSE r

\* The loop visits the entries below t from the highest down; Traversal(vm, t, acc)[n]
\* is where it stands after n of them if it starts with acc.
Traversal(vm, t, acc) ==
    LET state[n \in 0 .. t] ==
            IF n = 0 THEN Traversing(acc)
            ELSE IF state[n - 1].kind # "Traversing" THEN state[n - 1]
            ELSE Visit(vm[t - n], t - n, state[n - 1].acc)
    IN  state

\* Where the loop ends.
Ended(last) == IF last.kind = "Traversing" THEN Exhausted(last.acc) ELSE last

read(vm, t) == Ended(Traversal(vm, t, NoAccumulator)[t])

\* The value get_state_value makes of a result, given the one in storage:
\* Err when the delta does not apply to it.  A failure reads as 0.
ValueOf(result, base) ==
    CASE result.kind = "Version" -> Ok(result.data)
      [] result.kind = "Resolved" -> Ok(result.value)
      [] result.kind = "NotFound" -> Ok(base)
      [] result.kind = "DeltaApplicationFailure" -> Ok(0)
      [] result.kind = "Unresolved" ->
            IF base = Deletion THEN Err ELSE apply_to(result.delta, base)

=============================================================================
