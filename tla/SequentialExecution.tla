------------------------ MODULE SequentialExecution ------------------------
(***************************************************************************)
(* execute_transactions_sequential of executor.rs: the transactions of the *)
(* block, one after the other, each on what those before it have written.  *)
(* It is the fallback of the block executor, and the specification of what *)
(* the parallel executor must commit.                                      *)
(***************************************************************************)
EXTENDS MVHashMap, Sequences

CONSTANTS
    NumTxns, Keys, NoKey, Storage,
    NextRead(_, _),  \* the key a transaction reads after what it has seen
    Output(_, _),    \* its status, writes and deltas, from all it has seen
    MaxReads         \* bound: the reads of a transaction

VARIABLES
    data_map,        \* the view: storage, overlaid with the writes so far
    ret,             \* the outputs so far
    result           \* "running", "ok", "error" or "panic"

seq_vars == <<data_map, ret, result>>

SeqInit ==
    /\ data_map = Storage
    /\ ret = <<>>
    /\ result = "running"

\* What transaction t reads when it runs on the view.
SeenOn(t, view) ==
    LET seen[n \in 0 .. MaxReads] ==
            IF n = 0 THEN <<>>
            ELSE LET key == NextRead(t, seen[n - 1])
                 IN  IF key = NoKey THEN seen[n - 1]
                     ELSE Append(seen[n - 1], Ok(view[key]))
    IN  seen[MaxReads]

\* The view after an output; into_transaction_output turns deltas into writes.
Applied(output, view) ==
    [k \in Keys |->
        IF k \in DOMAIN output.writes THEN output.writes[k]
        ELSE IF k \in DOMAIN output.deltas
        THEN apply_to(output.deltas[k], view[k]).val
        ELSE view[k]]

\* try_into_write_set_mut succeeds; into_transaction_output expects it to.
Materializes(output, view) ==
    \A k \in DOMAIN output.deltas : apply_to(output.deltas[k], view[k]).ok

\* One iteration.
SeqExecute ==
    LET output == Output(Len(ret), SeenOn(Len(ret), data_map))
    IN  /\ result = "running"
        /\ Len(ret) < NumTxns
        /\ \/ /\ output.status = "Abort"
              /\ result' = "error"
              /\ UNCHANGED <<data_map, ret>>
           \/ /\ output.status # "Abort"
              /\ ~Materializes(output, data_map)
              /\ result' = "panic"
              /\ UNCHANGED <<data_map, ret>>
           \/ /\ output.status # "Abort"
              /\ Materializes(output, data_map)
              /\ data_map' = Applied(output, data_map)
              /\ ret' = Append(ret, output)
              /\ result' = IF output.status = "SkipRest" \/ Len(ret) + 1 = NumTxns
                           THEN "ok" ELSE "running"

SeqNext == SeqExecute

SeqSpec == SeqInit /\ [][SeqNext]_seq_vars

=============================================================================
