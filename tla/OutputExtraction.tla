------------------------- MODULE OutputExtraction --------------------------
(***************************************************************************)
(* How the block executor turns the recorded outputs of a block into its   *)
(* result (executor.rs: the end of execute_transactions_parallel, and      *)
(* execute_block with its sequential fallback).  The output of a           *)
(* transaction is its index.                                               *)
(***************************************************************************)
EXTENDS Naturals, Sequences

CONSTANTS
    NumTxns,
    Levels,          \* concurrency levels
    Blocks           \* the final statuses a block may have

Txns == 0 .. NumTxns - 1

ASSUME ExtractionAssumption ==
    /\ NumTxns \in Nat \ {0}
    /\ Levels \subseteq Nat \ {0}
    /\ Blocks \subseteq [Txns -> {"Success", "SkipRest", "Abort"}]

VARIABLES
    concurrency_level,
    status,          \* ExecutionStatus recorded by the parallel execution
    seq_status,      \* what the sequential execution would make of the block
    may_race,        \* module_publishing_may_race()
    interm_result,   \* per chunk, once extracted
    merged,          \* chunks merged so far
    final_results,
    maybe_err,
    ret              \* what execute_block returns

vars == <<concurrency_level, status, seq_status, may_race, interm_result,
          merged, final_results, maybe_err, ret>>

inputs == <<concurrency_level, status, seq_status, may_race>>

SkipOutput == NumTxns

Pending == [kind |-> "pending"]

Value(v) == [kind |-> "Value", value |-> v]

UserError(t) == [kind |-> "UserError", txn |-> t]

ModulePathReadWrite == [kind |-> "ModulePathReadWrite"]

NoError == [kind |-> "None"]

-----------------------------------------------------------------------------
(* Chunks *)

chunk_size ==
    (NumTxns + 4 * concurrency_level - 1) \div (4 * concurrency_level)

Chunks == 0 .. ((NumTxns - 1) \div chunk_size)

InChunk(c) == {t \in Txns : t \div chunk_size = c}

\* The transactions of S in order up to t, or all if t stops nothing.
UpTo(S, t) ==
    LET first == CHOOSE x \in S : \A y \in S : x <= y
        last == CHOOSE x \in S : \A y \in S : x >= y
        end == IF t \in S THEN t ELSE last
    IN  [i \in 1 .. (end - first + 1) |-> first + i - 1]

\* The first of S that does not end in Success under st, or NumTxns.
FirstStop(S, st) ==
    LET Stops == {t \in S : st[t] # "Success"}
    IN  IF Stops = {} THEN NumTxns ELSE CHOOSE t \in Stops : \A u \in Stops : t <= u

\* What a loop over S makes of the statuses: SkipRest ends it after its
\* transaction, Abort ends it with an error.
Extracted(S, st) ==
    LET stop == FirstStop(S, st)
    IN  IF stop < NumTxns /\ st[stop] = "Abort" THEN UserError(stop)
        ELSE Value(UpTo(S, stop))

\* resize_with(num_txns, skip_output).
Resized(outputs) ==
    [i \in 1 .. NumTxns |-> IF i <= Len(outputs) THEN outputs[i] ELSE SkipOutput]

\* execute_transactions_sequential.
SequentialResult(st) ==
    LET r == Extracted(Txns, st)
    IN  IF r.kind = "Value" THEN Value(Resized(r.value)) ELSE r

-----------------------------------------------------------------------------

Init ==
    /\ concurrency_level \in Levels
    /\ status \in Blocks
    /\ may_race \in BOOLEAN
    /\ seq_status \in (IF may_race THEN Blocks ELSE {status})
    /\ interm_result = [c \in Chunks |-> Pending]
    /\ merged = 0
    /\ final_results = <<>>
    /\ maybe_err = IF may_race THEN ModulePathReadWrite ELSE NoError
    /\ ret = Pending

Parallel == concurrency_level > 1 /\ ret = Pending

\* One closure of par_chunks: they run in any order, on indices of their own.
ExtractChunk(c) ==
    /\ Parallel
    /\ interm_result[c] = Pending
    /\ interm_result' = [interm_result EXCEPT ![c] = Extracted(InChunk(c), status)]
    /\ UNCHANGED <<inputs, merged, final_results, maybe_err, ret>>

Collected == Parallel /\ \A c \in Chunks : interm_result[c] # Pending

\* Faulty: an error does not end the loop.
MergeChunkNoBreak ==
    /\ Collected
    /\ merged \in Chunks
    /\ LET r == interm_result[merged]
       IN  /\ merged' = merged + 1
           /\ \/ /\ r.kind = "Value"
                 /\ final_results' = final_results \o r.value
                 /\ UNCHANGED maybe_err
              \/ /\ r.kind = "UserError"
                 /\ maybe_err' = r
                 /\ UNCHANGED final_results
    /\ UNCHANGED <<inputs, interm_result, ret>>

\* One iteration over interm_result: an error replaces maybe_err and breaks.
MergeChunk ==
    /\ Collected
    /\ merged \in Chunks
    /\ LET r == interm_result[merged]
       IN  \/ /\ r.kind = "Value"
              /\ final_results' = final_results \o r.value
              /\ merged' = merged + 1
              /\ UNCHANGED maybe_err
           \/ /\ r.kind = "UserError"
              /\ maybe_err' = r
              /\ merged' = NumTxns
              /\ UNCHANGED final_results
    /\ UNCHANGED <<inputs, interm_result, ret>>

\* The match on maybe_err; execute_block falls back on ModulePathReadWrite.
Return ==
    /\ Collected
    /\ merged \notin Chunks
    /\ ret' = CASE maybe_err.kind = "None" -> Value(Resized(final_results))
                [] maybe_err.kind = "UserError" -> maybe_err
                [] maybe_err.kind = "ModulePathReadWrite" -> SequentialResult(seq_status)
    /\ UNCHANGED <<inputs, interm_result, merged, final_results, maybe_err>>

\* concurrency_level 1.
RunSequential ==
    /\ concurrency_level = 1
    /\ ret = Pending
    /\ ret' = SequentialResult(seq_status)
    /\ UNCHANGED <<inputs, interm_result, merged, final_results, maybe_err>>

Returned == ret # Pending /\ UNCHANGED vars

Next ==
    \/ \E c \in Chunks : ExtractChunk(c)
    \/ MergeChunk \/ Return \/ RunSequential \/ Returned

Spec == Init /\ [][Next]_vars

-----------------------------------------------------------------------------
(* Properties *)

Done == ret # Pending

\* What execute_block returns is what the sequential execution returns: SkipRest
\* skips "the execution of the trailing transactions in the list" (task.rs:22), every
\* output stands at the index of its transaction, and a module that is read and
\* written leads to "falling back to the sequential execution" (errors.rs:6).
MatchesSequential == Done => ret = SequentialResult(seq_status)

\* The transaction that stops the block first, if it is a SkipRest, is in the last
\* chunk.
SkipsInLastChunk ==
    \A t \in Txns, c \in Chunks :
        /\ status[t] = "SkipRest" /\ t \in InChunk(c)
        /\ \A u \in Txns : u < t => status[u] = "Success"
        => c + 1 \notin Chunks

\* The cases in which the code does so: without a module race no chunk but the last is
\* cut short by a SkipRest that comes before any other stop; with one, no transaction
\* of the parallel execution aborts. Everything else is free: where transactions
\* abort, what stops after the first stop, the size of the chunks, the order in which
\* they are extracted.
MatchesSequentialElsewhere ==
    (IF may_race THEN \A t \in Txns : status[t] # "Abort" ELSE SkipsInLastChunk)
    => MatchesSequential

=============================================================================
