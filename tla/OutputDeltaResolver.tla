------------------------ MODULE OutputDeltaResolver ------------------------
(***************************************************************************)
(* OutputDeltaResolver::resolve (output_delta_resolver.rs) for one         *)
(* aggregator key: after the block has executed, it walks the entries of   *)
(* the key upwards and turns every delta into a write.                     *)
(***************************************************************************)
EXTENDS MVHashMap, Sequences

CONSTANTS
    BlockSize,  \* block_size
    Entries,    \* what a transaction may have left at the key, NoEntry included
    Bases       \* what storage may hold for the key, Deletion if nothing

\* The block is done, so no entry is an estimate; all deltas of the aggregator
\* have its limit.
ASSUME ResolverAssumption ==
    /\ BlockSize \in Nat
    /\ Bases \subseteq Nat \cup {Deletion}
    /\ \A e \in Entries :
          /\ e.cell \in {"None", "Write", "Delta"}
          /\ e.cell = "None" => e = NoEntry
          /\ e.cell = "Write" => /\ e = WriteEntry(e.inc, e.data)
                                /\ e.data \in Nat \cup {Deletion}
          /\ e.cell = "Delta" => /\ e = DeltaEntry(e.delta)
                                /\ e.delta \in Deltas
                                /\ WellFormed(e.delta)
    /\ \A e, f \in Entries :
          e.cell = "Delta" /\ f.cell = "Delta" => e.delta.limit = f.delta.limit

VARIABLES
    versioned_map,  \* the entries of the key when the block is done
    base,           \* the value of the key in storage
    idx,            \* the transactions the loop has been over
    latest_value,   \* Deletion is None
    ret,            \* what has been materialised per transaction
    panicked        \* one of the expects failed

vars == <<versioned_map, base, idx, latest_value, ret, panicked>>

Init ==
    /\ versioned_map \in [0 .. BlockSize - 1 -> Entries]
    /\ base \in Bases
    /\ idx = 0
    /\ latest_value = base
    /\ ret = <<>>
    /\ panicked = FALSE

Advance == /\ ~panicked
           /\ idx < BlockSize
           /\ idx' = idx + 1

\* The transaction left no entry: the iteration passes it by.
SkipIndex ==
    /\ Advance
    /\ versioned_map[idx].cell = "None"
    /\ UNCHANGED <<versioned_map, base, latest_value, ret, panicked>>

TakeWrite ==
    /\ Advance
    /\ versioned_map[idx].cell = "Write"
    /\ latest_value' = versioned_map[idx].data
    /\ UNCHANGED <<versioned_map, base, ret, panicked>>

\* apply_to the latest value; both expects are failures of the whole block.
TakeDelta ==
    /\ Advance
    /\ versioned_map[idx].cell = "Delta"
    /\ LET result == IF latest_value = Deletion THEN Err
                     ELSE apply_to(versioned_map[idx].delta, latest_value)
       IN  \/ /\ result.ok
              /\ latest_value' = result.val
              /\ ret' = Append(ret, [idx |-> idx, data |-> result.val])
              /\ UNCHANGED panicked
           \/ /\ ~result.ok
              /\ panicked' = TRUE
              /\ UNCHANGED <<latest_value, ret>>
    /\ UNCHANGED <<versioned_map, base>>

Returned == /\ panicked \/ idx = BlockSize
            /\ UNCHANGED vars

Next == SkipIndex \/ TakeWrite \/ TakeDelta \/ Returned

Spec == Init /\ [][Next]_vars

-----------------------------------------------------------------------------
(* Properties *)

\* Reading merges deltas where the output applies them one by one: for any two
\* deltas of the key, and on every value, the two are the same.
DeltasCompose ==
    \A i, j \in 0 .. BlockSize - 1 :
        versioned_map[i].cell = "Delta" /\ versioned_map[j].cell = "Delta"
            /\ base # Deletion =>
                MergeIsComposition(versioned_map[j].delta, versioned_map[i].delta, base)

\* The output agrees with what transactions were told while executing: the
\* value that MVHashMap::read, going down and merging deltas, resolves for
\* transaction idx is the value that resolve, going up, has reached there, and
\* a delta failure met by a read is one that resolve meets, too.
ReadMatchesOutput ==
    ~panicked =>
        LET result == read(versioned_map, idx)
        IN  /\ result.kind # "DeltaApplicationFailure"
            /\ ValueOf(result, base) = Ok(latest_value)

\* When resolve panics, the next transaction could not have read a value of the
\* aggregator: the failure is real, and not one of the way deltas are merged.
PanicIsReal ==
    panicked =>
        LET result == read(versioned_map, idx)
        IN  \/ result.kind = "DeltaApplicationFailure"
            \/ result.kind = "Version" /\ result.data = Deletion
            \/ result.kind = "Unresolved" /\ ~ValueOf(result, base).ok

=============================================================================
