------------------------------ MODULE DeltaOp ------------------------------
(***************************************************************************)
(* The aggregator deltas of aptos-aggregator/src/delta_change_set.rs: a    *)
(* delta is a partial function on unsigned values, with a limit and the    *)
(* extreme values its history went through.                                *)
(***************************************************************************)
EXTENDS Naturals

\* PartialVMResult.
Ok(v) == [ok |-> TRUE, val |-> v]

Err == [ok |-> FALSE, val |-> 0]

addition(base, value, limit) ==
    IF limit < base \/ value > limit - base THEN Err ELSE Ok(base + value)

subtraction(base, value) ==
    IF value > base THEN Err ELSE Ok(base - value)

\* plus is TRUE for DeltaUpdate::Plus and FALSE for DeltaUpdate::Minus.
Delta(plus, value, limit, max_positive, min_negative) ==
    [plus |-> plus, value |-> value, limit |-> limit,
     max_positive |-> max_positive, min_negative |-> min_negative]

Deltas == [plus : BOOLEAN, value : Nat, limit : Nat,
           max_positive : Nat, min_negative : Nat]

\* The history contains the result: what the aggregator extension records.
WellFormed(d) ==
    /\ d.plus => d.value <= d.max_positive
    /\ ~d.plus => d.value <= d.min_negative

apply_to(d, base) ==
    IF ~addition(base, d.max_positive, d.limit).ok THEN Err
    ELSE IF ~subtraction(base, d.min_negative).ok THEN Err
    ELSE IF d.plus THEN addition(base, d.value, d.limit)
    ELSE subtraction(base, d.value)

unwrap_or_zero(r) == IF r.ok THEN r ELSE Ok(0)

\* Faulty: the history is not shifted.
ShiftedMaxUnchanged(d, prev) == Ok(d.max_positive)

shifted_max_positive_by(d, prev) ==
    IF prev.plus THEN addition(prev.value, d.max_positive, d.limit)
    ELSE unwrap_or_zero(subtraction(d.max_positive, prev.value))

\* Faulty: the history is shifted the wrong way.
ShiftedMinWrongWay(d, prev) ==
    IF prev.plus THEN addition(prev.value, d.min_negative, d.limit)
    ELSE unwrap_or_zero(subtraction(d.min_negative, prev.value))

shifted_min_negative_by(d, prev) ==
    IF prev.plus THEN unwrap_or_zero(subtraction(d.min_negative, prev.value))
    ELSE addition(prev.value, d.min_negative, d.limit)

Larger(a, b) == IF a >= b THEN a ELSE b

\* The update of the merged delta: the sum of the signed updates.
MergedUpdate(d, prev) ==
    IF d.plus = prev.plus
    THEN LET sum == addition(prev.value, d.value, d.limit)
         IN  [ok |-> sum.ok, plus |-> d.plus, value |-> sum.val]
    ELSE LET up == IF d.plus THEN d.value ELSE prev.value
             down == IF d.plus THEN prev.value ELSE d.value
         IN  IF up >= down
             THEN [ok |-> TRUE, plus |-> TRUE, value |-> up - down]
             ELSE [ok |-> TRUE, plus |-> FALSE, value |-> down - up]

\* d.merge_onto(prev): Ok holds the merged delta.  On an error the code leaves
\* self unmerged; its callers drop it.
merge_onto(d, prev) ==
    LET max == shifted_max_positive_by(d, prev)
        min == shifted_min_negative_by(d, prev)
        update == MergedUpdate(d, prev)
    IN  IF max.ok /\ min.ok /\ update.ok
        THEN Ok(Delta(update.plus, update.value, d.limit,
                      Larger(prev.max_positive, max.val),
                      Larger(prev.min_negative, min.val)))
        ELSE [ok |-> FALSE, val |-> d]

-----------------------------------------------------------------------------
(* Properties *)

\* prev applied to base, then d to the result.
ApplyBoth(d, prev, base) ==
    LET first == apply_to(prev, base)
    IN  IF first.ok THEN apply_to(d, first.val) ELSE Err

\* Merging deltas of one limit and applying the result is applying one after
\* the other, for every value in range: an overflow or underflow that the
\* history hid from the final update is found by either.
MergeIsComposition(d, prev, base) ==
    LET merged == merge_onto(d, prev)
    IN  IF merged.ok
        THEN apply_to(merged.val, base) = ApplyBoth(d, prev, base)
        ELSE ~ApplyBoth(d, prev, base).ok

\* A merged delta is again one whose history contains its update.
MergeWellFormed(d, prev) ==
    merge_onto(d, prev).ok => WellFormed(merge_onto(d, prev).val)

=============================================================================
