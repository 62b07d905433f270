--------------------- MODULE OutputDeltaResolverProofs ---------------------
(***************************************************************************)
(* Merging two deltas is composing them, for all deltas of one limit and   *)
(* all values; hence reads, which go down and merge, and outputs, which go *)
(* up and apply one delta after the other, agree at every transaction of a *)
(* block of any size.                                                      *)
(***************************************************************************)
EXTENDS OutputDeltaResolver, MVHashMapProofs

\* The range in which a delta applies: max_positive fits below the limit and
\* min_negative above zero.
InRange(d, b) == b + d.max_positive <= d.limit /\ d.min_negative <= b

Moved(d, b) == IF d.plus THEN b + d.value ELSE b - d.value

\* Results are told apart by their tags.
LEMMA Results ==
    /\ \A v : Ok(v).ok = TRUE /\ Ok(v).val = v
    /\ Err.ok = FALSE
  BY Zenon DEF Ok, Err

\* The order facts that the provers are to use without expanding definitions.
LEMMA Arithmetic ==
    ASSUME NEW b \in Nat, NEW v \in Nat, NEW limit \in Nat
    PROVE  /\ b + v <= limit => addition(b, v, limit) = Ok(b + v)
           /\ b + v > limit => addition(b, v, limit) = Err
           /\ v <= b => subtraction(b, v) = Ok(b - v)
           /\ v > b => subtraction(b, v) = Err
  BY DEF addition, subtraction

\* The fields of a delta.
LEMMA Fields ==
    ASSUME NEW d \in Deltas
    PROVE  /\ d.plus \in BOOLEAN /\ d.value \in Nat /\ d.limit \in Nat
           /\ d.max_positive \in Nat /\ d.min_negative \in Nat
  BY Zenon DEF Deltas

\* When apply_to succeeds and what it returns.
LEMMA ApplyTo ==
    ASSUME NEW d \in Deltas, WellFormed(d), NEW b \in Nat
    PROVE  /\ InRange(d, b) => apply_to(d, b) = Ok(Moved(d, b))
           /\ ~InRange(d, b) => apply_to(d, b) = Err
  <1> USE Fields, Results, Arithmetic DEF apply_to, InRange, Moved, WellFormed
  <1>1. CASE ~(b + d.max_positive <= d.limit)
    BY <1>1
  <1>2. CASE b + d.max_positive <= d.limit /\ ~(d.min_negative <= b)
    BY <1>2
  <1>3. CASE InRange(d, b) /\ d.plus
    BY <1>3, SMTT(30)
  <1>4. CASE InRange(d, b) /\ ~d.plus
    BY <1>4, SMTT(30)
  <1> QED
    BY <1>1, <1>2, <1>3, <1>4, Zenon

\* A shifted bound is a natural number.
LEMMA MovedInNat ==
    ASSUME NEW d \in Deltas, WellFormed(d), NEW b \in Nat, InRange(d, b)
    PROVE  Moved(d, b) \in Nat
  BY DEF Deltas, WellFormed, InRange, Moved

\* The distance by which a exceeds b, 0 if it does not.
Monus(a, b) == IF a >= b THEN a - b ELSE 0

\* The history of a merged delta after the shift.
LEMMA ShiftedHistory ==
    ASSUME NEW d \in Deltas, NEW prev \in Deltas
    PROVE  LET max == shifted_max_positive_by(d, prev)
               min == shifted_min_negative_by(d, prev)
           IN  /\ prev.plus =>
                     /\ prev.value + d.max_positive <= d.limit =>
                           max = Ok(prev.value + d.max_positive)
                     /\ prev.value + d.max_positive > d.limit => max = Err
                     /\ min = Ok(Monus(d.min_negative, prev.value))
               /\ ~prev.plus =>
                     /\ prev.value + d.min_negative <= d.limit =>
                           min = Ok(prev.value + d.min_negative)
                     /\ prev.value + d.min_negative > d.limit => min = Err
                     /\ max = Ok(Monus(d.max_positive, prev.value))
  BY Fields, Arithmetic, Results
     DEF shifted_max_positive_by, shifted_min_negative_by, unwrap_or_zero, Monus

Update(plus, value) == [ok |-> TRUE, plus |-> plus, value |-> value]

\* What each kind of update does.
LEMMA UpdateFacts ==
    ASSUME NEW d \in Deltas, NEW prev \in Deltas
    PROVE  LET update == MergedUpdate(d, prev)
           IN  /\ d.plus = prev.plus =>
                     /\ prev.value + d.value <= d.limit =>
                           update = Update(d.plus, prev.value + d.value)
                     /\ prev.value + d.value > d.limit => update.ok = FALSE
               /\ d.plus /\ ~prev.plus =>
                     /\ d.value >= prev.value =>
                           update = Update(TRUE, d.value - prev.value)
                     /\ d.value < prev.value =>
                           update = Update(FALSE, prev.value - d.value)
               /\ ~d.plus /\ prev.plus =>
                     /\ prev.value >= d.value =>
                           update = Update(TRUE, prev.value - d.value)
                     /\ prev.value < d.value =>
                           update = Update(FALSE, d.value - prev.value)
  <1> USE Fields DEF MergedUpdate, Update
  <1>1. ASSUME d.plus = prev.plus, prev.value + d.value <= d.limit
        PROVE  MergedUpdate(d, prev) = Update(d.plus, prev.value + d.value)
    <2>1. addition(prev.value, d.value, d.limit) = Ok(prev.value + d.value)
      BY <1>1, Arithmetic, ZenonT(30)
    <2> QED
      BY <1>1, <2>1, Results, Zenon
  <1>2. ASSUME d.plus = prev.plus, prev.value + d.value > d.limit
        PROVE  MergedUpdate(d, prev).ok = FALSE
    <2>1. addition(prev.value, d.value, d.limit) = Err
      BY <1>2, Arithmetic
    <2> QED
      BY <1>2, <2>1, Results, Zenon
  <1>3. ASSUME d.plus, ~prev.plus
        PROVE  /\ d.value >= prev.value =>
                     MergedUpdate(d, prev) = Update(TRUE, d.value - prev.value)
               /\ d.value < prev.value =>
                     MergedUpdate(d, prev) = Update(FALSE, prev.value - d.value)
    <2>1. d.plus = TRUE /\ prev.plus = FALSE
      BY <1>3, Zenon
    <2>2. d.plus # prev.plus
      BY <2>1, Zenon
    <2>3. ASSUME d.value >= prev.value
          PROVE  MergedUpdate(d, prev) = Update(TRUE, d.value - prev.value)
      BY <2>1, <2>2, <2>3, Zenon
    <2>4. ASSUME ~(d.value >= prev.value)
          PROVE  MergedUpdate(d, prev) = Update(FALSE, prev.value - d.value)
      BY <2>1, <2>2, <2>4, Zenon
    <2> QED
      BY <2>3, <2>4
  <1>4. ASSUME ~d.plus, prev.plus
        PROVE  /\ prev.value >= d.value =>
                     MergedUpdate(d, prev) = Update(TRUE, prev.value - d.value)
               /\ prev.value < d.value =>
                     MergedUpdate(d, prev) = Update(FALSE, d.value - prev.value)
    <2>1. d.plus = FALSE /\ prev.plus = TRUE
      BY <1>4, Zenon
    <2>2. d.plus # prev.plus
      BY <2>1, Zenon
    <2>3. ASSUME prev.value >= d.value
          PROVE  MergedUpdate(d, prev) = Update(TRUE, prev.value - d.value)
      BY <2>1, <2>2, <2>3, Zenon
    <2>4. ASSUME ~(prev.value >= d.value)
          PROVE  MergedUpdate(d, prev) = Update(FALSE, d.value - prev.value)
      BY <2>1, <2>2, <2>4, Zenon
    <2> QED
      BY <2>3, <2>4
  <1> QED
    BY <1>1, <1>2, <1>3, <1>4, Zenon

\* When merge_onto succeeds.
LEMMA MergedOk ==
    ASSUME NEW d \in Deltas, NEW prev \in Deltas
    PROVE  LET max == shifted_max_positive_by(d, prev)
               min == shifted_min_negative_by(d, prev)
               update == MergedUpdate(d, prev)
           IN  /\ max.ok /\ min.ok /\ update.ok =>
                     merge_onto(d, prev) =
                        Ok(Delta(update.plus, update.value, d.limit,
                                 Larger(prev.max_positive, max.val),
                                 Larger(prev.min_negative, min.val)))
               /\ ~(max.ok /\ min.ok /\ update.ok) => merge_onto(d, prev).ok = FALSE
  BY Zenon DEF merge_onto

\* merged applies where prev and then d apply, and moves a value as far.
Composed(merged, d, prev) ==
    /\ merged \in Deltas
    /\ WellFormed(merged)
    /\ \A b \in Nat :
          /\ InRange(merged, b) <=> InRange(prev, b) /\ InRange(d, Moved(prev, b))
          /\ InRange(merged, b) => Moved(merged, b) = Moved(d, Moved(prev, b))

\* Composition, one case for each sign of the two updates.
LEMMA ComposedBySign ==
    ASSUME NEW d \in Deltas, WellFormed(d), NEW prev \in Deltas, WellFormed(prev),
           d.limit = prev.limit,
           NEW plus \in BOOLEAN, NEW value \in Nat, NEW max \in Nat, NEW min \in Nat,
           \A x \in Int : max <= x <=> prev.max_positive <= x
                              /\ 0 <= x /\ Moved(prev, 0) + d.max_positive <= x,
           \A x \in Int : min <= x <=> prev.min_negative <= x
                              /\ 0 <= x /\ d.min_negative - Moved(prev, 0) <= x,
           plus => value = Moved(d, Moved(prev, 0)),
           ~plus => value = 0 - Moved(d, Moved(prev, 0))
    PROVE  Composed(Delta(plus, value, d.limit, max, min), d, prev)
  <1> DEFINE m == Delta(plus, value, d.limit, max, min)
  <1>0. d.limit \in Nat
    BY Fields, Zenon
  <1>1. m \in Deltas /\ m.plus = plus /\ m.value = value /\ m.limit = d.limit
        /\ m.max_positive = max /\ m.min_negative = min
    <2>1. m \in Deltas
      BY <1>0, Zenon DEF Delta, Deltas
    <2>2. m.plus = plus
      BY Zenon DEF Delta
    <2>3. m.value = value /\ m.limit = d.limit /\ m.max_positive = max /\ m.min_negative = min
      BY Zenon DEF Delta
    <2> QED
      BY <2>1, <2>2, <2>3, Zenon
  <1>2. max <= max /\ min <= min
    OBVIOUS
  <1>3. WellFormed(m)
    BY <1>1, <1>2, Fields DEF WellFormed, Moved
  <1>4. ASSUME NEW b \in Nat
        PROVE  InRange(m, b) <=> InRange(prev, b) /\ InRange(d, Moved(prev, b))
    <2>1. b + max <= d.limit <=> max <= d.limit - b
      BY Fields
    <2>2. max <= d.limit - b <=> /\ prev.max_positive <= d.limit - b /\ 0 <= d.limit - b
                                 /\ Moved(prev, 0) + d.max_positive <= d.limit - b
      BY Fields
    <2>3. min <= b <=> /\ prev.min_negative <= b /\ 0 <= b
                       /\ d.min_negative - Moved(prev, 0) <= b
      BY Fields
    <2> QED
      BY <1>1, <2>1, <2>2, <2>3, Fields DEF InRange, Moved
  <1>5. ASSUME NEW b \in Nat PROVE Moved(m, b) = Moved(d, Moved(prev, b))
    BY <1>1, Fields DEF Moved
  <1> QED
    BY <1>1, <1>3, <1>4, <1>5, Zenon DEF Composed

\* A merged update is the signed sum of the two.
LEMMA UpdateMoves ==
    ASSUME NEW d \in Deltas, NEW prev \in Deltas, MergedUpdate(d, prev).ok
    PROVE  LET update == MergedUpdate(d, prev)
           IN  /\ update.value \in Nat
               /\ \/ update.plus = TRUE /\ update.value = Moved(d, Moved(prev, 0))
                  \/ update.plus = FALSE /\ update.value = 0 - Moved(d, Moved(prev, 0))
  <1> USE DEF Update
  <1>1. CASE d.plus /\ prev.plus
    <2>1. d.plus = TRUE /\ prev.plus = TRUE
      BY <1>1, Fields, Zenon
    <2>2. prev.value + d.value <= d.limit
      <3>1. prev.value + d.value > d.limit => MergedUpdate(d, prev).ok = FALSE
        BY <2>1, UpdateFacts, Fields, Zenon
      <3>2. ~(prev.value + d.value > d.limit)
        BY <3>1, Zenon
      <3> QED
        BY <3>2, Fields
    <2>3. MergedUpdate(d, prev) = Update(TRUE, prev.value + d.value)
      BY <2>1, <2>2, UpdateFacts, Zenon
    <2>4. Moved(d, Moved(prev, 0)) = prev.value + d.value
      BY <2>1, Fields DEF Moved
    <2> QED
      BY <2>3, <2>4, Fields
  <1>2. CASE ~d.plus /\ ~prev.plus
    <2>1. d.plus = FALSE /\ prev.plus = FALSE
      BY <1>2, Fields, Zenon
    <2>2. prev.value + d.value <= d.limit
      <3>1. prev.value + d.value > d.limit => MergedUpdate(d, prev).ok = FALSE
        BY <2>1, UpdateFacts, Fields, Zenon
      <3>2. ~(prev.value + d.value > d.limit)
        BY <3>1, Zenon
      <3> QED
        BY <3>2, Fields
    <2>3. MergedUpdate(d, prev) = Update(FALSE, prev.value + d.value)
      BY <2>1, <2>2, UpdateFacts, Zenon
    <2>4. Moved(d, Moved(prev, 0)) = 0 - (prev.value + d.value)
      BY <2>1, Fields DEF Moved
    <2> QED
      BY <2>3, <2>4, Fields
  <1>3. CASE d.plus /\ ~prev.plus
    <2>1. d.plus = TRUE /\ prev.plus = FALSE
      BY <1>3, Fields, Zenon
    <2>2. Moved(d, Moved(prev, 0)) = d.value - prev.value
      BY <2>1, Fields DEF Moved
    <2>3. CASE d.value >= prev.value
      <3>1. MergedUpdate(d, prev) = Update(TRUE, d.value - prev.value)
        BY <1>3, <2>3, UpdateFacts, Zenon
      <3> QED
        BY <2>2, <2>3, <3>1, Fields
    <2>4. CASE d.value < prev.value
      <3>1. MergedUpdate(d, prev) = Update(FALSE, prev.value - d.value)
        BY <1>3, <2>4, UpdateFacts, Zenon
      <3> QED
        BY <2>2, <2>4, <3>1, Fields
    <2>5. d.value >= prev.value \/ d.value < prev.value
      BY Fields
    <2> QED
      BY <2>3, <2>4, <2>5, Zenon
  <1>4. CASE ~d.plus /\ prev.plus
    <2>1. d.plus = FALSE /\ prev.plus = TRUE
      BY <1>4, Fields, Zenon
    <2>2. Moved(d, Moved(prev, 0)) = prev.value - d.value
      BY <2>1, Fields DEF Moved
    <2>3. CASE prev.value >= d.value
      <3>1. MergedUpdate(d, prev) = Update(TRUE, prev.value - d.value)
        BY <1>4, <2>3, UpdateFacts, Zenon
      <3> QED
        BY <2>2, <2>3, <3>1, Fields
    <2>4. CASE prev.value < d.value
      <3>1. MergedUpdate(d, prev) = Update(FALSE, d.value - prev.value)
        BY <1>4, <2>4, UpdateFacts, Zenon
      <3> QED
        BY <2>2, <2>4, <3>1, Fields
    <2>5. prev.value >= d.value \/ prev.value < d.value
      BY Fields
    <2> QED
      BY <2>3, <2>4, <2>5, Zenon
  <1> QED
    BY <1>1, <1>2, <1>3, <1>4, Zenon

\* What merge_onto yields when it succeeds is the composition.
LEMMA MergedRange ==
    ASSUME NEW d \in Deltas, WellFormed(d), NEW prev \in Deltas, WellFormed(prev),
           d.limit = prev.limit, merge_onto(d, prev).ok
    PROVE  Composed(merge_onto(d, prev).val, d, prev)
  <1> DEFINE max == shifted_max_positive_by(d, prev)
             min == shifted_min_negative_by(d, prev)
             update == MergedUpdate(d, prev)
             hi == Larger(prev.max_positive, max.val)
             lo == Larger(prev.min_negative, min.val)
  <1>1. /\ max.ok /\ min.ok /\ update.ok
        /\ merge_onto(d, prev).val = Delta(update.plus, update.value, d.limit, hi, lo)
    BY MergedOk, Results, Zenon
  <1>2. /\ update.plus \in BOOLEAN /\ update.value \in Nat
        /\ update.plus => update.value = Moved(d, Moved(prev, 0))
        /\ ~update.plus => update.value = 0 - Moved(d, Moved(prev, 0))
    BY <1>1, UpdateMoves, Zenon
  <1>3. CASE prev.plus
    <2>1. max = Ok(prev.value + d.max_positive) /\ min = Ok(Monus(d.min_negative, prev.value))
      BY <1>1, <1>3, ShiftedHistory, Results, Fields
    <2>2. /\ hi = Larger(prev.max_positive, prev.value + d.max_positive)
          /\ lo = Larger(prev.min_negative, Monus(d.min_negative, prev.value))
      BY <2>1, Results, Zenon
    <2> HIDE DEF hi, lo
    <2>3. hi \in Nat /\ lo \in Nat /\ Moved(prev, 0) = prev.value
      BY <1>3, <2>2, Fields DEF Moved, Larger, Monus
    <2>4. \A x \in Int : hi <= x <=> prev.max_positive <= x
                              /\ 0 <= x /\ Moved(prev, 0) + d.max_positive <= x
      BY <2>2, <2>3, Fields DEF Larger, Monus
    <2>5. \A x \in Int : lo <= x <=> prev.min_negative <= x
                              /\ 0 <= x /\ d.min_negative - Moved(prev, 0) <= x
      BY <2>2, <2>3, Fields DEF Larger, Monus
    <2> QED
      BY <1>1, <1>2, <2>3, <2>4, <2>5, ComposedBySign, ZenonT(30)
  <1>4. CASE ~prev.plus
    <2>1. min = Ok(prev.value + d.min_negative) /\ max = Ok(Monus(d.max_positive, prev.value))
      BY <1>1, <1>4, ShiftedHistory, Results, Fields
    <2>2. /\ hi = Larger(prev.max_positive, Monus(d.max_positive, prev.value))
          /\ lo = Larger(prev.min_negative, prev.value + d.min_negative)
      BY <2>1, Results, Zenon
    <2> HIDE DEF hi, lo
    <2>3. hi \in Nat /\ lo \in Nat /\ Moved(prev, 0) = 0 - prev.value
      BY <1>4, <2>2, Fields DEF Moved, Larger, Monus
    <2>4. \A x \in Int : hi <= x <=> prev.max_positive <= x
                              /\ 0 <= x /\ Moved(prev, 0) + d.max_positive <= x
      BY <2>2, <2>3, Fields DEF Larger, Monus
    <2>5. \A x \in Int : lo <= x <=> prev.min_negative <= x
                              /\ 0 <= x /\ d.min_negative - Moved(prev, 0) <= x
      BY <2>2, <2>3, Fields DEF Larger, Monus
    <2> QED
      BY <1>1, <1>2, <2>3, <2>4, <2>5, ComposedBySign, ZenonT(30)
  <1> QED
    BY <1>3, <1>4, Zenon

\* Where merge_onto fails, no value survives both deltas.
LEMMA MergeFails ==
    ASSUME NEW d \in Deltas, WellFormed(d), NEW prev \in Deltas, WellFormed(prev),
           d.limit = prev.limit, ~merge_onto(d, prev).ok, NEW b \in Nat
    PROVE  ~(InRange(prev, b) /\ InRange(d, Moved(prev, b)))
  <1> SUFFICES ASSUME InRange(prev, b), InRange(d, Moved(prev, b)) PROVE FALSE
    BY Zenon
  <1>1. shifted_max_positive_by(d, prev).ok /\ shifted_min_negative_by(d, prev).ok
    BY ShiftedHistory, Results, Fields DEF InRange, Moved
  <1>2. MergedUpdate(d, prev).ok
    <2>1. CASE d.plus /\ prev.plus
      <3>1. d.plus = prev.plus
        BY <2>1, Fields, Zenon
      <3>2. prev.value + d.value <= d.limit
        BY <2>1, Fields DEF InRange, Moved, WellFormed
      <3>3. MergedUpdate(d, prev) = Update(d.plus, prev.value + d.value)
        BY <3>1, <3>2, UpdateFacts, Zenon
      <3> QED
        BY <3>3 DEF Update
    <2>2. CASE ~d.plus /\ ~prev.plus
      <3>1. d.plus = prev.plus
        BY <2>2, Fields, Zenon
      <3>2. prev.value + d.value <= d.limit
        BY <2>2, Fields DEF InRange, Moved, WellFormed
      <3>3. MergedUpdate(d, prev) = Update(d.plus, prev.value + d.value)
        BY <3>1, <3>2, UpdateFacts, Zenon
      <3> QED
        BY <3>3 DEF Update
    <2>3. CASE (d.plus /\ ~prev.plus) \/ (~d.plus /\ prev.plus)
      <3>1. /\ d.value >= prev.value \/ d.value < prev.value
            /\ prev.value >= d.value \/ prev.value < d.value
        BY Fields
      <3>2. \E plus, value : MergedUpdate(d, prev) = Update(plus, value)
        BY <2>3, <3>1, UpdateFacts, ZenonT(30)
      <3> QED
        BY <3>2 DEF Update
    <2> QED
      BY <2>1, <2>2, <2>3, Zenon
  <1>3. \E v : merge_onto(d, prev) = Ok(v)
    BY <1>1, <1>2, MergedOk, Zenon
  <1> QED
    BY <1>3, Results, Zenon

\* merge_onto is composition, for all deltas of one limit and every value: what
\* MVHashMap::read resolves by merging is what applying one by one gives.
THEOREM MergeComposes ==
    ASSUME NEW d \in Deltas, WellFormed(d), NEW prev \in Deltas, WellFormed(prev),
           d.limit = prev.limit, NEW b \in Nat
    PROVE  MergeIsComposition(d, prev, b)
  <1>1. CASE merge_onto(d, prev).ok
    <2> DEFINE m == merge_onto(d, prev).val
    <2>1. Composed(m, d, prev)
      BY <1>1, MergedRange, Zenon
    <2> HIDE DEF m
    <2>2. CASE InRange(prev, b)
      <3>1. apply_to(prev, b) = Ok(Moved(prev, b)) /\ Moved(prev, b) \in Nat
        BY <2>2, ApplyTo, MovedInNat, Zenon
      <3>2. ApplyBoth(d, prev, b) = apply_to(d, Moved(prev, b))
        BY <3>1, Results, Zenon DEF ApplyBoth
      <3>3. apply_to(m, b) = apply_to(d, Moved(prev, b))
        BY <2>1, <2>2, <3>1, ApplyTo, ZenonT(30) DEF Composed
      <3> QED
        BY <1>1, <3>2, <3>3, Zenon DEF MergeIsComposition, m
    <2>3. CASE ~InRange(prev, b)
      <3>1. ApplyBoth(d, prev, b) = Err
        BY <2>3, ApplyTo, Results, Zenon DEF ApplyBoth
      <3>2. apply_to(m, b) = Err
        BY <2>1, <2>3, ApplyTo, Zenon DEF Composed
      <3> QED
        BY <1>1, <3>1, <3>2, Zenon DEF MergeIsComposition, m
    <2> QED
      BY <2>2, <2>3, Zenon
  <1>2. CASE ~merge_onto(d, prev).ok
    <2>1. ~(InRange(prev, b) /\ InRange(d, Moved(prev, b)))
      BY <1>2, MergeFails, Zenon
    <2>2. ApplyBoth(d, prev, b) = Err
      BY <2>1, ApplyTo, MovedInNat, Results DEF ApplyBoth
    <2> QED
      BY <1>2, <2>2, Results, Zenon DEF MergeIsComposition
  <1> QED
    BY <1>1, <1>2, Zenon

-----------------------------------------------------------------------------

\* The entries of the key do not change while its deltas are resolved.
Fixed ==
    /\ versioned_map \in [0 .. BlockSize - 1 -> Entries]
    /\ base \in Bases

\* On any block, and whatever the entries of an aggregator key are, what reads
\* compute by merging two of its deltas is what resolve computes by applying
\* them in turn.
THEOREM ReadsAndOutputsAgree == Spec => []DeltasCompose
  <1>1. Init => Fixed
    BY Zenon DEF Init, Fixed
  <1>2. Fixed /\ [Next]_vars => Fixed'
    BY Zenon DEF Fixed, Next, vars, SkipIndex, TakeWrite, TakeDelta, Returned
  <1>3. Fixed => DeltasCompose
    <2> SUFFICES ASSUME Fixed,
                        NEW i \in 0 .. BlockSize - 1, NEW j \in 0 .. BlockSize - 1,
                        versioned_map[i].cell = "Delta", versioned_map[j].cell = "Delta",
                        base # Deletion
                 PROVE  MergeIsComposition(versioned_map[j].delta,
                                           versioned_map[i].delta, base)
      BY Zenon DEF DeltasCompose
    <2>1. versioned_map[i] \in Entries /\ versioned_map[j] \in Entries /\ base \in Nat
      BY ResolverAssumption, Zenon DEF Fixed
    <2>2. /\ versioned_map[i].delta \in Deltas /\ WellFormed(versioned_map[i].delta)
          /\ versioned_map[j].delta \in Deltas /\ WellFormed(versioned_map[j].delta)
          /\ versioned_map[j].delta.limit = versioned_map[i].delta.limit
      BY <2>1, ResolverAssumption, Zenon
    <2> QED
      BY <2>1, <2>2, MergeComposes, Zenon
  <1> QED
    BY <1>1, <1>2, <1>3, PTL DEF Spec

-----------------------------------------------------------------------------
(* Reading down and resolving up *)

\* The deltas a read may have accumulated: those with the limit of the key.
Mergeable ==
    {d \in Deltas : /\ WellFormed(d)
                    /\ \A e \in Entries : e.cell = "Delta" => e.delta.limit = d.limit}

\* resolve's application of a delta to its latest value.
Applied(d, v) == IF v = Deletion THEN Err ELSE apply_to(d, v)

\* The read has the value v.
Yields(result, b, v) ==
    result.kind # "DeltaApplicationFailure" /\ ValueOf(result, b) = Ok(v)

\* The read has no value to give to an aggregator.
Failed(result, b) ==
    \/ result.kind = "DeltaApplicationFailure"
    \/ result.kind = "Version" /\ result.data = Deletion
    \/ result.kind = "Unresolved" /\ ~ValueOf(result, b).ok

\* A read that goes down from t finds the value v there: v itself if it comes
\* with no delta, what its delta makes of v if it comes with one, a failure if
\* it comes with a failed merge.
Agree(vm, b, t, v) ==
    /\ Yields(Down(vm, t, NoAccumulator), b, v)
    /\ \A d \in Mergeable :
          /\ LET result == Down(vm, t, Accumulated(Ok(d)))
             IN  IF Applied(d, v).ok THEN Yields(result, b, Applied(d, v).val)
                 ELSE Failed(result, b)
          /\ Failed(Down(vm, t, Accumulated([ok |-> FALSE, val |-> d])), b)

\* The inductive invariant of resolve: Agree relates reads with any accumulator
\* to its latest value, because the read of the next transaction arrives at
\* this one with the deltas above it.
ResolverInv ==
    /\ Fixed
    /\ idx \in 0 .. BlockSize
    /\ latest_value \in Nat \cup {Deletion}
    /\ panicked \in BOOLEAN
    /\ ~panicked => Agree(versioned_map, base, idx, latest_value)
    /\ panicked => Failed(read(versioned_map, idx), base)

\* Results and values are told apart by their tags.
LEMMA Values ==
    ASSUME NEW b
    PROVE  /\ \A i, n, x : Yields(Version(i, n, x), b, x)
           /\ \A i, n : Failed(Version(i, n, Deletion), b)
           /\ \A x : Yields(Resolved(x), b, x)
           /\ Failed(DeltaApplicationFailure, b)
           /\ Yields(NotFound, b, b)
           /\ \A d : ValueOf(Unresolved(d), b) = Applied(d, b)
           /\ \A d : Unresolved(d).kind = "Unresolved"
  BY SMT DEF Yields, Failed, ValueOf, Version, Resolved, DeltaApplicationFailure,
             NotFound, Unresolved, Applied, Ok

\* What a delta of the key makes of a value.
LEMMA AppliedResult ==
    ASSUME NEW d \in Mergeable, NEW v \in Nat \cup {Deletion}
    PROVE  /\ Applied(d, v).ok => /\ Applied(d, v) = Ok(Applied(d, v).val)
                                  /\ Applied(d, v) = apply_to(d, v)
                                  /\ v \in Nat
                                  /\ Applied(d, v).val \in Nat
           /\ ~Applied(d, v).ok => Applied(d, v) = Err
  <1>1. d \in Deltas /\ WellFormed(d)
    BY Zenon DEF Mergeable
  <1>2. CASE v = Deletion
    BY <1>2, Results, Zenon DEF Applied
  <1>3. CASE v # Deletion
    <2>1. v \in Nat /\ Applied(d, v) = apply_to(d, v)
      BY <1>3, Zenon DEF Applied
    <2>2. CASE InRange(d, v)
      <3>1. apply_to(d, v) = Ok(Moved(d, v)) /\ Moved(d, v) \in Nat
        BY <1>1, <2>1, <2>2, ApplyTo, MovedInNat, Zenon
      <3>2. Applied(d, v).ok = TRUE /\ Applied(d, v).val = Moved(d, v)
        BY <2>1, <3>1, Results, Zenon
      <3> QED
        BY <2>1, <3>1, <3>2
    <2>3. CASE ~InRange(d, v)
      BY <1>1, <2>1, <2>3, ApplyTo, Results, Zenon
    <2> QED
      BY <2>2, <2>3, Zenon
  <1> QED
    BY <1>2, <1>3, Zenon

\* The iteration of read at an entry of each kind.
LEMMA VisitNone ==
    ASSUME NEW i, NEW acc
    PROVE  Visit(NoEntry, i, acc) = Traversing(acc)
  BY SMT DEF Visit, NoEntry

LEMMA VisitWrite ==
    ASSUME NEW i, NEW n, NEW x
    PROVE  /\ Visit(WriteEntry(n, x), i, NoAccumulator) = Version(i, n, x)
           /\ x = Deletion => \A r : Visit(WriteEntry(n, x), i, Accumulated(r)) = Version(i, n, x)
  BY SMT DEF Visit, WriteEntry, NoAccumulator, Accumulated

LEMMA VisitApplies ==
    ASSUME NEW i, NEW n, NEW x, x # Deletion, NEW d, apply_to(d, x).ok
    PROVE  Visit(WriteEntry(n, x), i, Accumulated(Ok(d))) = Resolved(apply_to(d, x).val)
  BY SMT DEF Visit, WriteEntry, Accumulated, Ok

LEMMA VisitFails ==
    ASSUME NEW i, NEW n, NEW x, x # Deletion, NEW d
    PROVE  /\ ~apply_to(d, x).ok => Visit(WriteEntry(n, x), i, Accumulated(Ok(d)))
                                        = DeltaApplicationFailure
           /\ Visit(WriteEntry(n, x), i, Accumulated([ok |-> FALSE, val |-> d]))
                  = DeltaApplicationFailure
  BY SMT DEF Visit, WriteEntry, Accumulated, Ok

\* The iteration goes on to the next lower entry, with next.
GoesOn(entry, i, acc, next) == Visit(entry, i, acc) = Traversing(next)

LEMMA VisitDelta ==
    ASSUME NEW i, NEW e, NEW d
    PROVE  /\ GoesOn(DeltaEntry(e), i, NoAccumulator, Accumulated(Ok(e)))
           /\ GoesOn(DeltaEntry(e), i, Accumulated(Ok(d)), Accumulated(merge_onto(d, e)))
           /\ GoesOn(DeltaEntry(e), i, Accumulated([ok |-> FALSE, val |-> d]),
                     Accumulated([ok |-> FALSE, val |-> d]))
  <1> DEFINE entry == DeltaEntry(e)
  <1>1. entry.cell = "Delta" /\ entry.flag = "DONE" /\ entry.delta = e
    BY SMT DEF DeltaEntry
  <1> HIDE DEF entry
  <1>2. /\ NoAccumulator.some = FALSE
        /\ \A r : Accumulated(r).some = TRUE /\ Accumulated(r).delta = r
    BY SMT DEF NoAccumulator, Accumulated
  <1>3. \A acc : Visit(entry, i, acc) =
            IF ~acc.some THEN Traversing(Accumulated(Ok(e)))
            ELSE IF acc.delta.ok THEN Traversing(Accumulated(merge_onto(acc.delta.val, e)))
            ELSE Traversing(acc)
    BY <1>1, SMT DEF Visit
  <1>4. [ok |-> FALSE, val |-> d].ok = FALSE
    BY SMT
  <1>5. Visit(entry, i, NoAccumulator) = Traversing(Accumulated(Ok(e)))
    BY <1>2, <1>3, Zenon
  <1>6. Visit(entry, i, Accumulated(Ok(d))) = Traversing(Accumulated(merge_onto(d, e)))
    <2>1. Accumulated(Ok(d)).some = TRUE /\ Accumulated(Ok(d)).delta = Ok(d)
      BY <1>2, Zenon
    <2>2. Ok(d).ok = TRUE /\ Ok(d).val = d
      BY Results, Zenon
    <2> QED
      BY <1>3, <2>1, <2>2, SMT
  <1>7. LET r == [ok |-> FALSE, val |-> d]
        IN  Visit(entry, i, Accumulated(r)) = Traversing(Accumulated(r))
    <2> DEFINE r == [ok |-> FALSE, val |-> d]
    <2>1. r.ok = FALSE
      BY <1>4, Zenon
    <2> HIDE DEF r
    <2>2. Visit(entry, i, Accumulated(r)) = Traversing(Accumulated(r))
      BY <1>2, <1>3, <2>1, SMT
    <2> QED
      BY <2>2, Zenon DEF r
  <1> QED
    BY <1>5, <1>6, <1>7, Zenon DEF entry, GoesOn

\* DownStep for the two ways an iteration ends.
LEMMA DownTraverses ==
    ASSUME NEW vm, NEW t \in Nat, NEW e, vm[t] = e, IsEntry(e), NEW acc, NEW next,
           GoesOn(e, t, acc, next)
    PROVE  Down(vm, t + 1, acc) = Down(vm, t, next)
  <1>1. Traversing(next).kind = "Traversing" /\ Traversing(next).acc = next
    BY SMT DEF Traversing
  <1> QED
    BY <1>1, DownStep, SMT DEF GoesOn

LEMMA DownReturns ==
    ASSUME NEW vm, NEW t \in Nat, NEW e, vm[t] = e, IsEntry(e), NEW acc, NEW result,
           Visit(e, t, acc) = result, result.kind # "Traversing"
    PROVE  Down(vm, t + 1, acc) = result
  BY DownStep, SMT

\* Before the loop, a read finds what is in storage.
LEMMA AgreeAtStart ==
    ASSUME NEW vm, NEW b \in Nat \cup {Deletion}
    PROVE  Agree(vm, b, 0, b)
  <1>1. Exhausted(NoAccumulator) = NotFound
    BY SMT DEF Exhausted, NoAccumulator
  <1>2. \A d : /\ Exhausted(Accumulated(Ok(d))) = Unresolved(d)
               /\ Exhausted(Accumulated([ok |-> FALSE, val |-> d])) = DeltaApplicationFailure
    BY SMT DEF Exhausted, Accumulated, Ok
  <1>3. Yields(Down(vm, 0, NoAccumulator), b, b)
    BY <1>1, DownZero, Values, Zenon
  <1>4. ASSUME NEW d \in Mergeable
        PROVE  LET result == Down(vm, 0, Accumulated(Ok(d)))
               IN  IF Applied(d, b).ok THEN Yields(result, b, Applied(d, b).val)
                   ELSE Failed(result, b)
    <2>1. Down(vm, 0, Accumulated(Ok(d))) = Unresolved(d)
      BY <1>2, DownZero, Zenon
    <2>2. ValueOf(Unresolved(d), b) = Applied(d, b) /\ Unresolved(d).kind = "Unresolved"
      BY Values, Zenon
    <2>3. CASE Applied(d, b).ok
      <3>1. Applied(d, b) = Ok(Applied(d, b).val)
        BY <2>3, AppliedResult, Zenon
      <3> QED
        BY <2>1, <2>2, <2>3, <3>1 DEF Yields
    <2>4. CASE ~Applied(d, b).ok
      BY <2>1, <2>2, <2>4 DEF Failed
    <2> QED
      BY <2>3, <2>4, Zenon
  <1>5. ASSUME NEW d \in Mergeable
        PROVE  Failed(Down(vm, 0, Accumulated([ok |-> FALSE, val |-> d])), b)
    BY <1>2, DownZero, Values, Zenon
  <1> QED
    BY <1>3, <1>4, <1>5, Zenon DEF Agree

\* The read passes a transaction without entry by, as resolve does.
LEMMA AgreeNone ==
    ASSUME NEW vm, NEW b, NEW t \in Nat, NEW v, vm[t] = NoEntry, Agree(vm, b, t, v)
    PROVE  Agree(vm, b, t + 1, v)
  <1>1. IsEntry(NoEntry)
    BY Zenon DEF IsEntry
  <1>2. \A acc : Down(vm, t + 1, acc) = Down(vm, t, acc)
    BY <1>1, VisitNone, DownTraverses DEF GoesOn
  <1> QED
    BY <1>2, Zenon DEF Agree

\* The read ends at a write, with its value or with the accumulated delta
\* applied to it; resolve forgets what was below.
LEMMA AgreeWrite ==
    ASSUME NEW vm, NEW b, NEW t \in Nat, NEW n, NEW x \in Nat \cup {Deletion},
           vm[t] = WriteEntry(n, x)
    PROVE  Agree(vm, b, t + 1, x)
  <1>1. IsEntry(WriteEntry(n, x))
    BY SMT DEF IsEntry, WriteEntry
  <1>2. \A i, k, y : /\ Version(i, k, y).kind # "Traversing"
                     /\ Resolved(y).kind # "Traversing"
                     /\ DeltaApplicationFailure.kind # "Traversing"
    BY SMT DEF Version, Resolved, DeltaApplicationFailure
  <1>3. Yields(Down(vm, t + 1, NoAccumulator), b, x)
    <2>1. Down(vm, t + 1, NoAccumulator) = Version(t, n, x)
      BY <1>1, <1>2, VisitWrite, DownReturns
    <2> QED
      BY <2>1, Values, Zenon
  <1>4. ASSUME x = Deletion, NEW r
        PROVE  Failed(Down(vm, t + 1, Accumulated(r)), b)
    <2>1. Down(vm, t + 1, Accumulated(r)) = Version(t, n, x)
      BY <1>1, <1>2, <1>4, VisitWrite, DownReturns
    <2> QED
      BY <1>4, <2>1, Values, Zenon
  <1>5. ASSUME x # Deletion, NEW d \in Mergeable
        PROVE  /\ Applied(d, x).ok =>
                     Yields(Down(vm, t + 1, Accumulated(Ok(d))), b, Applied(d, x).val)
               /\ ~Applied(d, x).ok => Failed(Down(vm, t + 1, Accumulated(Ok(d))), b)
               /\ Failed(Down(vm, t + 1, Accumulated([ok |-> FALSE, val |-> d])), b)
    <2>1. Applied(d, x) = apply_to(d, x)
      BY <1>5, Zenon DEF Applied
    <2>2. ASSUME apply_to(d, x).ok
          PROVE  Down(vm, t + 1, Accumulated(Ok(d))) = Resolved(apply_to(d, x).val)
      <3>1. Visit(WriteEntry(n, x), t, Accumulated(Ok(d))) = Resolved(apply_to(d, x).val)
        BY <1>5, <2>2, VisitApplies
      <3> QED
        BY <1>1, <1>2, <3>1, DownReturns
    <2>3. ASSUME ~apply_to(d, x).ok
          PROVE  Down(vm, t + 1, Accumulated(Ok(d))) = DeltaApplicationFailure
      <3>1. Visit(WriteEntry(n, x), t, Accumulated(Ok(d))) = DeltaApplicationFailure
        BY <1>5, <2>3, VisitFails, Zenon
      <3> QED
        BY <1>1, <1>2, <3>1, DownReturns, Zenon
    <2>4. Down(vm, t + 1, Accumulated([ok |-> FALSE, val |-> d])) = DeltaApplicationFailure
      <3>1. Visit(WriteEntry(n, x), t, Accumulated([ok |-> FALSE, val |-> d])) = DeltaApplicationFailure
        BY <1>5, VisitFails, Zenon
      <3> QED
        BY <1>1, <1>2, <3>1, DownReturns, Zenon
    <2> QED
      BY <2>1, <2>2, <2>3, <2>4, Values, Zenon
  <1>6. ASSUME x = Deletion, NEW d
        PROVE  ~Applied(d, x).ok
    BY <1>6, Results, Zenon DEF Applied
  <1> QED
    BY <1>3, <1>4, <1>5, <1>6, Zenon DEF Agree

\* What one more delta of the key does to the deltas accumulated above it.
LEMMA MergedMergeable ==
    ASSUME NEW d \in Mergeable, NEW e \in Mergeable, d.limit = e.limit, NEW v \in Nat
    PROVE  /\ merge_onto(d, e).ok =>
                 /\ merge_onto(d, e) = Ok(merge_onto(d, e).val)
                 /\ merge_onto(d, e).val \in Mergeable
                 /\ apply_to(merge_onto(d, e).val, v) = ApplyBoth(d, e, v)
           /\ ~merge_onto(d, e).ok =>
                 /\ merge_onto(d, e) = [ok |-> FALSE, val |-> d]
                 /\ ~ApplyBoth(d, e, v).ok
  <1>1. d \in Deltas /\ WellFormed(d) /\ e \in Deltas /\ WellFormed(e)
    BY Zenon DEF Mergeable
  <1>2. MergeIsComposition(d, e, v)
    BY <1>1, MergeComposes, Zenon
  <1>3. CASE merge_onto(d, e).ok
    <2> DEFINE m == merge_onto(d, e).val
    <2>1. Composed(m, d, e)
      BY <1>1, <1>3, MergedRange, Zenon
    <2>2. merge_onto(d, e) = Ok(m) /\ m.limit = d.limit
      <3>1. PICK plus, value, max, min :
                merge_onto(d, e) = Ok(Delta(plus, value, d.limit, max, min))
        BY <1>1, <1>3, MergedOk, Zenon
      <3>2. m = Delta(plus, value, d.limit, max, min)
        BY <3>1, Results, Zenon
      <3>3. Delta(plus, value, d.limit, max, min).limit = d.limit
        BY SMT DEF Delta
      <3> QED
        BY <3>1, <3>2, <3>3, SMT
    <2>3. apply_to(m, v) = ApplyBoth(d, e, v)
      BY <1>2, <1>3, Zenon DEF MergeIsComposition
    <2> HIDE DEF m
    <2>4. m \in Mergeable
      <3>1. \A f \in Entries : f.cell = "Delta" => f.delta.limit = m.limit
        BY <2>2, SMT DEF Mergeable
      <3> QED
        BY <2>1, <3>1, Zenon DEF Composed, Mergeable
    <2> QED
      BY <1>3, <2>2, <2>3, <2>4, Zenon DEF m
  <1>4. CASE ~merge_onto(d, e).ok
    <2>1. merge_onto(d, e) = [ok |-> FALSE, val |-> d]
      BY <1>4, Results, Zenon DEF merge_onto
    <2>2. ~ApplyBoth(d, e, v).ok
      BY <1>2, <1>4, Zenon DEF MergeIsComposition
    <2> QED
      BY <1>4, <2>1, <2>2, Zenon
  <1> QED
    BY <1>3, <1>4, Zenon

\* A delta is merged into what the read accumulated, while resolve applies it.
LEMMA AgreeDelta ==
    ASSUME NEW vm, NEW b, NEW t \in Nat, NEW v \in Nat \cup {Deletion}, NEW e \in Mergeable,
           \A d \in Mergeable : d.limit = e.limit,
           vm[t] = DeltaEntry(e), Agree(vm, b, t, v)
    PROVE  /\ Applied(e, v).ok => Agree(vm, b, t + 1, Applied(e, v).val)
           /\ ~Applied(e, v).ok => Failed(read(vm, t + 1), b)
  <1>1. IsEntry(DeltaEntry(e))
    BY SMT DEF IsEntry, DeltaEntry
  <1>2. Down(vm, t + 1, NoAccumulator) = Down(vm, t, Accumulated(Ok(e)))
    <2>1. GoesOn(DeltaEntry(e), t, NoAccumulator, Accumulated(Ok(e)))
      BY VisitDelta, Zenon
    <2> QED
      BY <1>1, <2>1, DownTraverses
  <1>3. \A d : Down(vm, t + 1, Accumulated([ok |-> FALSE, val |-> d]))
                   = Down(vm, t, Accumulated([ok |-> FALSE, val |-> d]))
    <2>1. ASSUME NEW d
          PROVE  Down(vm, t + 1, Accumulated([ok |-> FALSE, val |-> d]))
                     = Down(vm, t, Accumulated([ok |-> FALSE, val |-> d]))
      <3>1. GoesOn(DeltaEntry(e), t, Accumulated([ok |-> FALSE, val |-> d]),
                   Accumulated([ok |-> FALSE, val |-> d]))
        BY VisitDelta, Zenon
      <3> DEFINE acc == Accumulated([ok |-> FALSE, val |-> d])
      <3> HIDE DEF acc
      <3>2. Down(vm, t + 1, acc) = Down(vm, t, acc)
        BY <1>1, <3>1, DownTraverses DEF acc
      <3> QED
        BY <3>2, Zenon DEF acc
    <2> QED
      BY <2>1, Zenon
  <1>4. ASSUME NEW d
        PROVE  Down(vm, t + 1, Accumulated(Ok(d))) = Down(vm, t, Accumulated(merge_onto(d, e)))
    <2>1. GoesOn(DeltaEntry(e), t, Accumulated(Ok(d)), Accumulated(merge_onto(d, e)))
      BY VisitDelta, Zenon
    <2> QED
      BY <1>1, <2>1, DownTraverses
  <1>5. IF Applied(e, v).ok
        THEN Yields(Down(vm, t + 1, NoAccumulator), b, Applied(e, v).val)
        ELSE Failed(Down(vm, t + 1, NoAccumulator), b)
    <2>1. LET result == Down(vm, t, Accumulated(Ok(e)))
          IN  IF Applied(e, v).ok THEN Yields(result, b, Applied(e, v).val)
              ELSE Failed(result, b)
      BY Zenon DEF Agree
    <2> QED
      BY <1>2, <2>1, Zenon
  <1>6. ASSUME Applied(e, v).ok
        PROVE  Agree(vm, b, t + 1, Applied(e, v).val)
    <2> DEFINE w == Applied(e, v).val
    <2>1. /\ v \in Nat /\ w \in Nat /\ w # Deletion
          /\ Applied(e, v) = apply_to(e, v)
      <3>1. v \in Nat /\ w \in Nat /\ Applied(e, v) = apply_to(e, v)
        BY <1>6, AppliedResult, Zenon
      <3> HIDE DEF w
      <3> QED
        BY <3>1 DEF Deletion
    <2>2. ASSUME NEW d \in Mergeable
          PROVE  /\ Applied(d, w) = ApplyBoth(d, e, v)
                 /\ d.limit = e.limit
      BY <1>6, <2>1, <2>2, Zenon DEF Applied, ApplyBoth
    <2> HIDE DEF w
    <2>3. ASSUME NEW d \in Mergeable
          PROVE  LET result == Down(vm, t + 1, Accumulated(Ok(d)))
                 IN  IF Applied(d, w).ok THEN Yields(result, b, Applied(d, w).val)
                     ELSE Failed(result, b)
      <3>1. CASE merge_onto(d, e).ok
        <4> DEFINE m == merge_onto(d, e).val
        <4>1. /\ merge_onto(d, e) = Ok(m) /\ m \in Mergeable
              /\ apply_to(m, v) = ApplyBoth(d, e, v)
          BY <2>1, <2>2, <2>3, <3>1, MergedMergeable, Zenon
        <4> HIDE DEF m
        <4>2. v # Deletion
          BY <2>1 DEF Deletion
        <4>3. Applied(m, v) = Applied(d, w)
          BY <2>2, <2>3, <4>1, <4>2, Zenon DEF Applied
        <4>4. Down(vm, t + 1, Accumulated(Ok(d))) = Down(vm, t, Accumulated(Ok(m)))
          BY <1>4, <4>1, SMT
        <4>5. LET result == Down(vm, t, Accumulated(Ok(m)))
              IN  IF Applied(m, v).ok THEN Yields(result, b, Applied(m, v).val)
                  ELSE Failed(result, b)
          BY <4>1, Zenon DEF Agree
        <4> QED
          BY <4>3, <4>4, <4>5, SMT
      <3>2. CASE ~merge_onto(d, e).ok
        <4>1. /\ merge_onto(d, e) = [ok |-> FALSE, val |-> d]
              /\ ~ApplyBoth(d, e, v).ok
          BY <2>1, <2>2, <2>3, <3>2, MergedMergeable, Zenon
        <4>2. ~Applied(d, w).ok
          BY <2>2, <2>3, <4>1, SMT
        <4> DEFINE bad == [ok |-> FALSE, val |-> d]
        <4>3. Failed(Down(vm, t, Accumulated(bad)), b)
          BY <2>3, Zenon DEF Agree
        <4> HIDE DEF bad
        <4>4. merge_onto(d, e) = bad
          BY <4>1, Zenon DEF bad
        <4>5. Down(vm, t + 1, Accumulated(Ok(d))) = Down(vm, t, Accumulated(bad))
          BY <1>4, <4>4, SMT
        <4> QED
          BY <4>2, <4>3, <4>5, SMT
      <3> QED
        BY <3>1, <3>2, Zenon
    <2>4. ASSUME NEW d \in Mergeable
          PROVE  Failed(Down(vm, t + 1, Accumulated([ok |-> FALSE, val |-> d])), b)
      <3>1. Failed(Down(vm, t, Accumulated([ok |-> FALSE, val |-> d])), b)
        BY <2>4, Zenon DEF Agree
      <3> QED
        BY <1>3, <3>1, Zenon
    <2>5. Yields(Down(vm, t + 1, NoAccumulator), b, w)
      BY <1>5, <1>6, Zenon DEF w
    <2>6. Agree(vm, b, t + 1, w)
      BY <2>3, <2>4, <2>5, Zenon DEF Agree
    <2> QED
      BY <2>6, Zenon DEF w
  <1>7. read(vm, t + 1) = Down(vm, t + 1, NoAccumulator)
    BY Zenon DEF read, Down
  <1> QED
    BY <1>5, <1>6, <1>7, Zenon

\* A delta left at the key can be merged, and has the limit of all others.
LEMMA EntryMergeable ==
    ASSUME NEW e \in Entries, e.cell = "Delta"
    PROVE  /\ e = DeltaEntry(e.delta)
           /\ e.delta \in Mergeable
           /\ \A d \in Mergeable : d.limit = e.delta.limit
  BY ResolverAssumption, Zenon DEF Mergeable

\* ResolverInv holds at the start and is kept by every iteration.
LEMMA ResolverStart == Init => ResolverInv
  <1> SUFFICES ASSUME Init PROVE ResolverInv
    BY Zenon
  <1>1. Fixed /\ idx = 0 /\ latest_value = base /\ panicked = FALSE
    BY Zenon DEF Init, Fixed
  <1>2. base \in Nat \cup {Deletion}
    BY <1>1, ResolverAssumption, Zenon DEF Fixed
  <1>3. Agree(versioned_map, base, idx, latest_value)
    <2>1. Agree(versioned_map, base, 0, base)
      BY <1>2, AgreeAtStart, Zenon
    <2> QED
      BY <1>1, <2>1, Zenon
  <1>4. idx \in 0 .. BlockSize
    BY <1>1, ResolverAssumption
  <1> QED
    BY <1>1, <1>2, <1>3, <1>4, Zenon DEF ResolverInv

LEMMA ResolverStep == ResolverInv /\ [Next]_vars => ResolverInv'
  <1> SUFFICES ASSUME ResolverInv, [Next]_vars PROVE ResolverInv'
    BY Zenon
  <1>1. ASSUME UNCHANGED vars PROVE ResolverInv'
    BY <1>1, Zenon DEF ResolverInv, Fixed, vars
  <1>2. ASSUME Advance, UNCHANGED <<versioned_map, base>>
        PROVE  /\ Fixed' /\ idx \in Nat /\ idx' = idx + 1 /\ idx' \in 0 .. BlockSize
               /\ versioned_map[idx] \in Entries
               /\ Agree(versioned_map, base, idx, latest_value)
    <2>1. Fixed' /\ ~panicked /\ idx' = idx + 1 /\ idx < BlockSize /\ idx \in 0 .. BlockSize
      BY <1>2, Zenon DEF Advance, ResolverInv, Fixed
    <2>2. idx \in 0 .. BlockSize - 1 /\ idx \in Nat /\ idx' \in 0 .. BlockSize
      BY <2>1, ResolverAssumption
    <2> QED
      BY <2>1, <2>2, Zenon DEF ResolverInv, Fixed
  <1>3. ASSUME SkipIndex PROVE ResolverInv'
    <2>1. Advance /\ UNCHANGED <<versioned_map, base, latest_value, panicked>> /\ ~panicked
      BY <1>3, Zenon DEF SkipIndex, Advance
    <2>2. versioned_map[idx] = NoEntry
      BY <1>2, <1>3, <2>1, ResolverAssumption, Zenon DEF SkipIndex
    <2>3. Agree(versioned_map, base, idx + 1, latest_value)
      BY <1>2, <2>1, <2>2, AgreeNone, Zenon
    <2> QED
      BY <1>2, <2>1, <2>3, Zenon DEF ResolverInv
  <1>4. ASSUME TakeWrite PROVE ResolverInv'
    <2> DEFINE e == versioned_map[idx]
    <2>1. /\ Advance /\ UNCHANGED <<versioned_map, base, panicked>> /\ ~panicked
          /\ latest_value' = e.data
      BY <1>4, Zenon DEF TakeWrite, Advance
    <2>2. e = WriteEntry(e.inc, e.data) /\ e.data \in Nat \cup {Deletion}
      BY <1>2, <1>4, <2>1, ResolverAssumption, Zenon DEF TakeWrite
    <2>3. Agree(versioned_map, base, idx + 1, e.data)
      BY <1>2, <2>1, <2>2, AgreeWrite, Zenon
    <2> QED
      BY <1>2, <2>1, <2>2, <2>3, Zenon DEF ResolverInv
  <1>5. ASSUME TakeDelta PROVE ResolverInv'
    <2> DEFINE d == versioned_map[idx].delta
               x == Applied(d, latest_value)
    <2>1. /\ Advance /\ UNCHANGED <<versioned_map, base>> /\ ~panicked
          /\ \/ x.ok /\ latest_value' = x.val /\ UNCHANGED panicked
             \/ ~x.ok /\ panicked' = TRUE /\ UNCHANGED latest_value
      BY <1>5, Zenon DEF TakeDelta, Advance, Applied
    <2>2. /\ versioned_map[idx] = DeltaEntry(d) /\ d \in Mergeable
          /\ \A c \in Mergeable : c.limit = d.limit
      BY <1>2, <1>5, <2>1, EntryMergeable, Zenon DEF TakeDelta
    <2>3. latest_value \in Nat \cup {Deletion} /\ panicked \in BOOLEAN
      BY Zenon DEF ResolverInv
    <2> HIDE DEF d
    <2>4. /\ x.ok => Agree(versioned_map, base, idx + 1, x.val) /\ x.val \in Nat
          /\ ~x.ok => Failed(read(versioned_map, idx + 1), base)
      <3>1. /\ x.ok => Agree(versioned_map, base, idx + 1, x.val)
            /\ ~x.ok => Failed(read(versioned_map, idx + 1), base)
        BY <1>2, <2>1, <2>2, <2>3, AgreeDelta, Zenon
      <3>2. x.ok => x.val \in Nat
        BY <2>2, <2>3, AppliedResult, Zenon
      <3> QED
        BY <3>1, <3>2, Zenon
    <2> HIDE DEF x
    <2>5. CASE x.ok /\ latest_value' = x.val /\ UNCHANGED panicked
      BY <1>2, <2>1, <2>3, <2>4, <2>5, Zenon DEF ResolverInv
    <2>6. CASE ~x.ok /\ panicked' = TRUE /\ UNCHANGED latest_value
      BY <1>2, <2>1, <2>3, <2>4, <2>6, Zenon DEF ResolverInv
    <2> QED
      BY <2>1, <2>5, <2>6, Zenon
  <1>6. ASSUME Returned PROVE ResolverInv'
    BY <1>1, <1>6, Zenon DEF Returned
  <1> QED
    BY <1>1, <1>3, <1>4, <1>5, <1>6, Zenon DEF Next

\* The relation between reads with any accumulated delta and the value resolve
\* has reached is an invariant.
THEOREM ResolverInvariant == Spec => []ResolverInv
  BY ResolverStart, ResolverStep, PTL DEF Spec

\* In a block of any size, over any entries without estimates, the value that
\* MVHashMap::read gives a transaction by merging deltas downwards is the one that
\* resolve puts into the output, and a read fails only if resolve does.
THEOREM OutputsAreWhatWasRead == Spec => []ReadMatchesOutput
  <1>1. ResolverInv => ReadMatchesOutput
    BY Zenon DEF ResolverInv, ReadMatchesOutput, Agree, Yields, Down, read
  <1> QED
    BY <1>1, ResolverInvariant, PTL

\* When resolve panics, the transaction above the delta could not have read a
\* value either.
THEOREM PanicsAreReal == Spec => []PanicIsReal
  <1>1. ResolverInv => PanicIsReal
    BY Zenon DEF ResolverInv, PanicIsReal, Failed
  <1> QED
    BY <1>1, ResolverInvariant, PTL

=============================================================================
