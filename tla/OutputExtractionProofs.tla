----------------------- MODULE OutputExtractionProofs -----------------------
(***************************************************************************)
(* The two promises of execute_block that hold, for every length of block, *)
(* every concurrency level and every combination of statuses: without a    *)
(* module race its result is the one of the sequential execution if        *)
(* SkipRest occurs in the last chunk only, and a module race falls back to *)
(* the sequential execution if no transaction aborted.                     *)
(***************************************************************************)
EXTENDS OutputExtraction, SequenceTheorems, WellFoundedInduction, TLAPS

Statuses == {"Success", "SkipRest", "Abort"}

\* Every set of natural numbers has a least element.
LEMMA Least ==
    ASSUME NEW S, S \subseteq Nat, S # {}
    PROVE  \E m \in S : \A n \in S : m <= n
  <1>1. PICK m \in S : \A n \in S : ~(<<n, m>> \in OpToRel(<, Nat))
    BY WFMin, NatLessThanWellFounded
  <1>2. ASSUME NEW n \in S
        PROVE  m <= n
    <2>1. ~(n < m)
      BY <1>1, <1>2 DEF OpToRel
    <2> QED
      BY <2>1
  <1> QED
    BY <1>2

-----------------------------------------------------------------------------
(* Chunks *)

LEMMA Division ==
    ASSUME NEW t \in Nat, NEW k \in Nat \ {0}
    PROVE  /\ t \div k \in Nat
           /\ (t \div k) * k <= t
           /\ t < (t \div k) * k + k
  BY SMT

LEMMA Product ==
    /\ \A q, k \in Nat : q * k \in Nat
    /\ \A q, k \in Nat : (q + 1) * k = q * k + k
    /\ \A p, q, k \in Nat : p <= q => p * k <= q * k
    /\ \A k \in Nat : 0 * k = 0
  <1>1. \A q, k \in Nat : q * k \in Nat
    BY SMT
  <1>2. \A q, k \in Nat : (q + 1) * k = q * k + k
    BY SMT
  <1>3. ASSUME NEW p \in Nat, NEW q \in Nat, NEW k \in Nat, p <= q
        PROVE  p * k <= q * k
    BY <1>3, SMT
  <1>4. \A k \in Nat : 0 * k = 0
    BY SMT
  <1> QED
    BY <1>1, <1>2, <1>3, <1>4

\* The quotient is q exactly on the q-th interval of length k.
LEMMA Quotient ==
    ASSUME NEW t \in Nat, NEW q \in Nat, NEW k \in Nat \ {0}
    PROVE  t \div k = q <=> q * k <= t /\ t < q * k + k
  <1> DEFINE d == t \div k
  <1>1. /\ d \in Nat /\ d * k <= t /\ t < d * k + k
    BY Division
  <1>2. d * k \in Nat /\ q * k \in Nat /\ (d + 1) * k = d * k + k /\ (q + 1) * k = q * k + k
    BY <1>1, Product
  <1>3. ASSUME q * k <= t, t < q * k + k
        PROVE  d = q
    <2>1. CASE d < q
      <3>1. (d + 1) * k <= q * k
        BY <1>1, <2>1, Product
      <3> QED
        BY <1>1, <1>2, <1>3, <3>1
    <2>2. CASE q < d
      <3>1. (q + 1) * k <= d * k
        BY <1>1, <2>2, Product
      <3> QED
        BY <1>1, <1>2, <1>3, <3>1
    <2> QED
      BY <1>1, <2>1, <2>2
  <1> QED
    BY <1>1, <1>3

LEMMA ChunkSize ==
    ASSUME concurrency_level \in Nat \ {0}
    PROVE  chunk_size \in Nat \ {0}
  <1> DEFINE d == 4 * concurrency_level
             n == NumTxns + d - 1
  <1>1. d \in Nat \ {0} /\ n \in Nat /\ d <= n
    BY ExtractionAssumption
  <1>2. n \div d \in Nat /\ n < (n \div d) * d + d
    BY <1>1, Division
  <1>3. n \div d # 0
    <2> HIDE DEF n, d
    <2>1. SUFFICES ASSUME n \div d = 0 PROVE FALSE
      OBVIOUS
    <2>2. n < 0 * d + d
      BY <1>2, <2>1
    <2>3. 0 * d = 0
      BY <1>1, Product
    <2> QED
      BY <1>1, <2>2, <2>3
  <1> QED
    BY <1>2, <1>3 DEF chunk_size

\* A chunk is an interval; the next one starts where it ends, and the last ends the block.
LEMMA ChunkInterval ==
    ASSUME concurrency_level \in Nat \ {0}, NEW c \in Chunks
    PROVE  \E b \in Txns :
              /\ c \in Nat /\ c * chunk_size \in 0 .. b
              /\ InChunk(c) = (c * chunk_size) .. b
              /\ c + 1 \in Chunks => (c + 1) * chunk_size = b + 1
              /\ c + 1 \notin Chunks => b = NumTxns - 1
  <1>1. PICK k \in Nat \ {0} : k = chunk_size
    BY ChunkSize
  <1>2. PICK n \in Nat : n = NumTxns - 1
    BY ExtractionAssumption
  <1>3. PICK l \in Nat : l = n \div k /\ l * k <= n /\ n < l * k + k
    BY Division
  <1>4. Chunks = 0 .. l /\ Txns = 0 .. n
    BY <1>1, <1>2, <1>3 DEF Chunks, Txns
  <1>5. c \in Nat /\ c <= l
    BY <1>3, <1>4
  <1>6. PICK a \in Nat : a = c * k
    BY <1>5, Product
  <1>7. /\ c + 1 \in Chunks <=> c + 1 <= l
        /\ (c + 1) * k = a + k /\ l * k \in Nat /\ a <= l * k
        /\ c + 1 <= l => (c + 1) * k <= l * k
    BY <1>3, <1>4, <1>5, <1>6, Product
  <1>8. \A t \in Txns : t \in InChunk(c) <=> a <= t /\ t < a + k
    BY <1>1, <1>4, <1>5, <1>6, Quotient DEF InChunk
  <1>9. InChunk(c) \subseteq Txns
    BY DEF InChunk
  <1>10. CASE c + 1 <= l
    <2>1. a + k - 1 \in 0 .. n
      BY <1>3, <1>7, <1>10
    <2>2. InChunk(c) = a .. (a + k - 1)
      <3>1. \A t : t \in a .. (a + k - 1) <=> t \in Txns /\ a <= t /\ t < a + k
        BY <1>4, <2>1
      <3> QED
        BY <1>8, <1>9, <3>1, Zenon
    <2>3. a \in 0 .. (a + k - 1) /\ (c + 1) * k = (a + k - 1) + 1
      BY <1>7
    <2> QED
      BY <1>1, <1>4, <1>5, <1>6, <1>7, <1>10, <2>1, <2>2, <2>3
  <1>11. CASE ~(c + 1 <= l)
    <2>1. c = l
      BY <1>5, <1>11
    <2>2. a <= n /\ n < a + k
      BY <1>3, <1>6, <2>1
    <2>3. InChunk(c) = a .. n
      <3>1. \A t : t \in a .. n <=> t \in Txns /\ a <= t /\ t < a + k
        BY <1>4, <2>2
      <3> QED
        BY <1>8, <1>9, <3>1, Zenon
    <2>4. a \in 0 .. n /\ n \in Txns
      BY <1>4, <2>2
    <2> QED
      BY <1>1, <1>2, <1>5, <1>6, <1>7, <1>11, <2>3, <2>4
  <1> QED
    BY <1>10, <1>11

\* The first index is a chunk, and NumTxns is not.
LEMMA ChunkBounds ==
    ASSUME concurrency_level \in Nat \ {0}
    PROVE  0 \in Chunks /\ NumTxns \notin Chunks /\ Chunks \subseteq Nat
  <1>1. PICK k \in Nat \ {0} : k = chunk_size
    BY ChunkSize
  <1>2. PICK n \in Nat : n = NumTxns - 1
    BY ExtractionAssumption
  <1>3. PICK l \in Nat : l = n \div k /\ l * k <= n
    BY Division
  <1>4. l <= l * k
    BY SMT
  <1>5. Chunks = 0 .. l
    BY <1>1, <1>2, <1>3 DEF Chunks
  <1>6. l * k \in Nat
    BY Product
  <1> QED
    BY <1>2, <1>3, <1>4, <1>5, <1>6, ExtractionAssumption

-----------------------------------------------------------------------------
(* What a loop over an interval extracts *)

\* The outputs of the transactions a to b.
Run(a, b) == [i \in 1 .. (b - a + 1) |-> a + i - 1]

\* s is the first of the transactions a to b that does not end in Success.
StopsAt(a, b, st, s) ==
    /\ s \in a .. b /\ st[s] # "Success"
    /\ \A t \in a .. b : t < s => st[t] = "Success"

\* What that transaction makes of the loop.
Stopped(a, st, s) == IF st[s] = "Abort" THEN UserError(s) ELSE Value(Run(a, s))

LEMMA UpToRun ==
    ASSUME NEW a \in Nat, NEW b \in Nat, a <= b, NEW t
    PROVE  UpTo(a .. b, t) = Run(a, IF t \in a .. b THEN t ELSE b)
  <1> DEFINE S == a .. b
             first == CHOOSE x \in S : \A y \in S : x <= y
             last == CHOOSE x \in S : \A y \in S : x >= y
  <1>1. first = a
    <2>1. a \in S /\ \A y \in S : a <= y
      OBVIOUS
    <2>2. first \in S /\ \A y \in S : first <= y
      BY <2>1
    <2> QED
      BY <2>1, <2>2
  <1>2. last = b
    <2>1. b \in S /\ \A y \in S : b >= y
      OBVIOUS
    <2>2. last \in S /\ \A y \in S : last >= y
      BY <2>1
    <2> QED
      BY <2>1, <2>2
  <1>3. UpTo(S, t) = Run(first, IF t \in S THEN t ELSE last)
    BY Zenon DEF UpTo, Run
  <1> HIDE DEF first, last
  <1> QED
    BY <1>1, <1>2, <1>3, Zenon

LEMMA SomeStop ==
    ASSUME NEW a \in Nat, NEW b \in Nat, NEW st
    PROVE  \/ \A t \in a .. b : st[t] = "Success"
           \/ \E s : StopsAt(a, b, st, s)
  <1> DEFINE S == {t \in a .. b : st[t] # "Success"}
  <1>1. S \subseteq Nat
    OBVIOUS
  <1>2. ASSUME S # {}
        PROVE  \E s : StopsAt(a, b, st, s)
    <2>1. PICK s \in S : \A n \in S : s <= n
      BY <1>1, <1>2, Least
    <2>2. ASSUME NEW t \in a .. b, t < s
          PROVE  st[t] = "Success"
      <3>1. ~(s <= t)
        BY <1>1, <2>1, <2>2
      <3> QED
        BY <2>1, <3>1
    <2> QED
      BY <2>1, <2>2 DEF StopsAt
  <1> QED
    BY <1>2

LEMMA ExtractedAll ==
    ASSUME NEW a \in Nat, NEW b \in Txns, a <= b, NEW st, \A t \in a .. b : st[t] = "Success"
    PROVE  Extracted(a .. b, st) = Value(Run(a, b))
  <1>1. FirstStop(a .. b, st) = NumTxns
    BY DEF FirstStop
  <1>2. NumTxns \notin a .. b /\ ~(NumTxns < NumTxns) /\ b \in Nat
    BY ExtractionAssumption DEF Txns
  <1>3. UpTo(a .. b, NumTxns) = Run(a, b)
    BY <1>2, UpToRun
  <1> QED
    BY <1>1, <1>2, <1>3 DEF Extracted

LEMMA ExtractedStop ==
    ASSUME NEW a \in Nat, NEW b \in Txns, a <= b, NEW st, NEW s, StopsAt(a, b, st, s)
    PROVE  /\ s \in Txns
           /\ Extracted(a .. b, st) = Stopped(a, st, s)
  <1> DEFINE S == {t \in a .. b : st[t] # "Success"}
  <1>0. b \in Nat /\ b < NumTxns /\ s \in a .. b /\ s \in Nat /\ s < NumTxns /\ s \in Txns
    BY ExtractionAssumption DEF Txns, StopsAt
  <1>1. s \in S /\ \A u \in S : s <= u
    BY <1>0 DEF StopsAt
  <1>2. FirstStop(a .. b, st) = s
    <2>1. \A x \in S : (\A u \in S : x <= u) => x = s
      BY <1>0, <1>1
    <2>2. (CHOOSE t \in S : \A u \in S : t <= u) = s
      BY <1>1, <2>1, Zenon
    <2> QED
      BY <1>1, <2>2, Zenon DEF FirstStop
  <1>3. UpTo(a .. b, s) = Run(a, s)
    BY <1>0, UpToRun
  <1> QED
    BY <1>0, <1>2, <1>3 DEF Extracted, Stopped

LEMMA RunConcat ==
    ASSUME NEW a \in Nat, NEW b \in Nat, a <= b
    PROVE  Run(0, a - 1) \o Run(a, b) = Run(0, b)
  <1>1. Run(0, a - 1) \in Seq(Nat) /\ Run(a, b) \in Seq(Nat) /\ Run(0, b) \in Seq(Nat)
    BY SMT DEF Run
  <1>2. Len(Run(0, a - 1)) = a /\ Len(Run(a, b)) = b - a + 1 /\ Len(Run(0, b)) = b + 1
    BY SMT DEF Run
  <1>3. \A i \in 1 .. b + 1 : (Run(0, a - 1) \o Run(a, b))[i] = Run(0, b)[i]
    BY SMT DEF Run
  <1>4. /\ Run(0, a - 1) \o Run(a, b) \in Seq(Nat)
        /\ Len(Run(0, a - 1) \o Run(a, b)) = Len(Run(0, a - 1)) + Len(Run(a, b))
    BY <1>1, ConcatProperties, Zenon
  <1>5. Len(Run(0, a - 1) \o Run(a, b)) = b + 1
    <2>1. Len(Run(0, a - 1) \o Run(a, b)) = a + (b - a + 1)
      BY <1>2, <1>4, Zenon
    <2>2. a + (b - a + 1) = b + 1
      OBVIOUS
    <2> QED
      BY <2>1, <2>2, Zenon
  <1> QED
    BY <1>1, <1>2, <1>3, <1>4, <1>5, SeqEqual

-----------------------------------------------------------------------------
(* The inductive invariant *)

\* The loop over interm_result goes on: so far every transaction ended in Success.
Merging ==
    /\ maybe_err = NoError
    /\ merged \in Chunks
    /\ \A t \in Txns : t < merged * chunk_size => status[t] = "Success"
    /\ final_results = Run(0, merged * chunk_size - 1)

\* The loop has ended with what the sequential execution has before it resizes.
Merged ==
    /\ maybe_err = NoError
    /\ merged \notin Chunks
    /\ Extracted(Txns, status) = Value(final_results)

\* The loop has ended with the error that ends the sequential execution.
Broken ==
    /\ merged \notin Chunks
    /\ maybe_err = Extracted(Txns, status)
    /\ maybe_err.kind = "UserError"

Inputs ==
    /\ concurrency_level \in Levels
    /\ status \in Blocks
    /\ may_race \in BOOLEAN
    /\ ~may_race => seq_status = status

ChunkResults ==
    /\ DOMAIN interm_result = Chunks
    /\ \A c \in Chunks : interm_result[c] \in {Pending, Extracted(InChunk(c), status)}

ExtractionInv ==
    /\ Inputs
    /\ ChunkResults
    /\ may_race => maybe_err = ModulePathReadWrite \/ \E t \in Txns : status[t] = "Abort"
    /\ ~may_race /\ SkipsInLastChunk => Merging \/ Merged \/ Broken
    /\ MatchesSequentialElsewhere

LEMMA Levels1 == ASSUME Inputs PROVE concurrency_level \in Nat \ {0}
  BY ExtractionAssumption DEF Inputs

LEMMA StatusType == ASSUME Inputs PROVE \A t \in Txns : status[t] \in Statuses
  BY ExtractionAssumption, Zenon DEF Inputs, Statuses

LEMMA AllTxns == NumTxns - 1 \in Txns /\ Txns = 0 .. (NumTxns - 1) /\ NumTxns - 1 \in Nat
  BY ExtractionAssumption DEF Txns

\* One more chunk: what it contributes is what the sequential execution makes of the
\* transactions up to its end.
LEMMA NextChunk ==
    ASSUME Inputs, SkipsInLastChunk, Merging
    PROVE  LET r == Extracted(InChunk(merged), status)
           IN  \/ /\ merged + 1 \in Chunks
                  /\ \A t \in Txns : t < (merged + 1) * chunk_size => status[t] = "Success"
                  /\ \E v : /\ r = Value(v)
                            /\ final_results \o v = Run(0, (merged + 1) * chunk_size - 1)
               \/ /\ merged + 1 \notin Chunks
                  /\ \E v : /\ r = Value(v)
                            /\ Extracted(Txns, status) = Value(final_results \o v)
               \/ \E s : r = UserError(s) /\ Extracted(Txns, status) = r
  <1> DEFINE r == Extracted(InChunk(merged), status)
  <1>0. merged \in Chunks /\ concurrency_level \in Nat \ {0}
    BY Levels1 DEF Merging
  <1>1. PICK b \in Txns :
          /\ merged \in Nat /\ merged * chunk_size \in 0 .. b
          /\ InChunk(merged) = (merged * chunk_size) .. b
          /\ merged + 1 \in Chunks => (merged + 1) * chunk_size = b + 1
          /\ merged + 1 \notin Chunks => b = NumTxns - 1
    BY <1>0, ChunkInterval
  <1>2. PICK a : a = merged * chunk_size
    OBVIOUS
  <1>3. /\ a \in Nat /\ b \in Nat /\ a <= b /\ InChunk(merged) = a .. b
        /\ \A t \in Txns : t < a => status[t] = "Success"
        /\ final_results = Run(0, a - 1)
    <2>1. b \in Nat
      BY AllTxns
    <2>2. a \in Nat /\ a <= b
      BY <1>1, <1>2, <2>1
    <2> QED
      BY <1>1, <1>2, <2>1, <2>2, Zenon DEF Merging
  <1>4. CASE \A t \in a .. b : status[t] = "Success"
    <2>1. r = Value(Run(a, b))
      BY <1>3, <1>4, ExtractedAll, Zenon
    <2>2. final_results \o Run(a, b) = Run(0, b)
      BY <1>3, RunConcat, Zenon
    <2>3. \A t \in Txns : t <= b => status[t] = "Success"
      <3>1. \A t \in Txns : t <= b => t < a \/ t \in a .. b
        BY <1>3, AllTxns
      <3> QED
        BY <1>3, <1>4, <3>1, Zenon
    <2>4. CASE merged + 1 \in Chunks
      <3>1. (merged + 1) * chunk_size = b + 1
        BY <1>1, <2>4, Zenon
      <3>2. (merged + 1) * chunk_size - 1 = b
        BY <1>3, <3>1
      <3>3. \A t \in Txns : t < b + 1 => t <= b
        BY <1>3, AllTxns
      <3>4. \A t \in Txns : t < (merged + 1) * chunk_size => status[t] = "Success"
        BY <2>3, <3>1, <3>3, Zenon
      <3>5. final_results \o Run(a, b) = Run(0, (merged + 1) * chunk_size - 1)
        BY <2>2, <3>2, Zenon
      <3> QED
        BY <2>1, <2>4, <3>4, <3>5, Zenon
    <2>5. CASE merged + 1 \notin Chunks
      <3>1. b = NumTxns - 1
        BY <1>1, <2>5, Zenon
      <3>2. \A t \in 0 .. b : status[t] = "Success"
        BY <2>3, <3>1, <1>3, AllTxns
      <3>3. Extracted(0 .. b, status) = Value(Run(0, b))
        BY <1>3, <3>2, ExtractedAll
      <3>4. Extracted(Txns, status) = Value(final_results \o Run(a, b))
        BY <2>2, <3>1, <3>3, AllTxns, Zenon
      <3> QED
        BY <2>1, <2>5, <3>4, Zenon
    <2> QED
      BY <2>4, <2>5, Zenon
  <1>5. ASSUME NEW s, StopsAt(a, b, status, s)
        PROVE  \/ /\ merged + 1 \notin Chunks
                  /\ \E v : /\ r = Value(v)
                            /\ Extracted(Txns, status) = Value(final_results \o v)
               \/ \E u : r = UserError(u) /\ Extracted(Txns, status) = r
    <2>1. /\ s \in Txns
          /\ r = Stopped(a, status, s)
      <3>1. s \in Txns /\ Extracted(a .. b, status) = Stopped(a, status, s)
        BY <1>3, <1>5, ExtractedStop
      <3> QED
        BY <1>3, <3>1, Zenon
    <2>2. s \in InChunk(merged) /\ s \in a .. b /\ status[s] # "Success"
      BY <1>3, <1>5, Zenon DEF StopsAt
    <2>3. StopsAt(0, NumTxns - 1, status, s)
      <3>1. ASSUME NEW t \in 0 .. (NumTxns - 1), t < s
            PROVE  status[t] = "Success"
        <4>1. t \in Txns /\ (t < a \/ t \in a .. b)
          BY <1>3, <2>2, <3>1, AllTxns
        <4> QED
          BY <1>3, <1>5, <3>1, <4>1, Zenon DEF StopsAt
      <3>2. s \in 0 .. (NumTxns - 1)
        BY <2>1, AllTxns, Zenon
      <3> QED
        BY <2>2, <3>1, <3>2, Zenon DEF StopsAt
    <2>4. Extracted(Txns, status) = Stopped(0, status, s)
      <3>1. 0 \in Nat /\ 0 <= NumTxns - 1 /\ NumTxns - 1 \in Txns
        BY AllTxns
      <3>2. Extracted(0 .. (NumTxns - 1), status) = Stopped(0, status, s)
        BY <2>3, <3>1, ExtractedStop
      <3> QED
        BY <3>2, AllTxns, Zenon
    <2>5. CASE status[s] = "Abort"
      BY <2>1, <2>4, <2>5, Zenon DEF Stopped
    <2>6. CASE status[s] # "Abort"
      <3>1. status[s] = "SkipRest"
        BY <2>1, <2>2, <2>6, StatusType, Zenon DEF Statuses
      <3>2. merged + 1 \notin Chunks
        <4>1. \A u \in Txns : u < s => status[u] = "Success"
          BY <2>3, AllTxns, Zenon DEF StopsAt
        <4> QED
          BY <1>0, <2>1, <2>2, <3>1, <4>1, Zenon DEF SkipsInLastChunk
      <3>3. a <= s /\ s \in Nat
        BY <1>3, <2>2
      <3>4. final_results \o Run(a, s) = Run(0, s)
        BY <1>3, <3>3, RunConcat, Zenon
      <3> QED
        BY <2>1, <2>4, <2>6, <3>2, <3>4, Zenon DEF Stopped
    <2> QED
      BY <2>5, <2>6, Zenon
  <1> QED
    BY <1>3, <1>4, <1>5, SomeStop, Zenon

LEMMA Kinds ==
    /\ \A v : Value(v).kind = "Value" /\ Value(v).value = v
    /\ \A t : UserError(t).kind = "UserError"
    /\ NoError.kind = "None" /\ ModulePathReadWrite.kind = "ModulePathReadWrite"
    /\ Pending.kind = "pending"
  BY SMT DEF Value, UserError, NoError, ModulePathReadWrite, Pending

\* An error comes from a transaction that aborted.
LEMMA ErrorIsAbort ==
    ASSUME Inputs, NEW c \in Chunks, Extracted(InChunk(c), status).kind = "UserError"
    PROVE  \E t \in Txns : status[t] = "Abort"
  <1>1. PICK b \in Txns : /\ c * chunk_size \in 0 .. b
                          /\ InChunk(c) = (c * chunk_size) .. b
    BY Levels1, ChunkInterval
  <1>2. PICK a : a = c * chunk_size
    OBVIOUS
  <1>3. a \in Nat /\ b \in Nat /\ a <= b /\ InChunk(c) = a .. b
    <2>1. b \in Nat
      BY AllTxns
    <2> QED
      BY <1>1, <1>2, <2>1
  <1>4. CASE \A t \in a .. b : status[t] = "Success"
    <2>1. Extracted(InChunk(c), status) = Value(Run(a, b))
      BY <1>3, <1>4, ExtractedAll, Zenon
    <2>2. Value(Run(a, b)).kind = "Value"
      BY Kinds, Zenon
    <2> QED
      BY <2>1, <2>2
  <1>5. ASSUME NEW s, StopsAt(a, b, status, s)
        PROVE  \E t \in Txns : status[t] = "Abort"
    <2>1. s \in Txns /\ Extracted(a .. b, status) = Stopped(a, status, s)
      BY <1>3, <1>5, ExtractedStop
    <2>2. Value(Run(a, s)).kind = "Value"
      BY Kinds, Zenon
    <2>3. CASE status[s] # "Abort"
      <3>1. Extracted(InChunk(c), status) = Value(Run(a, s))
        BY <1>3, <2>1, <2>3, Zenon DEF Stopped
      <3> QED
        BY <2>2, <3>1
    <2> QED
      BY <2>1, <2>3, Zenon
  <1> QED
    BY <1>3, <1>4, <1>5, SomeStop, Zenon

\* The inputs fix the chunks.
LEMMA SameChunks ==
    ASSUME UNCHANGED inputs
    PROVE  /\ chunk_size' = chunk_size /\ Chunks' = Chunks
           /\ \A c : InChunk(c)' = InChunk(c)
           /\ SkipsInLastChunk' <=> SkipsInLastChunk
           /\ Inputs' <=> Inputs
  <1>1. concurrency_level' = concurrency_level /\ status' = status
        /\ may_race' = may_race /\ seq_status' = seq_status
    BY Zenon DEF inputs
  <1>2. chunk_size' = chunk_size
    BY <1>1, Zenon DEF chunk_size
  <1>3. Chunks' = Chunks
    BY <1>2, Zenon DEF Chunks
  <1>4. \A c : InChunk(c)' = InChunk(c)
    BY <1>2, Zenon DEF InChunk
  <1>5. SkipsInLastChunk' <=> SkipsInLastChunk
    BY <1>1, <1>3, <1>4 DEF SkipsInLastChunk
  <1>6. Inputs' <=> Inputs
    BY <1>1 DEF Inputs
  <1> QED
    BY <1>2, <1>3, <1>4, <1>5, <1>6, Zenon

LEMMA ExtractionStart == Init => ExtractionInv
  <1> SUFFICES ASSUME Init PROVE ExtractionInv
    BY Zenon
  <1>1. Inputs
    <2>1. ~may_race => seq_status = status
      BY DEF Init
    <2> QED
      BY <2>1, Zenon DEF Init, Inputs
  <1>2. ChunkResults
    BY Zenon DEF Init, ChunkResults
  <1>3. may_race => maybe_err = ModulePathReadWrite
    BY DEF Init
  <1>4. ~may_race => Merging
    <2>1. maybe_err = NoError \/ may_race
      BY DEF Init
    <2>2. merged = 0 /\ merged \in Chunks
      BY <1>1, Levels1, ChunkBounds DEF Init
    <2>3. chunk_size \in Nat
      BY <1>1, Levels1, ChunkSize
    <2>4. merged * chunk_size = 0
      BY <2>2, <2>3, Product, Zenon
    <2>5. \A t \in Txns : ~(t < 0)
      BY AllTxns
    <2>6. final_results = Run(0, 0 - 1)
      BY SMT DEF Init, Run
    <2> QED
      BY <2>1, <2>2, <2>4, <2>5, <2>6, Zenon DEF Merging
  <1>5. ~Done
    BY DEF Init, Done
  <1> QED
    BY <1>1, <1>2, <1>3, <1>4, <1>5, Zenon DEF ExtractionInv, MatchesSequentialElsewhere,
       MatchesSequential

\* The conjuncts about the loop over interm_result.
Loop ==
    /\ may_race => maybe_err = ModulePathReadWrite \/ \E t \in Txns : status[t] = "Abort"
    /\ ~may_race /\ SkipsInLastChunk => Merging \/ Merged \/ Broken

\* The conjunct about the result.
Results == MatchesSequentialElsewhere

LEMMA LoopSame ==
    ASSUME Loop, UNCHANGED <<inputs, merged, final_results, maybe_err>>
    PROVE  Loop'
  <1>1. /\ chunk_size' = chunk_size /\ Chunks' = Chunks
        /\ SkipsInLastChunk' <=> SkipsInLastChunk
    BY SameChunks
  <1>2. may_race' = may_race /\ status' = status
    BY DEF inputs
  <1>3. (Merging' <=> Merging) /\ (Merged' <=> Merged) /\ (Broken' <=> Broken)
    BY <1>1, <1>2 DEF Merging, Merged, Broken
  <1> QED
    BY <1>1, <1>2, <1>3 DEF Loop

LEMMA ChunksSame ==
    ASSUME ChunkResults, UNCHANGED <<inputs, interm_result>>
    PROVE  ChunkResults'
  <1>1. Chunks' = Chunks /\ \A c : InChunk(c)' = InChunk(c)
    BY SameChunks
  <1>2. status' = status
    BY Zenon DEF inputs
  <1> QED
    BY <1>1, <1>2, Zenon DEF ChunkResults

LEMMA ResultsSame ==
    ASSUME Results, UNCHANGED <<inputs, ret>>
    PROVE  Results'
  <1>1. SkipsInLastChunk' <=> SkipsInLastChunk
    BY SameChunks
  <1>2. /\ may_race' = may_race /\ status' = status /\ seq_status' = seq_status
    BY DEF inputs
  <1>3. MatchesSequential' <=> MatchesSequential
    BY <1>2 DEF Done, MatchesSequential
  <1> QED
    BY <1>1, <1>2, <1>3, Zenon DEF Results, MatchesSequentialElsewhere

LEMMA ExtractStep ==
    ASSUME ExtractionInv, NEW c \in Chunks, ExtractChunk(c)
    PROVE  ChunkResults'
  <1>1. Chunks' = Chunks /\ \A d : InChunk(d)' = InChunk(d)
    BY SameChunks, Zenon DEF ExtractChunk
  <1>2. status' = status
    BY Zenon DEF ExtractChunk, inputs
  <1>3. interm_result' = [interm_result EXCEPT ![c] = Extracted(InChunk(c), status)]
    BY Zenon DEF ExtractChunk
  <1>4. DOMAIN interm_result' = Chunks
    BY <1>3, Zenon DEF ExtractionInv, ChunkResults
  <1>5. ASSUME NEW d \in Chunks
        PROVE  interm_result'[d] \in {Pending, Extracted(InChunk(d), status)}
    BY <1>3, Zenon DEF ExtractionInv, ChunkResults
  <1> QED
    BY <1>1, <1>2, <1>4, <1>5, Zenon DEF ChunkResults

LEMMA MergeStep ==
    ASSUME ExtractionInv, MergeChunk
    PROVE  Loop'
  <1>1. /\ chunk_size' = chunk_size /\ Chunks' = Chunks
        /\ SkipsInLastChunk' <=> SkipsInLastChunk
    BY SameChunks, Zenon DEF MergeChunk
  <1>2. status' = status /\ may_race' = may_race
    BY DEF MergeChunk, inputs
  <1> DEFINE r == Extracted(InChunk(merged), status)
  <1>3. merged \in Chunks /\ interm_result[merged] = r
    BY Zenon DEF MergeChunk, Collected, ExtractionInv, ChunkResults
  <1>4. \/ /\ r.kind = "Value"
           /\ final_results' = final_results \o r.value
           /\ merged' = merged + 1
           /\ maybe_err' = maybe_err
        \/ /\ r.kind = "UserError"
           /\ maybe_err' = r
           /\ merged' = NumTxns
    BY <1>3, Zenon DEF MergeChunk
  <1>5. ASSUME may_race
        PROVE  maybe_err' = ModulePathReadWrite \/ \E t \in Txns : status[t] = "Abort"
    <2>1. CASE r.kind = "UserError"
      BY <1>3, <2>1, ErrorIsAbort, Zenon DEF ExtractionInv
    <2>2. CASE maybe_err' = maybe_err
      BY <1>5, <2>2, Zenon DEF ExtractionInv
    <2> QED
      BY <1>4, <2>1, <2>2, Zenon
  <1>6. ASSUME ~may_race, SkipsInLastChunk
        PROVE  Merging' \/ Merged' \/ Broken'
    <2>1. Merging
      BY <1>3, <1>6, Zenon DEF ExtractionInv, Merged, Broken
    <2>2. NumTxns \notin Chunks
      BY Levels1, ChunkBounds, Zenon DEF ExtractionInv
    <2>3. ASSUME merged + 1 \in Chunks,
                 \A t \in Txns : t < (merged + 1) * chunk_size => status[t] = "Success",
                 NEW v, r = Value(v),
                 final_results \o v = Run(0, (merged + 1) * chunk_size - 1)
          PROVE  Merging'
      <3>1. r.kind = "Value" /\ r.value = v /\ r.kind # "UserError"
        BY <2>3, Kinds
      <3>2. merged' = merged + 1 /\ final_results' = final_results \o v
            /\ maybe_err' = maybe_err
        BY <1>4, <3>1, Zenon
      <3>3. maybe_err = NoError
        BY <2>1, Zenon DEF Merging
      <3> QED
        BY <1>1, <1>2, <2>3, <3>2, <3>3, Zenon DEF Merging, NoError
    <2>4. ASSUME merged + 1 \notin Chunks, NEW v, r = Value(v),
                 Extracted(Txns, status) = Value(final_results \o v)
          PROVE  Merged'
      <3>1. r.kind = "Value" /\ r.value = v /\ r.kind # "UserError"
        BY <2>4, Kinds
      <3>2. merged' = merged + 1 /\ final_results' = final_results \o v
            /\ maybe_err' = maybe_err
        BY <1>4, <3>1, Zenon
      <3>3. maybe_err = NoError
        BY <2>1, Zenon DEF Merging
      <3> QED
        BY <1>1, <1>2, <2>4, <3>2, <3>3, Zenon DEF Merged, NoError
    <2>5. ASSUME NEW s, r = UserError(s), Extracted(Txns, status) = r
          PROVE  Broken'
      <3>1. r.kind = "UserError" /\ r.kind # "Value"
        BY <2>5, Kinds
      <3>2. merged' = NumTxns /\ maybe_err' = r
        BY <1>4, <3>1, Zenon
      <3> QED
        BY <1>1, <1>2, <2>2, <2>5, <3>1, <3>2, Zenon DEF Broken
    <2> QED
      BY <1>6, <2>1, <2>3, <2>4, <2>5, NextChunk, Zenon DEF ExtractionInv
  <1> QED
    BY <1>1, <1>2, <1>5, <1>6 DEF Loop

\* The result is right if it is the sequential one where the invariant asks for it.
LEMMA ResultsFrom ==
    ASSUME UNCHANGED inputs,
           ~may_race => seq_status = status,
           ~may_race /\ SkipsInLastChunk => ret' = SequentialResult(status),
           may_race /\ (\A t \in Txns : status[t] # "Abort") => ret' = SequentialResult(seq_status)
    PROVE  Results'
  <1>1. SkipsInLastChunk' <=> SkipsInLastChunk
    BY SameChunks
  <1>2. status' = status /\ may_race' = may_race /\ seq_status' = seq_status
    BY DEF inputs
  <1>3. SequentialResult(seq_status)' = SequentialResult(seq_status)
    BY <1>2, Zenon
  <1>4. ~may_race /\ SkipsInLastChunk' => MatchesSequential'
    BY <1>1, <1>2, <1>3, Zenon DEF MatchesSequential
  <1>5. may_race /\ (\A t \in Txns : status'[t] # "Abort") => MatchesSequential'
    BY <1>2, <1>3, Zenon DEF MatchesSequential
  <1> QED
    BY <1>2, <1>4, <1>5, Zenon DEF Results, MatchesSequentialElsewhere

LEMMA ReturnStep ==
    ASSUME ExtractionInv, Return
    PROVE  Results'
  <1>1. /\ merged \notin Chunks /\ UNCHANGED inputs
        /\ ret' = CASE maybe_err.kind = "None" -> Value(Resized(final_results))
                    [] maybe_err.kind = "UserError" -> maybe_err
                    [] maybe_err.kind = "ModulePathReadWrite" -> SequentialResult(seq_status)
    BY Zenon DEF Return
  <1>2. ASSUME ~may_race, SkipsInLastChunk
        PROVE  ret' = SequentialResult(status)
    <2>1. CASE Merged
      <3>1. maybe_err.kind = "None"
        BY <2>1, Kinds, Zenon DEF Merged
      <3>2. ret' = Value(Resized(final_results))
        BY <1>1, <3>1
      <3>3. /\ Extracted(Txns, status).kind = "Value"
            /\ Extracted(Txns, status).value = final_results
        BY <2>1, Kinds DEF Merged
      <3> QED
        BY <3>2, <3>3, Zenon DEF SequentialResult
    <2>2. CASE Broken
      <3>1. ret' = maybe_err
        BY <1>1, <2>2 DEF Broken
      <3>2. /\ maybe_err = Extracted(Txns, status)
            /\ Extracted(Txns, status).kind # "Value"
        BY <2>2 DEF Broken
      <3> QED
        BY <3>1, <3>2, Zenon DEF SequentialResult
    <2> QED
      BY <1>1, <1>2, <2>1, <2>2, Zenon DEF ExtractionInv, Merging
  <1>3. ASSUME may_race, \A t \in Txns : status[t] # "Abort"
        PROVE  ret' = SequentialResult(seq_status)
    <2>1. maybe_err = ModulePathReadWrite
      BY <1>3, Zenon DEF ExtractionInv
    <2>2. maybe_err.kind = "ModulePathReadWrite"
      BY <2>1, Kinds, Zenon
    <2> QED
      BY <1>1, <2>2
  <1>4. ~may_race => seq_status = status
    BY Zenon DEF ExtractionInv, Inputs
  <1> QED
    BY <1>1, <1>2, <1>3, <1>4, ResultsFrom

LEMMA SequentialStep ==
    ASSUME ExtractionInv, RunSequential
    PROVE  Results'
  <1>1. UNCHANGED inputs /\ ret' = SequentialResult(seq_status)
    BY Zenon DEF RunSequential
  <1>2. ~may_race => seq_status = status
    BY Zenon DEF ExtractionInv, Inputs
  <1>3. ~may_race => ret' = SequentialResult(status)
    BY <1>1, <1>2, Zenon
  <1> QED
    BY <1>1, <1>2, <1>3, ResultsFrom

LEMMA ExtractionStep ==
    ASSUME ExtractionInv, [Next]_vars
    PROVE  ExtractionInv'
  <1>0. ExtractionInv' <=> Inputs' /\ ChunkResults' /\ Loop' /\ Results'
    BY Zenon DEF ExtractionInv, Loop, Results
  <1>1. Inputs /\ ChunkResults /\ Loop /\ Results
    BY Zenon DEF ExtractionInv, Loop, Results
  <1>2. UNCHANGED inputs
    BY Zenon DEF Next, ExtractChunk, MergeChunk, Return, RunSequential, Returned, vars, inputs
  <1>3. Inputs'
    BY <1>1, <1>2, SameChunks
  <1>4. CASE UNCHANGED vars
    BY <1>0, <1>1, <1>2, <1>3, <1>4, ChunksSame, LoopSame, ResultsSame, Zenon DEF vars
  <1>5. ASSUME NEW c \in Chunks, ExtractChunk(c)
        PROVE  ExtractionInv'
    <2>1. UNCHANGED <<inputs, merged, final_results, maybe_err>> /\ UNCHANGED <<inputs, ret>>
      BY <1>5, Zenon DEF ExtractChunk
    <2> QED
      BY <1>0, <1>1, <1>3, <1>5, <2>1, ExtractStep, LoopSame, ResultsSame, Zenon
  <1>6. CASE MergeChunk
    <2>1. UNCHANGED <<inputs, interm_result>> /\ UNCHANGED <<inputs, ret>>
      BY <1>6, Zenon DEF MergeChunk
    <2> QED
      BY <1>0, <1>1, <1>3, <1>6, <2>1, MergeStep, ChunksSame, ResultsSame, Zenon
  <1>7. CASE Return \/ RunSequential
    <2>1. /\ UNCHANGED <<inputs, merged, final_results, maybe_err>>
          /\ UNCHANGED <<inputs, interm_result>>
      BY <1>7, Zenon DEF Return, RunSequential
    <2> QED
      BY <1>0, <1>1, <1>3, <1>7, <2>1, ReturnStep, SequentialStep, ChunksSame, LoopSame, Zenon
  <1> QED
    BY <1>4, <1>5, <1>6, <1>7, Zenon DEF Next, Returned

\* The chunks hold what was recorded, and merging them goes on as the sequential
\* execution does.
THEOREM ExtractionInvariant == Spec => []ExtractionInv
  <1>1. Init => ExtractionInv
    BY ExtractionStart
  <1>2. ExtractionInv /\ [Next]_vars => ExtractionInv'
    BY ExtractionStep
  <1> QED
    BY <1>1, <1>2, PTL DEF Spec

\* For every block, number of transactions and concurrency level: extracting in chunks of
\* any size, in any order, and merging them gives what the sequential execution gives,
\* unless a SkipRest that comes before every other stop is followed by another chunk, or
\* an abort meets a module race.
THEOREM ParallelIsSequential == Spec => []MatchesSequentialElsewhere
  <1>1. ExtractionInv => MatchesSequentialElsewhere
    BY Zenon DEF ExtractionInv
  <1> QED
    BY <1>1, ExtractionInvariant, PTL

=============================================================================
