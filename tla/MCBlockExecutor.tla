-------------------------- MODULE MCBlockExecutor --------------------------
(* Blocks of transactions, as programs of what they have seen, for TLC. *)
EXTENDS BlockExecutor, TLC

CONSTANTS a, b, c

ZeroStorage == [k \in Keys |-> 0]

UnitGas == [t \in Txns |-> 1]

NoHints == [t \in Txns |-> <<>>]

\* Only the third names the second.
PartialHints == [t \in Txns |-> IF t = 2 THEN <<1>> ELSE <<>>]

Success(writes, deltas) ==
    [status |-> "Success", writes |-> writes, deltas |-> deltas]

Nothing == [k \in {} |-> 0]

Nth(s, i, key) == IF Len(s) < i THEN key ELSE NoKey

-----------------------------------------------------------------------------
(* Branch: 0 writes a; 1 reads a, and according to it adds to c, or writes  *)
(* b and adds to a; 2 reads b, then c or a, and writes c.                   *)

BranchRead(t, s) ==
    CASE t = 0 -> NoKey
      [] t = 1 -> Nth(s, 1, a)
      [] t = 2 -> IF Len(s) = 1 THEN (IF s[1] = Ok(0) THEN c ELSE a) ELSE Nth(s, 1, b)

PlusOne(k) == k :> Delta(TRUE, 1, 2, 1, 0)

BranchOutput(t, s) ==
    CASE t = 0 -> Success(a :> 1, Nothing)
      [] t = 1 -> IF s[1] = Ok(0) THEN Success(Nothing, PlusOne(c))
                  ELSE Success(b :> 1, PlusOne(a))
      [] t = 2 -> Success(c :> s[2].val, Nothing)

-----------------------------------------------------------------------------
(* Convoy: 0 writes a, 1 reads a and writes b, 2 reads b and writes c, and  *)
(* 3, 4 and 5 read c.  Only 2 <- 1 and 3, 4, 5 <- 0 are hinted.             *)

ConvoyHints == [t \in Txns |-> CASE t < 2 -> <<>> [] t = 2 -> <<1>> [] t > 2 -> <<0>>]

ConvoyRead(t, s) ==
    CASE t = 0 -> NoKey
      [] t = 1 -> Nth(s, 1, a)
      [] t = 2 -> Nth(s, 1, b)
      [] t > 2 -> Nth(s, 1, c)

ConvoyOutput(t, s) ==
    CASE t = 0 -> Success(a :> 1, Nothing)
      [] t = 1 -> Success(b :> 1, Nothing)
      [] t = 2 -> Success(c :> 1, Nothing)
      [] t > 2 -> Success(Nothing, Nothing)

\* A constraint that guides the search: 1 reads a before 0 writes it, and 3, 4
\* and 5 are released after 2 is aborted.  It only leaves states out.
ConvoyGuide ==
    /\ data[a][0] # NoEntry =>
          \/ inputs[1].recorded
          \/ \E th \in Threads : AtTask(th, "ExecutionTask") /\ reads[th] # <<>>
    /\ txn_status[2].inc = 0 =>
          \A i \in 1 .. Len(channels) : channels[i] < 3

OtherWorkers == Permutations(Threads \ {Committer})

=============================================================================
