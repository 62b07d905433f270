------------------------ MODULE MCOutputExtraction -------------------------
(* Ten transactions: five chunks of two at level 2. *)
EXTENDS OutputExtraction, FiniteSets

Stops(st) == {t \in Txns : st[t] # "Success"}

\* At most two transactions, the last one of them, do not end in Success.
FewStops ==
    {st \in [Txns -> {"Success", "SkipRest", "Abort"}] :
        \/ Cardinality(Stops(st)) <= 1
        \/ Cardinality(Stops(st)) = 2 /\ NumTxns - 1 \in Stops(st)}

\* At most one transaction ends in SkipRest and none aborts.
OneSkip ==
    {st \in [Txns -> {"Success", "SkipRest"}] : Cardinality(Stops(st)) <= 1}

=============================================================================
