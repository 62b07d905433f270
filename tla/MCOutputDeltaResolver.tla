----------------------- MODULE MCOutputDeltaResolver -----------------------
(* Blocks of three transactions on one aggregator with limit 2. *)
EXTENDS OutputDeltaResolver

\* Every delta whose history contains its update.
SmallDeltas ==
    {d \in [plus : BOOLEAN, value : 0 .. 2, limit : {2},
            max_positive : 0 .. 2, min_negative : 0 .. 2] : WellFormed(d)}

SmallEntries ==
    {NoEntry}
        \cup {WriteEntry(0, data) : data \in {Deletion, 0, 1, 2}}
        \cup {DeltaEntry(d) : d \in SmallDeltas}

SmallBases == {Deletion, 0, 1, 2}

=============================================================================
