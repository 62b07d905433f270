CONSTANTS
    NumTxns = 10
    Levels = {1, 2}
    Blocks <- FewStops
SPECIFICATION Spec
INVARIANT MatchesSequentialElsewhere
