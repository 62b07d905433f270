CONSTANTS
    NumTxns = 10
    Levels = {1, 2}
    Blocks <- OneSkip
SPECIFICATION Spec
INVARIANT MatchesSequential
