CONSTANTS
    NumTxns = 3
    Threads = {w1, w2}
    Committer = w1
    HintGraph <- ChainHints
    GasEstimates <- Gas
    NoParent = 50000
    MaxIncarnation = 1
    MaxList = 2
SPECIFICATION Spec
INVARIANTS TypeOK ExclusiveExecution CommitPrefix SomeoneValidates NoLostWakeup ValidationPastCommitted
PROPERTIES StatusTransitions
