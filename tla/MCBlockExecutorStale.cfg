CONSTANTS
    NumTxns = 3
    Threads = {w1, w2}
    Committer = w1
    HintGraph <- NoHints
    GasEstimates <- UnitGas
    NoParent = 50000
    MaxIncarnation = 3
    MaxList = 2
    a = a
    b = b
    c = c
    Keys = {a, b, c}
    NoKey = NoKey
    MaxReads = 2
    Storage <- ZeroStorage
    NextRead <- BranchRead
    Output <- BranchOutput
SPECIFICATION BlockSpec
INVARIANTS CommittedReadsCurrent
