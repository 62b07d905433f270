CONSTANTS
    NumTxns = 6
    Threads = {w1, w2, w3}
    Committer = w1
    HintGraph <- ConvoyHints
    GasEstimates <- UnitGas
    NoParent = 50000
    MaxIncarnation = 3
    MaxList = 6
    a = a
    b = b
    c = c
    Keys = {a, b, c}
    NoKey = NoKey
    MaxReads = 1
    Storage <- ZeroStorage
    NextRead <- ConvoyRead
    Output <- ConvoyOutput
SPECIFICATION BlockSpec
INVARIANTS NotAllSpinning
CONSTRAINT ConvoyGuide
SYMMETRY OtherWorkers
