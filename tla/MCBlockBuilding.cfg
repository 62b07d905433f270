\* Limits scaled down so that every way out of add_all is taken.
SPECIFICATION FairSpec
CONSTANTS
    Txns = {1, 2, 3, 4, 5, 6, 7, 8, 9, 10, 11, 12}
    Sender <- MCSender
    SequenceNumber <- MCSequenceNumber
    Keys = {"x", "y"}
    Cores = 2
    MaxGas = 8
    MaxTxns = 4
    HotFrom = 2
    HotTo = 3
    HotReads = 1
    NumBatches = 3
    InitialBatches <- MCBatches
    Profiles <- MCProfiles
    BatchSize = 4
    Goal = 2
    MaxCount = 11
    NearFull = 4
    SkipSlack = 0
    RelaxFactor = 1
CHECK_DEADLOCK FALSE
INVARIANTS
    HintsPointBack
    StartsAfterWriters
    FitsBudget
    SenderOrder
    NothingLost
PROPERTIES
    NoStarvation
