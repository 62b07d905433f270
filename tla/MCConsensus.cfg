\* Competing chains, a timeout against votes, the end of an epoch, one fault.
SPECIFICATION Spec
CONSTANTS
    v1 = v1
    v2 = v2
    v3 = v3
    byz = byz
    g = g
    b1 = b1
    b2 = b2
    e1 = e1
    c3 = c3
    h = h
    NoBlock = NoBlock
    NoData = NoData
    Honest = {v1, v2, v3}
    Validators = {v1, v2, v3, byz}
    \* The smallest quorums: they certify what the larger ones do.
    Quorums = {{v1, v2, v3}, {v1, v2, byz}, {v1, v3, byz}, {v2, v3, byz}}
    Blocks = {g, b1, b2, e1, c3, h}
    Epoch <- MCEpoch
    Round <- MCRound
    Parent <- MCParent
    Ancestors <- MCAncestors
    Reconfigures = {b1}
    Decoupled = FALSE
    EnableCached = TRUE
    MaxRound <- MCMaxRound
    MaxFaults = 1
SYMMETRY Symmetry
INVARIANTS
    CacheCoherent
    OneVotePerRound
    TimeoutsRespectVotes
    CommittedIsExtended
PROPERTIES
    SafetyDataRises
