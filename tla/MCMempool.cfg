SPECIFICATION Spec
CONSTANTS
    Accounts = {1, 2}
    Seqs = {0, 1, 2, 3}
    Prices = {1, 2}
    Bucket <- MCBucket
    Bytes <- MCBytes
    Capacity = 4
    CapacityBytes = 7
    CapacityPerUser = 3
    MaxBroadcastBytes = 3
    Incoming <- MCIncoming
    Expirations = {1, 2}
    TTLs = {1}
    Times = {2, 3}
    PeerCount = 4
    PeerId = 3
    Shard <- MCShard
    MaxPeers = 8
    MaxDb <- MCMaxDb
    MaxTimeline = 4
INVARIANTS
    ParkingLotSound
    IndexesAgree
    SequentialAreReady
    WithinCapacity
    BroadcastSkipsNothing
    EveryShardTaken
PROPERTIES
    ReadyKept
