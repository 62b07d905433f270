CONSTANTS
    BlockSize = 3
    Entries <- SmallEntries
    Bases <- SmallBases
SPECIFICATION Spec
INVARIANTS DeltasCompose ReadMatchesOutput PanicIsReal
