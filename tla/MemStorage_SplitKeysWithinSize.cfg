CONSTANTS
    NKeys <- MCNKeys
    ValLens <- MCSplitValLens
    TTLs <- MCTTLs
    MaxTime <- MCMaxTime
    MaxOps <- MCNoOps
    MaxApplies <- MCNoOps
    SplitSize <- MCSplitSize
SPECIFICATION MCSplitSpec
INVARIANT
    SplitKeysWithinSize
