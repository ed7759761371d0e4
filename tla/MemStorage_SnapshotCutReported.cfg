CONSTANTS
    NKeys <- MCNKeys
    ValLens <- MCValLens
    TTLs <- MCTTLs
    MaxTime <- MCMaxTime
    MaxOps <- MCMaxOps
    MaxApplies <- MCMaxApplies
    SplitSize <- MCSplitSize
SPECIFICATION FaultSpec
INVARIANT
    SnapshotCutReported
