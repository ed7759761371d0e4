CONSTANTS
    c1 = c1
    c2 = c2
    c3 = c3
    Containers <- MCContainers
    NResources <- MCNResources
    Evictable <- MCEvictable
    LeaderScheduleLimit <- MCLeaderScheduleLimit
    MaxOtherOps <- MCMaxOtherOps
    MaxCancels <- MCMaxCancels
SPECIFICATION Spec
INVARIANTS
    UniqueBatch
PROPERTY
    EvictionCompletes
