CONSTANTS
    c1 = c1
    c2 = c2
    c3 = c3
    Containers <- MCContainers
    NResources <- MCNResourcesBatch
    Evictable <- MCEvictable
    LeaderScheduleLimit <- MCLeaderScheduleLimit
    MaxOtherOps <- MCMaxOtherOps
    MaxCancels <- MCMaxCancels
SPECIFICATION Spec
INVARIANT
    BatchWithinSize
