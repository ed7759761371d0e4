CONSTANTS
    s1 = s1
    s2 = s2
    Containers <- MCContainers
    Zones <- MCZones
    MaxRounds <- MCMaxRounds
SYMMETRY MCSymmetry
SPECIFICATION Spec
INVARIANTS
    TypeOK
    CollectedCountsMatch
CHECK_DEADLOCK FALSE
