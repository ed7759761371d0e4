\* Close while the read loop is reading: what happens to pending requests.
CONSTANTS
    c1 = c1
    c2 = c2
    Callers <- MCCallers
    MaxId <- MCMaxId
    WriteCap <- MCWriteCap
    HbCap <- MCHbCap
    HbCallers <- MCHbCallers
SPECIFICATION Spec
INVARIANT ExitResolvesPending
