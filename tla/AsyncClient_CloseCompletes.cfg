\* Liveness of the prophet async client: CloseCompletes.
CONSTANTS
    c1 = c1
    c2 = c2
    Callers <- MCCallers
    MaxId <- MCMaxId
    WriteCap <- MCWriteCap
    HbCap <- MCHbCap
    HbCallers <- MCHbCallers
SPECIFICATION Spec
PROPERTY CloseCompletes
