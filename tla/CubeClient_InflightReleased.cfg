CONSTANTS
    r1 = r1
    r2 = r2
    Reqs <- MCReqs
    MaxRetries <- MCMaxRetries
SPECIFICATION Spec
PROPERTY InflightReleased
CHECK_DEADLOCK FALSE
