\* Safety and liveness of the prophet async client under leader resets,
\* NotLeader retries, connection breaks, timeouts and Close.
CONSTANTS
    c1 = c1
    c2 = c2
    Callers <- MCCallers
    MaxId <- MCMaxId
    WriteCap <- MCWriteCap
    HbCap <- MCHbCap
    HbCallers <- MCHbCallers
SPECIFICATION Spec
INVARIANT TypeOK
INVARIANT ReaderIdleWhileReconnecting
INVARIANT AtMostOnceExecution
PROPERTY CallsReturn
