CONSTANTS
    Request = {r1, r2}
    MaxKeys = 2
    Ttl = 3
    Refresh = 3
    Retry = 1
    Lag = 1
    MaxCalm = 7
SPECIFICATION Spec
SYMMETRY Symmetry
INVARIANTS
    TypeOK
    MonitorCatchesUp
PROPERTIES
    VerdictsCatchUp
    RaisedForCause
