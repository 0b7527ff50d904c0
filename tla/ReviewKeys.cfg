CONSTANTS
    Request = {r1, r2}
    Set = {o1, o2}
    NoSet = NoSet
    Hourly = Hourly
    Nobody = Nobody
    MaxKeys = 3
    MaxFaults = 1
SPECIFICATION FairSpec
INVARIANTS
    SafeUndisturbed
PROPERTIES
    RefusedForCause
    RefusalsEnd
    LoadedAtLast
