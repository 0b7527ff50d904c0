CONSTANTS
    Request = {r1, r2}
    Set = {o1, o2}
    NoSet = NoSet
    Hourly = Hourly
    Nobody = Nobody
    MaxKeys = 1
    MaxFaults = 1
SPECIFICATION Spec
INVARIANTS
    TestedIsLoaded
