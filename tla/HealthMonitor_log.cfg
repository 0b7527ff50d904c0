CONSTANTS
    Service = {s1}
    Processor = {p1, p2}
    HealthyTreshold = 2
    StaleTreshold = 3
    PassInterval = 1
    BeatInterval = 1
    Lag = 1
    MaxInbox = 1
    MaxRestarts = 0
SPECIFICATION Spec
PROPERTIES
    MarkedMeansSilent
