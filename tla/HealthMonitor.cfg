CONSTANTS
    Service = {s1}
    Processor = {p1, p2}
    HealthyTreshold = 6
    StaleTreshold = 12
    PassInterval = 2
    BeatInterval = 1
    Lag = 1
    MaxInbox = 1
    MaxRestarts = 1
SPECIFICATION FairSpec
INVARIANTS
    TypeOK
    NoneYounger
    NoFalseAlarm
    SilenceShown
PROPERTIES
    BeatingShown
