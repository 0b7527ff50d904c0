CONSTANTS
    Services = {"book"}
    MaxRetryAttempts = 2
    MaxFaults = 1
SPECIFICATION FairSpec
PROPERTIES
    LostIsRetried
CHECK_DEADLOCK FALSE
