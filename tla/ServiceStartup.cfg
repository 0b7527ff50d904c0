CONSTANTS
    MaxTimer = 5
    MaxFaults = 3
SPECIFICATION FairSpec
INVARIANTS
    PacedRetries
PROPERTIES
    StartFailsForCause
    StrandedForGood
    StartsServe
\* The start-up ends when both services serve and nothing fails any more.
CHECK_DEADLOCK FALSE
