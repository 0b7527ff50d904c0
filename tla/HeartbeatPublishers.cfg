CONSTANTS
    Services = {"book", "review", "user", "auth"}
    MaxRetryAttempts = 2
    MaxFaults = 3
SPECIFICATION FairSpec
INVARIANTS
    StuckHasCause
    DeclaredBeforePublished
    NoStrayConnection
PROPERTIES
    NeverFurther
    HeardAgain
CHECK_DEADLOCK FALSE
