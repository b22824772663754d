\* Five attempts, so that the pause reaches its limit: 1, 2, 4 and 4 units.
SPECIFICATION FairSpec
CONSTANTS
    MaxAttempts = 5
    MaxDelay = 4
CHECK_DEADLOCK FALSE
INVARIANTS
    TypeOK
PROPERTIES
    ImplementsSubmitCall
    CallEnds
