\* Two daemons (a rolling update) on one order.
SPECIFICATION Spec
CONSTANTS
    Daemons = {d1, d2}
    Orders = {o1}
    LongIds = {}
    Fields = {f1, none}
    NoFields = none
    NoRow = NoRow
    NoJob = NoJob
    MaxProcessingAttempts = 2
    MaxVersion = 1
    MaxFetched = 3
    MaxCrashes = 1
    MaxFaults = 1
SYMMETRY Symmetry
INVARIANTS
    TypeOK
    RunRecordedOnce
    NoAttemptGaps
    NumbersShared
    SuccessWasApplied
    IdempotencyRecordBacked
    AppliedIsAccounted
PROPERTIES
    ImplementsRunLedger
