\* One daemon, one order, no crash and no database fault: only the WMS fails.
SPECIFICATION Spec
CONSTANTS
    Daemons = {d1}
    Orders = {o1}
    LongIds = {}
    Fields = {f1}
    NoFields = none
    NoRow = NoRow
    NoJob = NoJob
    MaxProcessingAttempts = 2
    MaxVersion = 0
    MaxFetched = 3
    MaxCrashes = 0
    MaxFaults = 0
INVARIANTS
    DeadLetterAfterMaxAttempts
