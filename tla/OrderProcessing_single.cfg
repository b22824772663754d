\* One daemon on two orders, one of them with an id too long for its events.
SPECIFICATION Spec
CONSTANTS
    Daemons = {d1}
    Orders = {o1, o2}
    LongIds = {o2}
    Fields = {f1}
    NoFields = none
    NoRow = NoRow
    NoJob = NoJob
    MaxProcessingAttempts = 2
    MaxVersion = 1
    MaxFetched = 4
    MaxCrashes = 1
    MaxFaults = 1
PROPERTIES
    NoRepeatSubmission
    ProcessedNeverRegresses
