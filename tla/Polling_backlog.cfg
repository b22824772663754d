\* Two orders wait when the daemon starts, and a batch holds one.
SPECIFICATION FairSpec
CONSTANTS
    Orders = {o1, o2}
    Unparsable = {}
    NoTime = None
    BatchSize = 1
    SortedByAge = TRUE
    ClockAhead = 0
    MaxTime = 1
    MaxUpdates = 0
    MaxCrashes = 0
PROPERTIES
    ReadyOrdersAreFetched
