\* Three orders, one of them unreadable, batches of one: the backlog
\* does not fit.
SPECIFICATION Spec
CONSTANTS
    Orders = {o1, o2, o3}
    Unparsable = {o3}
    NoTime = None
    BatchSize = 1
    SortedByAge = TRUE
    ClockAhead = 1
    MaxTime = 4
    MaxUpdates = 3
    MaxCrashes = 1
INVARIANTS
    TypeOK
    OnlyBacklogIsLost
