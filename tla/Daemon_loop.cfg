\* Two orders: rules come and go that match the one; the WMS refuses the other,
\* and its rules cannot always be evaluated.  Both fit into a batch, the outbox
\* publishes one event per cycle, and two mishaps may come together.
SPECIFICATION DaemonSpec
CONSTANTS
    o1 = o1
    o2 = o2
    f1 = f1
    Orders <- TwoOrders
    Fields = {f1}
    NoFields = none
    Decisions <- DecisionsOnTwo
    NoRecord = NoRecord
    Unparsable = {}
    NoTime = None
    BatchSize = 2
    SortedByAge = FALSE
    ClockAhead = 0
    MaxTime = 2
    MaxUpdates = 1
    MaxCrashes = 2
    Unevaluable = {o2}
    Refused = {o2}
    OutboxBatch = 1
    MaxMishaps = 2
    AttemptCap = 2
INVARIANTS
    DaemonTypeOK
    NothingIsLost
    EnrichedOnce
    RecordIsOfPresentVersion
PROPERTIES
    ReadyOrdersAreProcessed
    EventsAreSettled
