\* Two publishers (the daemon and publish-outbox) with batches of two.
SPECIFICATION Spec
CONSTANTS
    Publishers = {p1, p2}
    Messages = {m1, m2, m3}
    BatchSize = 2
    Skew = 0
    MaxClock = 2
    MaxAborts = 1
    MaxSinkFaults = 1
SYMMETRY Symmetry
CHECK_DEADLOCK FALSE
INVARIANTS
    TypeOK
    PublishedWasAccepted
    BoundedRedelivery
    OldestFirst
PROPERTIES
    ImplementsEventDelivery
