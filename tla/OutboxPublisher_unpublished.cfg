\* One message, one publisher, one sink call that fails.
SPECIFICATION FairSpec
CONSTANTS
    Publishers = {p1}
    Messages = {m1}
    BatchSize = 1
    Skew = 0
    MaxClock = 0
    MaxAborts = 0
    MaxSinkFaults = 1
CHECK_DEADLOCK FALSE
PROPERTIES
    EveryMessageIsPublished
