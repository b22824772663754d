\* The daemon's publisher alone, messages of several daemons with clock skew.
SPECIFICATION FairSpec
CONSTANTS
    Publishers = {p1}
    Messages = {m1, m2, m3}
    BatchSize = 2
    Skew = 1
    MaxClock = 2
    MaxAborts = 1
    MaxSinkFaults = 1
CHECK_DEADLOCK FALSE
PROPERTIES
    SettledIsFinal
    EveryMessageSettles
