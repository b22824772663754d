\* Orders of a zone and of none; two runs of seed-rules that overlap, one of them
\* forced, one edit of the maintainers, and a clock of the daemon that is set back once.
SPECIFICATION Spec
CONSTANTS
    NoCode = NoCode
    NoTime = NoTime
    NoEntry = NoEntry
    NoUse = NoUse
    Seeders = {s1, s2}
    Forced = {s2}
    Baseline <- BaselineRules
    MaintainedRows <- ZoneRows
    InitialTables <- OneZoneRule
    MaxTime = 2
    MaxEdits = 1
    Scopes <- TwoScopes
    TtlSeconds = 1
    MaxSetBack = 1
INVARIANTS
    BoundedStaleness
    OneRowPerRule
    SeedingIsAtomic
