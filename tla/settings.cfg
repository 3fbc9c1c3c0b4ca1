SPECIFICATION Spec
CONSTANTS
    a = a
    b = b
    busy = busy
    manual = manual
    t1 = t1
    t2 = t2
    Values <- MCValues
    Invalid = invalid
    Refused <- MCRefused
    Default <- MCDefault
    Manual = manual
    Tables <- MCTables
    Loop = loop
    Pool = pool
    Off = off
    NoFile = nofile
    Broken = broken
    MaxCrashes = 1
INVARIANTS FileAlwaysLoads ConfirmedIsDurable EndpointMatchesSettings JobsMatchSettings
PROPERTIES ServesAgain
CHECK_DEADLOCK FALSE
