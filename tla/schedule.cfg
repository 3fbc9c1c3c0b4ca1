SPECIFICATION Spec
CONSTANTS
    Slots = {"isha"}
    Tod <- DayTod
    DayLen = 3
    RefreshAt = 1
    Grace = 1
    Loop = loop
    Daily = daily
    Confs <- OneOrNone
    Offsets <- OneAround
    Span = 1
    MaxMisses = 1
    LastDay = 4
INVARIANTS TypeOK LoneRescheduleReplaysNothing NoPageMissed LoneRescheduleMatches
CHECK_DEADLOCK FALSE
