SPECIFICATION Spec
CONSTANTS
    fajr = fajr
    f = f
    g = g
    Names = {f, g}
    Prayers = {fajr}
    Lens = {1, 2}
    Assignments <- MCAssignments
    NoName = noname
    Absent = absent
    Partial = partial
    Dests = 2
    ring_timeout = 1
    max_call_seconds = 2
    answer_delay = 1
    hangup_after_eof = 1
    Margin = 2
    EarlyMedia = TRUE
INVARIANTS TypeOK NotCutShort NotSilent
PROPERTIES PageEnds
CHECK_DEADLOCK FALSE
