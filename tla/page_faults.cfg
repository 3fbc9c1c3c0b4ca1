SPECIFICATION Spec
CONSTANTS
    Jobs = {j1}
    Dests = {d1, d2}
    Modes = {"sequential", "parallel"}
    Stoppers = {}
    Refusals = TRUE
    Restarts = TRUE
    NoJob = NoJob
    NoCall = NoCall
INVARIANTS SkippedOnlyIfStopped
PROPERTIES TriggeredPageEnds
