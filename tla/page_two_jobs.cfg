SPECIFICATION Safety
CONSTANTS
    Jobs = {j1, j2}
    Dests = {d1}
    Modes = {"sequential", "parallel"}
    Stoppers = {s1}
    Refusals = FALSE
    Restarts = FALSE
    NoJob = NoJob
    NoCall = NoCall
INVARIANTS OneJobDials DiallingIsShown LiveCallIsOwned IdleLineIsClean SkippedOnlyIfStopped ConnectedIsReal
PROPERTIES ImplementsPageLine
SYMMETRY Symmetry
