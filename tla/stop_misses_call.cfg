SPECIFICATION Safety
CONSTANTS
    Jobs = {j1}
    Dests = {d1}
    Modes = {"sequential"}
    Stoppers = {s1}
    Refusals = FALSE
    Restarts = FALSE
    NoJob = NoJob
    NoCall = NoCall
INVARIANTS StoppedPageIsSilent
SYMMETRY Symmetry
