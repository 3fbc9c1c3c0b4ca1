SPECIFICATION Safety
CONSTANTS
    Jobs = {j1}
    Dests = {d1, d2}
    Modes = {"sequential"}
    Stoppers = {}
    Refusals = FALSE
    Restarts = TRUE
    NoJob = NoJob
    NoCall = NoCall
INVARIANTS NoUnknownThread
SYMMETRY Symmetry
