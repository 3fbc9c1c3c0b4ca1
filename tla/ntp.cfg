SPECIFICATION Spec
CONSTANTS
    Loop = loop
    Operators = {op}
    Errs <- MCErrs
    MaxLag = 2
    MaxJumps = 1
INVARIANTS SettledIsRight
PROPERTIES ClockRecovers
CHECK_DEADLOCK FALSE
