SPECIFICATION Spec
CONSTANTS
    Methods = {m1, m2}
    Rows = {r1, r2}
    Discards = {discard, again}
    MaxSent = 3
SYMMETRY Symmetry
INVARIANTS TypeOK EditIsMarked UnmarkedIsStored
PROPERTIES RefreshKeepsEdits
