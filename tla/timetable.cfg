SPECIFICATION TimetableSpec
CONSTANTS
    Prayers = {fajr, isha}
    Times = {t1, t2}
    Dates = {"02-28", "02-29", "03-01"}
    LeapDay = "02-29"
    DayBefore = "02-28"
    NoDate = nodate
    NoTime = notime
    NoFile = nofile
    Broken = broken
    MaxLines = 4
SYMMETRY Symmetry
INVARIANTS TimetableTypeOK LoadsOneImport WellFormedIsServed YearRepeats
CHECK_DEADLOCK FALSE
