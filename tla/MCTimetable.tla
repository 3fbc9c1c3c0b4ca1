---- MODULE MCTimetable ----
EXTENDS Timetable, TLC
Symmetry == Permutations(Prayers) \cup Permutations(Times)
====
