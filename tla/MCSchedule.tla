----------------------------- MODULE MCSchedule -----------------------------
(* An instance of Schedule for TLC: three ticks a day, the second of them  *)
(* that of the daily refresh, the third that of the page.  Without the     *)
(* assumption NoPageMissed fails for a page due after midnight (Tod 5) or  *)
(* if two refreshes in a row may misfire (MaxMisses 2).                    *)
EXTENDS Schedule

DayTod    == [s \in Slots |-> 2]
OneOrNone == {{}, Slots}
OneAround == -1 .. 1

ASSUME InstanceIsCovered == ClocksAreClose /\ HorizonSuffices
=============================================================================
