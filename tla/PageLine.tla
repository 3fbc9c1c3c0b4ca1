------------------------------ MODULE PageLine ------------------------------
(***************************************************************************)
(* What the paging path promises, without threads, callbacks, stops or     *)
(* restarts: pages take turns on one line; the page that has the line      *)
(* calls each of its destinations at most once, and gives the line up,     *)
(* leaving a record, when it is no longer waiting for any of its calls.    *)
(* Paging implements it.                                                   *)
(***************************************************************************)
CONSTANTS Jobs, Dests, NoJob

VARIABLES owner,  \* the page that has the line
          phase,  \* how far each page is
          calls,  \* calls placed whose end or timeout is awaited
          tried,  \* calls ever placed
          last    \* the record of the page that ended last

lineVars == <<owner, phase, calls, tried, last>>

Init ==
    /\ owner = NoJob
    /\ phase = [j \in Jobs |-> "idle"]
    /\ calls = {}
    /\ tried = {}
    /\ last = [job |-> NoJob, ok |-> FALSE]

Ask(j) ==
    /\ phase[j] = "idle"
    /\ phase' = [phase EXCEPT ![j] = "waiting"]
    /\ UNCHANGED <<owner, calls, tried, last>>

Take(j) ==
    /\ phase[j] = "waiting"
    /\ owner = NoJob
    /\ phase' = [phase EXCEPT ![j] = "paging"]
    /\ owner' = j
    /\ UNCHANGED <<calls, tried, last>>

Place(j, d) ==
    /\ owner = j
    /\ <<j, d>> \notin tried
    /\ calls' = calls \cup {<<j, d>>}
    /\ tried' = tried \cup {<<j, d>>}
    /\ UNCHANGED <<owner, phase, last>>

Return(c) ==
    /\ c \in calls
    /\ calls' = calls \ {c}
    /\ UNCHANGED <<owner, phase, tried, last>>

Give(j) ==
    /\ owner = j
    /\ calls = {}
    /\ phase' = [phase EXCEPT ![j] = "over"]
    /\ owner' = NoJob
    /\ \E ok \in BOOLEAN : last' = [job |-> j, ok |-> ok]
    /\ UNCHANGED <<calls, tried>>

Next ==
    \/ \E j \in Jobs : Ask(j) \/ Take(j) \/ Give(j)
    \/ \E j \in Jobs, d \in Dests : Place(j, d)
    \/ \E c \in calls : Return(c)

Spec == Init /\ [][Next]_lineVars
=============================================================================
