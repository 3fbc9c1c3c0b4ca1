--------------------------- MODULE ScheduleProofs ---------------------------
EXTENDS Schedule, TLAPS

\* A thread that has read the time, and not yet left.
Later == {"today", "add today", "tomorrow", "add tomorrow"}

TagOf(r) == IF rpc[r] \in {"today", "add today"} THEN "today" ELSE "tomorrow"
DateOf(tag, t) == DayOf(t) + (IF tag = "today" THEN 0 ELSE 1)

\* What a thread holds at each point of reschedule().
Holds(r) ==
    /\ rpc[r] \in Later => now[r] > 0 /\ DayOf(now[r]) \in 1 .. LastDay + 1
    /\ rpc[r] \notin Later => now[r] = 0
    /\ rpc[r] # "remove" => left[r] = {}
    /\ adds[r] # {} => rpc[r] \in {"add today", "add tomorrow"}
    /\ \A a \in adds[r] : /\ a.id[1] = TagOf(r)
                          /\ a.day = DateOf(a.id[1], now[r])
                          /\ Due(a.day, a.id[2]) > now[r]

PhaseInv ==
    /\ 2 * DayLen <= clock /\ clock <= (LastDay + 1) * DayLen
    /\ up => DayOf(asof) \in 1 .. LastDay + 1
    /\ \A r \in Threads : Holds(r)

\* The tags a thread has still to list, or to list again.
Unlisted(r) ==
    IF rpc[r] = "today" THEN Tags
    ELSE IF rpc[r] \in {"add today", "tomorrow"} THEN {"tomorrow"} ELSE {}

OneRuns == \A r, x \in Threads : rpc[r] # "idle" /\ rpc[x] # "idle" => r = x

\* A page that may be stored: not played yet, unless the host's clock was ahead.
Unplayed(p) == played[p] = 0 \/ p \in ahead

\* A page is under one id only, has not been played before, and is played when
\* it is due.
StoredOnce ==
    /\ \A id, other \in JobIds :
          jobs[id] # None /\ jobs[id] = jobs[other] /\ id[2] = other[2] => id = other
    /\ \A id \in JobIds : jobs[id] # None => Unplayed(<<jobs[id], id[2]>>)
    /\ \A d \in Days, s \in Slots : played[<<d, s>>] > 0 => Due(d, s) <= clock
    /\ PlayedAtMostOnce

\* What a thread that runs alone knows of the store: what it removes, and then
\* what it has added and has still to add.
StoreOf(r) ==
    /\ rpc[r] = "remove" => \A id \in JobIds : jobs[id] # None => id \in left[r]
    /\ rpc[r] \in Later =>
          \A id \in JobIds : jobs[id] # None =>
              id[2] \in conf /\ id[1] \notin Unlisted(r) /\ jobs[id] = DateOf(id[1], now[r])
    /\ \A tag \in Unlisted(r), s \in Slots :
          Unplayed(<<DateOf(tag, now[r]), s>>) \/ Due(DateOf(tag, now[r]), s) <= now[r]
    /\ \A a \in adds[r] :
          a.id[2] \in conf /\ jobs[a.id] = None /\ Unplayed(<<a.day, a.id[2]>>)
    /\ rpc[r] \in Later =>
          \A s \in conf, tag \in Tags \ Unlisted(r) :
              LET due == Due(DateOf(tag, now[r]), s)
              IN  due > clock /\ due > now[r] =>
                      \/ jobs[<<tag, s>>] = DateOf(tag, now[r])
                      \/ \E a \in adds[r] : a.id = <<tag, s>>

\* What it leaves.
StoreAtRest ==
    up /\ Quiet /\ ~spoiled =>
        /\ \A id \in JobIds : jobs[id] # None => id[2] \in conf /\ jobs[id] = DateOf(id[1], asof)
        /\ \A s \in conf, tag \in Tags :
              LET due == Due(DateOf(tag, asof), s)
              IN  due > clock /\ due > asof => jobs[<<tag, s>>] = DateOf(tag, asof)

LoneInv ==
    alone => OneRuns /\ StoredOnce /\ (\A r \in Threads : StoreOf(r)) /\ StoreAtRest

Pages == Days \X Slots

\* Pages between the two clocks are excused when a thread reads the time, and
\* those that are due while one rebuilds.
ExcuseInv ==
    /\ \A r \in Threads : rpc[r] \notin {"idle", "list"} => DueAt(clock) \subseteq excused
    /\ \A r \in Threads, p \in Pages :
          rpc[r] \in Later /\ clock < Due(p[1], p[2]) /\ Due(p[1], p[2]) <= now[r] => p \in excused
    /\ \A p \in Pages : clock < Due(p[1], p[2]) /\ Due(p[1], p[2]) <= asof => p \in excused

\* Some thread has still to add the page under this id, should it be enabled.
Pending(tag, s) ==
    \E r \in Threads : \/ rpc[r] \in {"list", "remove"}
                       \/ tag \in Unlisted(r)
                       \/ \E a \in adds[r] : a.id = <<tag, s>>

\* The page is stored, or about to be, or over.
Secured(tag, t, s) ==
    \/ Pending(tag, s)
    \/ jobs[<<tag, s>>] = DateOf(tag, t)
    \/ Due(DateOf(tag, t), s) <= clock
    \/ <<DateOf(tag, t), s>> \in excused

\* The schedule made for the time t holds every page that is still to come.
Kept(t) == \A s \in conf, tag \in Tags : Secured(tag, t, s)

KeptInv ==
    ~spoiled => /\ \A r, x \in Threads :
                      rpc[r] \in Later /\ rpc[x] \in Later => DayOf(now[r]) = DayOf(now[x])
                /\ \A r \in Threads : rpc[r] \in Later => Kept(now[r])
                /\ Quiet => Kept(asof)

\* When the refresh fired last, or would have before the start.
LastRefresh == refresh - (misses + 1) * DayLen

RefreshInv ==
    /\ LastRefresh = DayOf(LastRefresh) * DayLen + RefreshAt
    /\ LastRefresh <= clock /\ clock <= refresh
    /\ \A r \in Threads : rpc[r] # "idle" => clock <= since[r] + Span
    /\ rpc[Daily] # "idle" => since[Daily] = LastRefresh

\* No schedule is older than that, unless one is about to be made.
FreshInv ==
    ~spoiled => \/ \E r \in Threads : rpc[r] \in {"list", "remove"}
                \/ /\ \A r \in Threads : rpc[r] \in Later => DayOf(LastRefresh) <= DayOf(now[r])
                   /\ Quiet => DayOf(LastRefresh) <= DayOf(asof)

\* A page of the past was played or is excused; one that is due is about to be.
PastInv ==
    \A p \in Pages :
        LET due == Due(p[1], p[2])
        IN  3 * DayLen <= due /\ due <= clock =>
                \/ played[p] > 0
                \/ p \in excused
                \/ due = clock /\ \E id \in JobIds : id[2] = p[2] /\ jobs[id] = p[1]

HorizonInv == ExcuseInv /\ KeptInv /\ RefreshInv /\ FreshInv /\ PastInv

-----------------------------------------------------------------------------
LEMMA Parameters ==
    /\ DayLen \in Nat \ {0} /\ RefreshAt \in 0 .. DayLen - 1
    /\ LastDay \in Nat \ {0, 1} /\ Span \in Nat /\ MaxMisses \in Nat
BY ScheduleAssumption

LEMMA DaysAhead ==
    ASSUME NEW d \in 1 .. LastDay + 1, NEW tag
    PROVE  d + (IF tag = "today" THEN 0 ELSE 1) \in Days
BY Parameters DEF Days

LEMMA DueIsNat ==
    ASSUME NEW d \in Days, NEW s \in Slots
    PROVE  d \in Nat \ {0} /\ Due(d, s) \in Nat
BY ScheduleAssumption DEF Due, Days

LEMMA DatesAreTwo ==
    ASSUME NEW t, DayOf(t) \in 1 .. LastDay + 1, NEW tag \in Tags, NEW other \in Tags, tag # other
    PROVE  DateOf(tag, t) # DateOf(other, t)
<1> DEFINE d == DayOf(t)
<1>1. d \in Int
  BY Parameters
<1> HIDE DEF d
<1>2. d + 0 # d + 1
  BY <1>1
<1> QED BY <1>2 DEF DateOf, Tags, d

LEMMA DayBounds ==
    ASSUME NEW t \in Int
    PROVE  /\ DayOf(t) \in Int
           /\ DayOf(t) * DayLen <= t
           /\ t < DayOf(t) * DayLen + DayLen
BY ScheduleAssumption DEF DayOf

LEMMA DayIsNat ==
    ASSUME NEW t \in Nat
    PROVE  DayOf(t) \in Nat
BY ScheduleAssumption DEF DayOf

LEMMA DayIsLower ==
    ASSUME NEW d \in Int, NEW e \in Int, d * DayLen < e * DayLen + DayLen
    PROVE  d <= e
BY ScheduleAssumption

LEMMA DayMonotone ==
    ASSUME NEW t \in Int, NEW u \in Int, t <= u
    PROVE  DayOf(t) <= DayOf(u)
<1>1. DayOf(t) * DayLen < DayOf(u) * DayLen + DayLen
  BY DayBounds, ScheduleAssumption
<1> QED BY <1>1, DayBounds, DayIsLower

-----------------------------------------------------------------------------
LEMMA InitTypes ==
    ASSUME Init
    PROVE  TypeOK /\ PhaseInv
<1> USE DEF Init
<1>1. clock \in Nat
  BY ScheduleAssumption
<1>2. refresh \in Nat
  <2>1. DayOf(clock) \in Nat
    BY <1>1, DayIsNat
  <2>2. DayOf(clock) * DayLen \in Nat /\ (DayOf(clock) + 1) * DayLen \in Nat
    BY <2>1, ScheduleAssumption
  <2> QED BY <2>1, <2>2, ScheduleAssumption DEF NextRefresh
<1>3. 3 * DayLen <= (LastDay + 1) * DayLen
  BY ScheduleAssumption
<1>4. StoreTypeOK
  BY <1>1, <1>2, ScheduleAssumption DEF StoreTypeOK
<1>5. ThreadTypeOK
  BY <1>1 DEF ThreadTypeOK
<1>6. HistoryTypeOK
  BY DEF HistoryTypeOK
<1>7. PhaseInv
  BY <1>1, <1>3, ScheduleAssumption DEF PhaseInv, Holds, Later
<1> QED BY <1>4, <1>5, <1>6, <1>7 DEF TypeOK

LEMMA AddTypes ==
    ASSUME ThreadTypeOK, NEW r \in Threads, NEW a \in adds[r]
    PROVE  a \in [id : JobIds, day : Days] /\ a.id \in JobIds /\ a.day \in Days
<1>1. adds[r] \in SUBSET [id : JobIds, day : Days]
  BY DEF ThreadTypeOK
<1> QED BY <1>1

LEMMA OffsetIsSmall ==
    ASSUME ClocksAreClose, StoreTypeOK
    PROVE  offset \in Int /\ -DayLen < offset /\ offset < DayLen
BY ScheduleAssumption DEF ClocksAreClose, StoreTypeOK

LEMMA CorrectedIsNat ==
    ASSUME ClocksAreClose, StoreTypeOK, PhaseInv
    PROVE  clock + offset \in Nat
<1>1. offset \in Int /\ -DayLen < offset /\ clock \in Nat
  BY OffsetIsSmall DEF StoreTypeOK
<1> QED BY <1>1, Parameters DEF PhaseInv

LEMMA FlagTypeStep ==
    ASSUME TypeOK, [Next]_vars
    PROVE  ({up, alone, spoiled} \subseteq BOOLEAN)'
BY DEF TypeOK, Next, RescheduleStep, Save, Enter, ListJobs, RemoveJob, Leave, ReadNow, ListDay, AddJob, TodayDone,
   RescheduleReturns, FireJob, FireRefresh, MissRefresh, Tick, vars, reVars, Quiet

LEMMA ThreadTypeStep ==
    ASSUME ClocksAreClose, TypeOK, PhaseInv, [Next]_vars
    PROVE  ThreadTypeOK'
<1> USE DEF ThreadTypeOK
<1> ThreadTypeOK /\ StoreTypeOK
  BY DEF TypeOK
<1>1. ASSUME Save PROVE ThreadTypeOK'
  BY <1>1 DEF Save, Enter, StoreTypeOK
<1>2. ASSUME NEW r \in Threads, ListJobs(r) PROVE ThreadTypeOK'
  BY <1>2 DEF ListJobs
<1>3. ASSUME NEW r \in Threads, RemoveJob(r) PROVE ThreadTypeOK'
  <2>1. left' \in [Threads -> SUBSET JobIds]
    BY <1>3 DEF RemoveJob
  <2>2. CASE UNCHANGED <<rpc, since, now>>
    BY <1>3, <2>1, <2>2 DEF RemoveJob
  <2>3. CASE Leave(r)
    BY <1>3, <2>1, <2>3 DEF RemoveJob, Leave
  <2> QED BY <1>3, <2>2, <2>3 DEF RemoveJob
<1>4. ASSUME NEW r \in Threads, ReadNow(r) PROVE ThreadTypeOK'
  <2>1. clock + offset \in Nat
    BY CorrectedIsNat
  <2> QED BY <1>4, <2>1 DEF ReadNow
<1>5. ASSUME NEW r \in Threads, ListDay(r) PROVE ThreadTypeOK'
  <2> DEFINE day == DayOf(now[r]) + (IF rpc[r] = "today" THEN 0 ELSE 1)
             new == {[id |-> <<rpc[r], s>>, day |-> day] : s \in {x \in conf : Due(day, x) > now[r]}}
  <2>1. rpc[r] \in Tags /\ conf \subseteq Slots
    BY <1>5, ScheduleAssumption DEF ListDay, Tags, StoreTypeOK
  <2>2. DayOf(now[r]) \in 1 .. LastDay + 1
    BY <1>5 DEF ListDay, PhaseInv, Holds, Later
  <2>3. day \in Days
    BY <2>2, DaysAhead
  <2>4. new \in SUBSET [id : JobIds, day : Days]
    <3> HIDE DEF day
    <3>1. \A s \in conf : [id |-> <<rpc[r], s>>, day |-> day] \in [id : JobIds, day : Days]
      BY <2>1, <2>3 DEF JobIds
    <3> QED BY <3>1
  <2>5. adds' = [adds EXCEPT ![r] = new]
    BY <1>5 DEF ListDay
  <2> HIDE DEF new
  <2> QED BY <1>5, <2>4, <2>5 DEF ListDay
<1>6. ASSUME NEW r \in Threads, AddJob(r) PROVE ThreadTypeOK'
  BY <1>6 DEF AddJob
<1>7. ASSUME NEW r \in Threads, TodayDone(r) PROVE ThreadTypeOK'
  BY <1>7 DEF TodayDone
<1>8. ASSUME NEW r \in Threads, RescheduleReturns(r) PROVE ThreadTypeOK'
  <2>1. /\ rpc' = [rpc EXCEPT ![r] = "idle"]
        /\ since' = [since EXCEPT ![r] = 0]
        /\ now' = [now EXCEPT ![r] = 0]
        /\ UNCHANGED <<left, adds>>
    BY <1>8 DEF RescheduleReturns, Leave
  <2> QED BY <2>1
<1>9. ASSUME FireRefresh PROVE ThreadTypeOK'
  BY <1>9 DEF FireRefresh, Enter, reVars, Threads, StoreTypeOK
<1>10. ASSUME (\E id \in JobIds : FireJob(id)) \/ MissRefresh \/ Tick \/ UNCHANGED vars
       PROVE  ThreadTypeOK'
  BY <1>10 DEF FireJob, MissRefresh, Tick, vars, reVars
<1> QED
  BY <1>1, <1>2, <1>3, <1>4, <1>5, <1>6, <1>7, <1>8, <1>9, <1>10 DEF Next, RescheduleStep

LEMMA StoreTypeStep ==
    ASSUME TypeOK, [Next]_vars
    PROVE  StoreTypeOK'
<1> USE DEF StoreTypeOK
<1> ThreadTypeOK /\ StoreTypeOK
  BY DEF TypeOK
<1>1. ASSUME Save PROVE StoreTypeOK'
  BY <1>1 DEF Save, Enter
<1>2. ASSUME NEW r \in Threads, RemoveJob(r) PROVE StoreTypeOK'
  BY <1>2 DEF RemoveJob, Leave
<1>3. ASSUME NEW r \in Threads, AddJob(r) PROVE StoreTypeOK'
  <2>1. PICK a \in adds[r] : jobs' = [jobs EXCEPT ![a.id] = a.day]
    BY <1>3 DEF AddJob
  <2>2. a.id \in JobIds /\ a.day \in Days
    BY AddTypes
  <2> QED BY <1>3, <2>1, <2>2 DEF AddJob
<1>4. ASSUME NEW r \in Threads,
             ListJobs(r) \/ ReadNow(r) \/ ListDay(r) \/ TodayDone(r) \/ RescheduleReturns(r)
      PROVE  StoreTypeOK'
  BY <1>4 DEF ListJobs, ReadNow, ListDay, TodayDone, RescheduleReturns, Leave
<1>5. ASSUME NEW id \in JobIds, FireJob(id) PROVE StoreTypeOK'
  BY <1>5 DEF FireJob
<1>6. ASSUME FireRefresh PROVE StoreTypeOK'
  BY <1>6, ScheduleAssumption DEF FireRefresh
<1>7. ASSUME MissRefresh PROVE StoreTypeOK'
  BY <1>7, ScheduleAssumption DEF MissRefresh
<1>8. ASSUME Tick PROVE StoreTypeOK'
  BY <1>8 DEF Tick
<1>9. ASSUME UNCHANGED vars PROVE StoreTypeOK'
  BY <1>9 DEF vars
<1> QED
  BY <1>1, <1>2, <1>3, <1>4, <1>5, <1>6, <1>7, <1>8, <1>9 DEF Next, RescheduleStep

LEMMA HistoryTypeStep ==
    ASSUME TypeOK, [Next]_vars
    PROVE  HistoryTypeOK'
<1> USE DEF HistoryTypeOK
<1> ThreadTypeOK /\ StoreTypeOK /\ HistoryTypeOK
  BY DEF TypeOK
<1>1. ASSUME NEW id \in JobIds, FireJob(id) PROVE HistoryTypeOK'
  <2>1. <<jobs[id], id[2]>> \in Days \X Slots
    BY <1>1 DEF FireJob, StoreTypeOK, JobIds
  <2> QED BY <1>1, <2>1 DEF FireJob
<1>2. ASSUME NEW r \in Threads, RescheduleReturns(r) PROVE HistoryTypeOK'
  BY <1>2 DEF RescheduleReturns, ThreadTypeOK
<1>3. ASSUME NEW r \in Threads, ListJobs(r) \/ ReadNow(r) PROVE HistoryTypeOK'
  BY <1>3 DEF ListJobs, ReadNow, DueAt
<1>4. ASSUME Tick PROVE HistoryTypeOK'
  BY <1>4 DEF Tick, DueAt
<1>5. ASSUME NEW r \in Threads, RemoveJob(r) \/ ListDay(r) \/ AddJob(r) \/ TodayDone(r)
      PROVE  HistoryTypeOK'
  BY <1>5 DEF RemoveJob, ListDay, AddJob, TodayDone
<1>6. ASSUME Save \/ FireRefresh \/ MissRefresh \/ UNCHANGED vars PROVE HistoryTypeOK'
  BY <1>6 DEF Save, FireRefresh, MissRefresh, vars
<1> QED
  BY <1>1, <1>2, <1>3, <1>4, <1>5, <1>6 DEF Next, RescheduleStep

LEMMA TypeStep ==
    ASSUME ClocksAreClose, TypeOK, PhaseInv, [Next]_vars
    PROVE  TypeOK'
BY FlagTypeStep, ThreadTypeStep, StoreTypeStep, HistoryTypeStep DEF TypeOK

-----------------------------------------------------------------------------
LEMMA CorrectedDay ==
    ASSUME ClocksAreClose, StoreTypeOK, PhaseInv
    PROVE  clock + offset > 0 /\ DayOf(clock + offset) \in 1 .. LastDay + 1
<1> DEFINE t == clock + offset
<1>1. clock \in Nat /\ offset \in Int /\ -DayLen < offset /\ offset < DayLen
  BY OffsetIsSmall DEF StoreTypeOK
<1>2. t \in Nat /\ DayLen <= t /\ t < (LastDay + 1) * DayLen + DayLen
  BY <1>1, Parameters DEF PhaseInv
<1> HIDE DEF t
<1>3. DayOf(t) \in Nat /\ DayOf(t) * DayLen <= t /\ t < DayOf(t) * DayLen + DayLen
  BY <1>2, DayBounds, DayIsNat
<1>4. 1 * DayLen < DayOf(t) * DayLen + DayLen
  BY <1>2, <1>3, Parameters
<1>5. DayOf(t) * DayLen < (LastDay + 1) * DayLen + DayLen
  BY <1>2, <1>3, Parameters
<1>6. 1 <= DayOf(t) /\ DayOf(t) <= LastDay + 1
  BY <1>3, <1>4, <1>5, DayIsLower, Parameters
<1>7. t > 0 /\ DayOf(t) \in 1 .. LastDay + 1
  BY <1>2, <1>3, <1>6, Parameters
<1> QED BY <1>7 DEF t

LEMMA ClockStep ==
    ASSUME StoreTypeOK, PhaseInv, [Next]_vars
    PROVE  clock <= clock' /\ 2 * DayLen <= clock' /\ clock' <= (LastDay + 1) * DayLen
<1>1. clock' = clock \/ (clock < (LastDay + 1) * DayLen /\ clock' = clock + 1)
  BY DEF Next, RescheduleStep, Save, ListJobs, RemoveJob, ReadNow, ListDay, AddJob, TodayDone,
     RescheduleReturns, FireJob, FireRefresh, MissRefresh, Tick, vars
<1>2. (LastDay + 1) * DayLen \in Nat
  BY Parameters
<1> QED BY <1>1, <1>2, Parameters DEF StoreTypeOK, PhaseInv

\* A thread keeps what it holds while another one moves.
LEMMA OthersHold ==
    ASSUME ThreadTypeOK, NEW r \in Threads, NEW x \in Threads \ {r}, Holds(x), RescheduleStep(r) \/ Enter(r)
    PROVE  /\ Holds(x)'
           /\ rpc'[x] = rpc[x] /\ now'[x] = now[x] /\ adds'[x] = adds[x] /\ left'[x] = left[x]
           /\ since'[x] = since[x]
<1>1. /\ rpc'[x] = rpc[x] /\ now'[x] = now[x] /\ adds'[x] = adds[x] /\ left'[x] = left[x]
      /\ since'[x] = since[x]
  BY DEF ThreadTypeOK, RescheduleStep, ListJobs, RemoveJob, Leave, ReadNow, ListDay, AddJob, TodayDone,
     RescheduleReturns, Enter
<1> QED BY <1>1 DEF Holds, TagOf

LEMMA HoldsStep ==
    ASSUME ClocksAreClose, TypeOK, PhaseInv, NEW r \in Threads, RescheduleStep(r) \/ Enter(r)
    PROVE  Holds(r)'
<1>0. ThreadTypeOK /\ StoreTypeOK /\ Holds(r)
  BY DEF TypeOK, PhaseInv
<1>1. ASSUME Enter(r) PROVE Holds(r)'
  BY <1>0, <1>1 DEF Enter, Holds, Later, ThreadTypeOK
<1>2. ASSUME ListJobs(r) PROVE Holds(r)'
  BY <1>0, <1>2 DEF ListJobs, Holds, Later, ThreadTypeOK
<1>3. ASSUME RemoveJob(r) PROVE Holds(r)'
  BY <1>0, <1>3 DEF RemoveJob, Leave, Holds, Later, ThreadTypeOK
<1>4. ASSUME ReadNow(r) PROVE Holds(r)'
  BY <1>0, <1>4, CorrectedDay DEF ReadNow, Holds, Later, ThreadTypeOK
<1>5. ASSUME ListDay(r) PROVE Holds(r)'
  <2>1. /\ rpc'[r] = IF rpc[r] = "today" THEN "add today" ELSE "add tomorrow"
        /\ rpc[r] \in {"today", "tomorrow"} /\ now'[r] = now[r] /\ left'[r] = left[r]
    BY <1>0, <1>5 DEF ListDay, ThreadTypeOK
  <2>2. ASSUME NEW a \in adds'[r]
        PROVE  a.id[1] = rpc[r] /\ a.day = DateOf(rpc[r], now[r]) /\ Due(a.day, a.id[2]) > now[r]
    <3>1. PICK s \in conf : /\ a = [id |-> <<rpc[r], s>>, day |-> DateOf(rpc[r], now[r])]
                            /\ Due(DateOf(rpc[r], now[r]), s) > now[r]
      BY <1>0, <1>5, <2>2 DEF ListDay, ThreadTypeOK, DateOf
    <3> QED BY <3>1
  <2>3. TagOf(r)' = rpc[r]
    BY <2>1 DEF TagOf
  <2> QED BY <1>0, <2>1, <2>2, <2>3 DEF Holds, Later
<1>6. ASSUME AddJob(r) PROVE Holds(r)'
  BY <1>0, <1>6 DEF AddJob, Holds, Later, ThreadTypeOK, TagOf
<1>7. ASSUME TodayDone(r) PROVE Holds(r)'
  BY <1>0, <1>7 DEF TodayDone, Holds, Later, ThreadTypeOK
<1>8. ASSUME RescheduleReturns(r) PROVE Holds(r)'
  BY <1>0, <1>8 DEF RescheduleReturns, Leave, Holds, Later, ThreadTypeOK
<1> QED BY <1>1, <1>2, <1>3, <1>4, <1>5, <1>6, <1>7, <1>8 DEF RescheduleStep

\* Whose move a step is.
LEMMA Moves ==
    ASSUME [Next]_vars
    PROVE  \/ \E r \in Threads : RescheduleStep(r)
           \/ Save /\ Enter(Loop)
           \/ FireRefresh /\ Enter(Daily)
           \/ UNCHANGED reVars
BY DEF Next, Save, FireJob, FireRefresh, MissRefresh, Tick, vars

LEMMA PhaseStep ==
    ASSUME ClocksAreClose, TypeOK, PhaseInv, [Next]_vars
    PROVE  PhaseInv'
<1>0. ThreadTypeOK /\ StoreTypeOK /\ \A r \in Threads : Holds(r)
  BY DEF TypeOK, PhaseInv
<1>1. ASSUME NEW r \in Threads, RescheduleStep(r) \/ Enter(r) PROVE \A x \in Threads : Holds(x)'
  BY <1>0, <1>1, OthersHold, HoldsStep
<1>2. ASSUME UNCHANGED reVars PROVE \A x \in Threads : Holds(x)'
  BY <1>0, <1>2 DEF reVars, Holds, TagOf
<1>3. \A x \in Threads : Holds(x)'
  BY <1>1, <1>2, Moves DEF Threads
<1>4. (up => DayOf(asof) \in 1 .. LastDay + 1)'
  <2>1. ASSUME NEW r \in Threads, RescheduleReturns(r) PROVE DayOf(asof') \in 1 .. LastDay + 1
    BY <1>0, <2>1 DEF RescheduleReturns, Holds, Later
  <2>2. UNCHANGED <<up, asof>> \/ \E r \in Threads : RescheduleReturns(r)
    BY DEF Next, RescheduleStep, Save, ListJobs, RemoveJob, ReadNow, ListDay, AddJob, TodayDone,
       FireJob, FireRefresh, MissRefresh, Tick, vars
  <2> QED BY <2>1, <2>2 DEF PhaseInv, DayOf
<1> QED BY <1>0, <1>3, <1>4, ClockStep DEF PhaseInv

-----------------------------------------------------------------------------
(* A rebuild that runs alone                                               *)

LEMMA DatesOfNow ==
    ASSUME NEW r \in Threads, Holds(r), rpc[r] \in Later, NEW tag
    PROVE  DateOf(tag, now[r]) \in Days
BY DaysAhead DEF Holds, DateOf

LEMMA DatesDiffer ==
    ASSUME NEW r \in Threads, Holds(r), rpc[r] \in Later
    PROVE  DateOf("today", now[r]) # DateOf("tomorrow", now[r])
<1>1. DayOf(now[r]) \in 1 .. LastDay + 1
  BY DEF Holds
<1>2. "today" \in Tags /\ "tomorrow" \in Tags
  BY DEF Tags
<1> QED BY <1>1, <1>2, DatesAreTwo, Parameters

LEMMA LoneListJobs ==
    ASSUME TypeOK, PhaseInv, LoneInv, alone, NEW r \in Threads, ListJobs(r)
    PROVE  StoredOnce' /\ StoreOf(r)' /\ ~Quiet'
<1>1. ThreadTypeOK /\ Holds(r) /\ StoredOnce
  BY DEF TypeOK, PhaseInv, LoneInv
<1>2. rpc'[r] = "remove" /\ left'[r] = {id \in JobIds : jobs[id] # None} /\ adds'[r] = {}
  BY <1>1 DEF ListJobs, ThreadTypeOK, Holds
<1>3. StoredOnce'
  BY <1>1 DEF ListJobs, StoredOnce, Unplayed, PlayedAtMostOnce
<1>4. StoreOf(r)'
  BY <1>2 DEF ListJobs, StoreOf, Later, Unlisted
<1> QED BY <1>2, <1>3, <1>4 DEF Quiet

LEMMA LoneRemoveJob ==
    ASSUME TypeOK, PhaseInv, LoneInv, alone, NEW r \in Threads, RemoveJob(r)
    PROVE  StoredOnce' /\ StoreOf(r)' /\ StoreAtRest'
<1>1. ThreadTypeOK /\ StoreTypeOK /\ Holds(r) /\ StoredOnce /\ StoreOf(r)
  BY DEF TypeOK, PhaseInv, LoneInv
<1>2. rpc[r] = "remove" /\ adds'[r] = {} /\ adds[r] = {}
  BY <1>1 DEF RemoveJob, Holds
<1>3. \A id \in JobIds : jobs'[id] # None => jobs'[id] = jobs[id]
  BY <1>1 DEF RemoveJob, StoreTypeOK
<1>4. StoredOnce'
  BY <1>1, <1>3 DEF RemoveJob, StoredOnce, Unplayed, PlayedAtMostOnce
<1>5. CASE UNCHANGED <<rpc, since, now, spoiled>>
  <2>1. PICK id \in left[r] : /\ jobs' = [jobs EXCEPT ![id] = None]
                              /\ left' = [left EXCEPT ![r] = @ \ {id}]
    BY <1>1, <1>2, <1>5 DEF RemoveJob, Leave, ThreadTypeOK
  <2>2. \A x \in JobIds : jobs'[x] # None => x \in left'[r]
    BY <1>1, <1>2, <2>1 DEF StoreOf, ThreadTypeOK, StoreTypeOK
  <2>3. ~Quiet'
    BY <1>2, <1>5 DEF Quiet
  <2> QED BY <1>2, <1>4, <1>5, <2>2, <2>3 DEF StoreOf, Later, Unlisted, StoreAtRest
<1>6. CASE Leave(r) /\ spoiled'
  <2>1. rpc'[r] = "idle"
    BY <1>1, <1>6 DEF Leave, ThreadTypeOK
  <2> QED BY <1>2, <1>4, <1>6, <2>1 DEF StoreOf, Later, Unlisted, StoreAtRest
<1> QED BY <1>5, <1>6 DEF RemoveJob

LEMMA LoneReadNow ==
    ASSUME ClocksAreClose, TypeOK, PhaseInv, LoneInv, alone, NEW r \in Threads, ReadNow(r)
    PROVE  StoredOnce' /\ StoreOf(r)' /\ ~Quiet'
<1>1. ThreadTypeOK /\ StoreTypeOK /\ Holds(r) /\ StoredOnce /\ StoreOf(r)
  BY DEF TypeOK, PhaseInv, LoneInv
<1>2. /\ rpc[r] = "remove" /\ rpc'[r] = "today" /\ adds'[r] = {}
      /\ now'[r] = clock + offset /\ UNCHANGED <<jobs, conf, played, clock, adds>>
      /\ ahead \subseteq ahead'
      /\ \A t \in clock + offset + 1 .. clock : DueAt(t) \subseteq ahead'
  BY <1>1 DEF ReadNow, ThreadTypeOK, Holds
<1>3. \A id \in JobIds : jobs[id] = None
  BY <1>1, <1>2 DEF ReadNow, StoreOf
<1>4. StoredOnce'
  BY <1>1, <1>2 DEF StoredOnce, Unplayed, PlayedAtMostOnce
<1>5. ASSUME NEW d \in Days, NEW s \in Slots
      PROVE  Unplayed(<<d, s>>)' \/ Due(d, s) <= clock + offset
  <2>1. offset \in Int /\ clock \in Nat /\ Due(d, s) \in Nat
    BY <1>1, OffsetIsSmall, DueIsNat DEF StoreTypeOK
  <2>2. played[<<d, s>>] = 0 \/ Due(d, s) <= clock
    BY <1>1 DEF StoredOnce, TypeOK, HistoryTypeOK
  <2>3. CASE clock + offset < Due(d, s) /\ Due(d, s) <= clock
    <3>1. Due(d, s) \in clock + offset + 1 .. clock
      BY <2>1, <2>3
    <3>2. <<d, s>> \in DueAt(Due(d, s))
      BY DEF DueAt
    <3> QED BY <1>2, <3>1, <3>2 DEF Unplayed
  <2> QED BY <1>2, <2>1, <2>2, <2>3 DEF Unplayed
<1>6. \A tag : DateOf(tag, clock + offset) \in Days
  BY <1>1, CorrectedDay, DaysAhead DEF DateOf
<1>7. StoreOf(r)'
  BY <1>2, <1>3, <1>5, <1>6 DEF StoreOf, Later, Unlisted
<1> QED BY <1>2, <1>4, <1>7 DEF Quiet

\* The jobs of a date that _schedule_day computes.
LEMMA Listed ==
    ASSUME ThreadTypeOK, NEW r \in Threads, ListDay(r)
    PROVE  /\ rpc[r] \in Tags
           /\ rpc'[r] = IF rpc[r] = "today" THEN "add today" ELSE "add tomorrow"
           /\ UNCHANGED <<clock, conf, jobs, played, now, ahead>>
           /\ \A a \in adds'[r] : \E s \in conf :
                 /\ a = [id |-> <<rpc[r], s>>, day |-> DateOf(rpc[r], now[r])]
                 /\ Due(DateOf(rpc[r], now[r]), s) > now[r]
           /\ \A s \in conf : Due(DateOf(rpc[r], now[r]), s) > now[r] =>
                 [id |-> <<rpc[r], s>>, day |-> DateOf(rpc[r], now[r])] \in adds'[r]
BY DEF ListDay, ThreadTypeOK, Tags, DateOf

LEMMA LoneListDay ==
    ASSUME TypeOK, PhaseInv, LoneInv, alone, NEW r \in Threads, ListDay(r)
    PROVE  StoredOnce' /\ StoreOf(r)' /\ ~Quiet'
<1>1. ThreadTypeOK /\ StoreTypeOK /\ Holds(r) /\ StoredOnce /\ StoreOf(r)
  BY DEF TypeOK, PhaseInv, LoneInv
<1>2. /\ rpc[r] \in Tags /\ rpc[r] \in Later /\ adds[r] = {}
      /\ rpc'[r] = (IF rpc[r] = "today" THEN "add today" ELSE "add tomorrow")
      /\ now'[r] = now[r] /\ UNCHANGED <<clock, conf, jobs, played, ahead>>
  BY <1>1, Listed DEF Holds, Tags, Later
<1>3. StoredOnce'
  BY <1>1, <1>2 DEF StoredOnce, Unplayed, PlayedAtMostOnce
<1>4. Unlisted(r) = Unlisted(r)' \cup {rpc[r]} /\ Unlisted(r)' \subseteq Tags
  BY <1>2 DEF Unlisted, Tags
<1> DEFINE t == now[r]
           d == DateOf(rpc[r], t)
<1>5. ASSUME NEW a \in adds'[r]
      PROVE  a.id[2] \in conf /\ jobs[a.id] = None /\ Unplayed(<<a.day, a.id[2]>>)
  <2>1. PICK s \in conf : a.id = <<rpc[r], s>> /\ a.day = d /\ Due(d, s) > t
    <3>1. PICK s \in conf : a = [id |-> <<rpc[r], s>>, day |-> d] /\ Due(d, s) > t
      BY <1>1, Listed
    <3> QED BY <3>1
  <2>2. s \in Slots /\ <<rpc[r], s>> \in JobIds
    BY <1>1, <1>2, ScheduleAssumption DEF StoreTypeOK, JobIds
  <2>3. jobs[<<rpc[r], s>>] = None
    BY <1>1, <1>2, <1>4, <2>2 DEF StoreOf
  <2>4. Unplayed(<<d, s>>)
    <3>1. Unplayed(<<d, s>>) \/ Due(d, s) <= t
      BY <1>1, <1>4, <2>2 DEF StoreOf
    <3>2. d \in Days
      BY <1>1, <1>2, DatesOfNow
    <3>3. Due(d, s) \in Nat /\ t \in Nat
      BY <1>1, <2>2, <3>2, DueIsNat DEF ThreadTypeOK
    <3> HIDE DEF d, t
    <3> QED BY <2>1, <3>1, <3>3
  <2> QED BY <2>1, <2>3, <2>4
<1>6. ASSUME NEW s \in conf, NEW tag \in Tags \ Unlisted(r)',
             Due(DateOf(tag, t), s) > clock, Due(DateOf(tag, t), s) > t
      PROVE  jobs[<<tag, s>>] = DateOf(tag, t) \/ \E a \in adds'[r] : a.id = <<tag, s>>
  <2>1. CASE tag = rpc[r]
    BY <1>1, <1>6, <2>1, Listed
  <2>2. CASE tag # rpc[r]
    BY <1>1, <1>2, <1>4, <1>6, <2>2 DEF StoreOf
  <2> QED BY <2>1, <2>2
<1>7. rpc'[r] \in Later \ {"remove", "idle"}
  BY <1>2 DEF Later
<1>8. StoreOf(r)'
  <2>1. \A id \in JobIds : jobs'[id] # None =>
            id[2] \in conf' /\ id[1] \notin Unlisted(r)' /\ jobs'[id] = DateOf(id[1], now'[r])
    BY <1>1, <1>2, <1>4 DEF StoreOf
  <2>2. \A tag \in Unlisted(r)', s \in Slots :
            Unplayed(<<DateOf(tag, now[r]), s>>)' \/ Due(DateOf(tag, now'[r]), s) <= now'[r]
    BY <1>1, <1>2, <1>4 DEF StoreOf, Unplayed
  <2>3. \A a \in adds'[r] :
            a.id[2] \in conf' /\ jobs'[a.id] = None /\ Unplayed(<<a.day, a.id[2]>>)'
    BY <1>2, <1>5 DEF Unplayed
  <2> QED BY <1>2, <1>6, <1>7, <2>1, <2>2, <2>3 DEF StoreOf
<1> QED BY <1>3, <1>7, <1>8 DEF Quiet

\* What AddJob takes from the list.
LEMMA Added ==
    ASSUME ThreadTypeOK, StoreTypeOK, NEW r \in Threads, Holds(r), AddJob(r)
    PROVE  /\ rpc[r] \in Later /\ rpc'[r] = rpc[r]
           /\ UNCHANGED <<clock, conf, rpc, played, now, asof, up, spoiled, excused, ahead>>
           /\ \E a \in adds[r] :
                 /\ a \in [id : JobIds, day : Days]
                 /\ jobs' = [jobs EXCEPT ![a.id] = a.day]
                 /\ jobs'[a.id] = a.day /\ a.day # None
                 /\ adds'[r] = adds[r] \ {a}
                 /\ a.id[1] \in Tags \ Unlisted(r)
                 /\ a.day = DateOf(a.id[1], now[r])
<1>1. /\ rpc[r] \in {"add today", "add tomorrow"}
      /\ UNCHANGED <<clock, conf, rpc, played, now, asof, up, spoiled, excused, ahead>>
  BY DEF AddJob
<1>2. PICK a \in adds[r] : jobs' = [jobs EXCEPT ![a.id] = a.day] /\ adds'[r] = adds[r] \ {a}
  BY DEF AddJob, ThreadTypeOK
<1>3. a \in [id : JobIds, day : Days] /\ a.id \in JobIds /\ a.day \in Days
  BY AddTypes
<1>4. jobs'[a.id] = a.day /\ a.day # None
  BY <1>2, <1>3 DEF StoreTypeOK, Days, None
<1>5. a.id[1] \in Tags \ Unlisted(r)
  BY <1>1 DEF Holds, TagOf, Unlisted, Tags
<1>6. a.day = DateOf(a.id[1], now[r])
  BY DEF Holds
<1> QED BY <1>1, <1>2, <1>3, <1>4, <1>5, <1>6 DEF Later

LEMMA LoneAddJob ==
    ASSUME TypeOK, PhaseInv, LoneInv, alone, NEW r \in Threads, AddJob(r)
    PROVE  StoredOnce' /\ StoreOf(r)' /\ ~Quiet'
<1>1. ThreadTypeOK /\ StoreTypeOK /\ Holds(r) /\ StoredOnce /\ StoreOf(r)
  BY DEF TypeOK, PhaseInv, LoneInv
<1>2. rpc[r] \in Later /\ rpc'[r] = rpc[r] /\ UNCHANGED <<clock, conf, rpc, played, now, ahead>>
  BY <1>1, Added
<1>3. PICK a \in adds[r] :
         /\ a \in [id : JobIds, day : Days]
         /\ jobs' = [jobs EXCEPT ![a.id] = a.day]
         /\ jobs'[a.id] = a.day /\ a.day # None
         /\ adds'[r] = adds[r] \ {a}
         /\ a.id[1] \in Tags \ Unlisted(r)
         /\ a.day = DateOf(a.id[1], now[r])
  BY <1>1, Added
<1>4. a.id[2] \in conf /\ Unplayed(<<a.day, a.id[2]>>)
  BY <1>1 DEF StoreOf
<1>5. \A id \in JobIds : id # a.id => jobs'[id] = jobs[id]
  BY <1>1, <1>3 DEF StoreTypeOK
<1>6. \A id \in JobIds : jobs'[id] # None =>
          id[2] \in conf /\ id[1] \notin Unlisted(r) /\ jobs'[id] = DateOf(id[1], now[r])
  BY <1>1, <1>2, <1>3, <1>4, <1>5 DEF StoreOf
<1>7. StoredOnce'
  <2>1. ASSUME NEW id \in JobIds, NEW other \in JobIds, jobs'[id] # None, jobs'[id] = jobs'[other], id[2] = other[2]
        PROVE  id = other
    <3>1. DateOf(id[1], now[r]) = DateOf(other[1], now[r])
      BY <1>6, <2>1
    <3>2. id[1] \in Tags /\ other[1] \in Tags
      BY DEF JobIds
    <3>3. DayOf(now[r]) \in 1 .. LastDay + 1
      BY <1>1, <1>2 DEF Holds
    <3>4. id[1] = other[1]
      BY <3>1, <3>2, <3>3, DatesAreTwo
    <3> QED BY <2>1, <3>4 DEF JobIds
  <2>2. ASSUME NEW id \in JobIds, jobs'[id] # None
        PROVE  Unplayed(<<jobs'[id], id[2]>>)
    BY <1>1, <1>3, <1>4, <1>5, <2>2 DEF StoredOnce
  <2> QED BY <1>1, <1>2, <2>1, <2>2 DEF StoredOnce, Unplayed, PlayedAtMostOnce
<1>8. Unlisted(r)' = Unlisted(r)
  BY <1>2 DEF Unlisted
<1>9. ASSUME NEW b \in adds'[r]
      PROVE  b.id[2] \in conf /\ jobs'[b.id] = None /\ Unplayed(<<b.day, b.id[2]>>)
  <2>1. b \in adds[r] /\ b # a
    BY <1>3
  <2>2. b \in [id : JobIds, day : Days] /\ b.id \in JobIds
    BY <1>1, <2>1, AddTypes
  <2>3. b.id # a.id
    <3>1. b.day = DateOf(b.id[1], now[r])
      BY <1>1, <2>1 DEF Holds
    <3> QED BY <1>3, <2>1, <2>2, <3>1
  <2> QED BY <1>1, <1>5, <2>1, <2>2, <2>3 DEF StoreOf
<1>10. ASSUME NEW s \in conf, NEW tag \in Tags \ Unlisted(r),
              Due(DateOf(tag, now[r]), s) > clock, Due(DateOf(tag, now[r]), s) > now[r]
       PROVE  jobs'[<<tag, s>>] = DateOf(tag, now[r]) \/ \E b \in adds'[r] : b.id = <<tag, s>>
  <2>1. CASE a.id = <<tag, s>>
    BY <1>3, <2>1
  <2>2. CASE a.id # <<tag, s>>
    <3>1. <<tag, s>> \in JobIds
      BY <1>1, <1>10, ScheduleAssumption DEF StoreTypeOK, JobIds
    <3>2. jobs[<<tag, s>>] = DateOf(tag, now[r]) \/ \E b \in adds[r] : b.id = <<tag, s>>
      BY <1>1, <1>2, <1>10 DEF StoreOf
    <3> QED BY <1>3, <1>5, <2>2, <3>1, <3>2
  <2> QED BY <2>1, <2>2
<1>11. StoreOf(r)'
  <2>1. rpc[r] # "remove"
    BY <1>2 DEF Later
  <2> QED BY <1>1, <1>2, <1>6, <1>8, <1>9, <1>10, <2>1 DEF StoreOf, Unplayed
<1> QED BY <1>2, <1>7, <1>11 DEF Quiet, Later

LEMMA LoneTodayDone ==
    ASSUME TypeOK, PhaseInv, LoneInv, alone, NEW r \in Threads, TodayDone(r)
    PROVE  StoredOnce' /\ StoreOf(r)' /\ ~Quiet'
<1>1. ThreadTypeOK /\ StoredOnce /\ StoreOf(r)
  BY DEF TypeOK, LoneInv
<1>2. /\ rpc[r] = "add today" /\ rpc'[r] = "tomorrow"
      /\ UNCHANGED <<clock, conf, jobs, played, now, adds, ahead>>
  BY <1>1 DEF TodayDone, ThreadTypeOK
<1>3. StoredOnce'
  BY <1>1, <1>2 DEF StoredOnce, Unplayed, PlayedAtMostOnce
<1>4. Unlisted(r)' = Unlisted(r)
  BY <1>2 DEF Unlisted
<1>5. StoreOf(r)'
  BY <1>1, <1>2, <1>4 DEF StoreOf, Unplayed, Later
<1> QED BY <1>2, <1>3, <1>5 DEF Quiet

LEMMA LoneReturns ==
    ASSUME TypeOK, PhaseInv, LoneInv, alone, NEW r \in Threads, RescheduleReturns(r)
    PROVE  StoredOnce' /\ StoreOf(r)' /\ StoreAtRest'
<1>1. ThreadTypeOK /\ StoreTypeOK /\ Holds(r) /\ StoredOnce /\ StoreOf(r)
  BY DEF TypeOK, PhaseInv, LoneInv
<1>2. /\ rpc[r] = "add tomorrow" /\ rpc'[r] = "idle" /\ adds[r] = {} /\ adds'[r] = {}
      /\ asof' = now[r] /\ UNCHANGED <<clock, conf, jobs, played, ahead>>
  BY <1>1 DEF RescheduleReturns, Leave, ThreadTypeOK
<1>3. StoredOnce'
  BY <1>1, <1>2 DEF StoredOnce, Unplayed, PlayedAtMostOnce
<1>4. StoreOf(r)'
  BY <1>2 DEF StoreOf, Later, Unlisted
<1>5. rpc[r] \in Later /\ Unlisted(r) = {}
  BY <1>2 DEF Later, Unlisted
<1>6. \A id \in JobIds : jobs[id] # None => id[2] \in conf /\ jobs[id] = DateOf(id[1], now[r])
  BY <1>1, <1>5 DEF StoreOf
<1>7. ASSUME NEW s \in conf, NEW tag \in Tags,
             Due(DateOf(tag, now[r]), s) > clock, Due(DateOf(tag, now[r]), s) > now[r]
      PROVE  jobs[<<tag, s>>] = DateOf(tag, now[r])
  BY <1>1, <1>2, <1>5, <1>7 DEF StoreOf
<1> QED BY <1>2, <1>3, <1>4, <1>6, <1>7 DEF StoreAtRest

\* The others are idle while one runs alone.
LEMMA LoneMove ==
    ASSUME ClocksAreClose, TypeOK, PhaseInv, PhaseInv', LoneInv, NEW r \in Threads, RescheduleStep(r)
    PROVE  LoneInv'
<1> SUFFICES ASSUME alone'
             PROVE  OneRuns' /\ StoredOnce' /\ (\A x \in Threads : StoreOf(x)') /\ StoreAtRest'
  BY DEF LoneInv
<1>1. alone /\ rpc[r] # "idle"
  BY DEF RescheduleStep, ListJobs, RemoveJob, ReadNow, ListDay, AddJob, TodayDone, RescheduleReturns
<1>2. ThreadTypeOK /\ OneRuns
  BY <1>1 DEF TypeOK, LoneInv
<1>3. \A x \in Threads \ {r} : rpc[x] = "idle" /\ rpc'[x] = "idle"
  BY <1>1, <1>2, OthersHold DEF OneRuns, PhaseInv
<1>4. OneRuns'
  BY <1>3 DEF OneRuns
<1>5. \A x \in Threads \ {r} : StoreOf(x)'
  <2>1. ASSUME NEW x \in Threads \ {r} PROVE StoreOf(x)'
    <3>1. Holds(x)' /\ rpc'[x] = "idle"
      BY <1>3 DEF PhaseInv
    <3>2. adds'[x] = {} /\ Unlisted(x)' = {}
      BY <3>1 DEF Holds, Unlisted
    <3> QED BY <3>1, <3>2 DEF StoreOf, Later
  <2> QED BY <2>1
<1>6. StoredOnce' /\ StoreOf(r)' /\ (StoreAtRest' \/ ~Quiet')
  BY <1>1, LoneListJobs, LoneRemoveJob, LoneReadNow, LoneListDay, LoneAddJob, LoneTodayDone, LoneReturns
     DEF RescheduleStep
<1> QED BY <1>4, <1>5, <1>6 DEF StoreAtRest

LEMMA LoneEnter ==
    ASSUME TypeOK, PhaseInv, LoneInv, NEW r \in Threads, Enter(r),
           UNCHANGED <<clock, jobs, played, ahead>>
    PROVE  LoneInv'
<1> SUFFICES ASSUME alone'
             PROVE  OneRuns' /\ StoredOnce' /\ (\A x \in Threads : StoreOf(x)') /\ StoreAtRest'
  BY DEF LoneInv
<1>1. alone /\ Quiet
  BY DEF Enter
<1>2. ThreadTypeOK /\ StoredOnce /\ \A x \in Threads : Holds(x)
  BY <1>1 DEF TypeOK, LoneInv, PhaseInv
<1>3. rpc' = [rpc EXCEPT ![r] = "list"]
  BY DEF Enter
<1>4. OneRuns' /\ ~Quiet'
  BY <1>1, <1>2, <1>3 DEF OneRuns, Quiet, ThreadTypeOK
<1>5. StoredOnce'
  BY <1>2 DEF StoredOnce, Unplayed, PlayedAtMostOnce
<1>6. ASSUME NEW x \in Threads PROVE StoreOf(x)'
  <2>1. rpc'[x] \in {"idle", "list"} /\ adds'[x] = {}
    BY <1>1, <1>2, <1>3 DEF Enter, Quiet, ThreadTypeOK, Holds
  <2> QED BY <2>1 DEF StoreOf, Later, Unlisted
<1> QED BY <1>4, <1>5, <1>6 DEF StoreAtRest

\* What FireJob takes from the store.
LEMMA Fired ==
    ASSUME TypeOK, NEW id \in JobIds, FireJob(id)
    PROVE  /\ UNCHANGED <<clock, conf, rpc, now, left, adds, asof, up, alone, spoiled, excused, ahead>>
           /\ jobs[id] \in Days /\ id[2] \in Slots /\ Due(jobs[id], id[2]) <= clock
           /\ \A x \in JobIds : jobs'[x] = IF x = id THEN None ELSE jobs[x]
           /\ \A p \in Days \X Slots : played'[p] # played[p] =>
                 p = <<jobs[id], id[2]>> /\ played'[p] = IF played[p] = 0 THEN 1 ELSE 2
<1>1. jobs \in [JobIds -> Days \cup {None}] /\ played \in [Days \X Slots -> 0 .. 2] /\ clock \in Nat
  BY DEF TypeOK, StoreTypeOK, HistoryTypeOK
<1>2. jobs[id] \in Days /\ id[2] \in Slots
  BY <1>1 DEF FireJob, JobIds
<1>3. Due(jobs[id], id[2]) \in Nat /\ clock - Due(jobs[id], id[2]) >= 0
  BY <1>2, DueIsNat DEF FireJob
<1>4. Due(jobs[id], id[2]) <= clock
  BY <1>1, <1>3
<1>5. \A x \in JobIds : jobs'[x] = IF x = id THEN None ELSE jobs[x]
  BY <1>1 DEF FireJob
<1>6. \/ played' = played
      \/ played' = [played EXCEPT ![<<jobs[id], id[2]>>] =
                        IF played[<<jobs[id], id[2]>>] = 0 THEN 1 ELSE 2]
  BY DEF FireJob
<1>7. ASSUME NEW p \in Days \X Slots, played'[p] # played[p]
      PROVE  p = <<jobs[id], id[2]>> /\ played'[p] = IF played[p] = 0 THEN 1 ELSE 2
  BY <1>1, <1>2, <1>6, <1>7
<1>8. UNCHANGED <<clock, conf, rpc, now, left, adds, asof, up, alone, spoiled, excused, ahead>>
  BY DEF FireJob, reVars
<1> QED BY <1>2, <1>4, <1>5, <1>7, <1>8

LEMMA FireKeepsStore ==
    ASSUME TypeOK, StoredOnce, NEW id \in JobIds, FireJob(id)
    PROVE  StoredOnce'
<1>1. /\ UNCHANGED <<clock, ahead>> /\ jobs[id] \in Days /\ id[2] \in Slots /\ Due(jobs[id], id[2]) <= clock
      /\ \A x \in JobIds : jobs'[x] = IF x = id THEN None ELSE jobs[x]
      /\ \A p \in Days \X Slots : played'[p] # played[p] =>
            p = <<jobs[id], id[2]>> /\ played'[p] = IF played[p] = 0 THEN 1 ELSE 2
  BY Fired
<1>2. jobs \in [JobIds -> Days \cup {None}] /\ None \notin Days
  BY DEF TypeOK, StoreTypeOK, Days, None
<1>3. Unplayed(<<jobs[id], id[2]>>)
  BY <1>1, <1>2 DEF StoredOnce
<1>4. \A x, other \in JobIds : jobs'[x] # None /\ jobs'[x] = jobs'[other] /\ x[2] = other[2] => x = other
  BY <1>1 DEF StoredOnce
<1>5. ASSUME NEW x \in JobIds, jobs'[x] # None PROVE Unplayed(<<jobs[x], x[2]>>)'
  <2>1. x # id /\ jobs'[x] = jobs[x] /\ jobs[x] # None
    BY <1>1, <1>5
  <2>2. x[2] \in Slots /\ jobs[x] \in Days
    BY <1>2, <2>1 DEF JobIds
  <2>3. <<jobs[x], x[2]>> # <<jobs[id], id[2]>>
    BY <1>1, <2>1 DEF StoredOnce
  <2>4. played'[<<jobs[x], x[2]>>] = played[<<jobs[x], x[2]>>]
    BY <1>1, <2>2, <2>3
  <2> QED BY <1>1, <2>1, <2>4 DEF StoredOnce, Unplayed
<1>6. ASSUME NEW d \in Days, NEW s \in Slots, played'[<<d, s>>] > 0 PROVE Due(d, s) <= clock
  <2>1. CASE played'[<<d, s>>] = played[<<d, s>>]
    BY <1>6, <2>1 DEF StoredOnce
  <2>2. CASE played'[<<d, s>>] # played[<<d, s>>]
    <3>1. <<d, s>> = <<jobs[id], id[2]>>
      BY <1>1, <2>2
    <3> QED BY <1>1, <3>1
  <2> QED BY <2>1, <2>2
<1>7. ASSUME NEW p \in Days \X Slots PROVE played'[p] <= 1 \/ p \in ahead
  BY <1>1, <1>3 DEF StoredOnce, Unplayed, PlayedAtMostOnce
<1> QED BY <1>1, <1>4, <1>5, <1>6, <1>7 DEF StoredOnce, Unplayed, PlayedAtMostOnce

LEMMA FireKeepsKnowledge ==
    ASSUME TypeOK, StoredOnce, NEW r \in Threads, Holds(r), StoreOf(r), NEW id \in JobIds, FireJob(id)
    PROVE  StoreOf(r)'
<1>1. /\ UNCHANGED <<clock, conf, rpc, now, left, adds, ahead>>
      /\ jobs[id] \in Days /\ id[2] \in Slots /\ Due(jobs[id], id[2]) <= clock
      /\ \A x \in JobIds : jobs'[x] = IF x = id THEN None ELSE jobs[x]
      /\ \A p \in Days \X Slots : played'[p] # played[p] =>
            p = <<jobs[id], id[2]>> /\ played'[p] = IF played[p] = 0 THEN 1 ELSE 2
  BY Fired
<1>2. ThreadTypeOK /\ None \notin Days /\ clock \in Nat
  BY DEF TypeOK, StoreTypeOK, Days, None
<1>3. Unlisted(r)' = Unlisted(r) /\ Unlisted(r) \subseteq Tags /\ (Unlisted(r) # {} => rpc[r] \in Later)
  BY <1>1 DEF Unlisted, Later, Tags
<1>4. \A x \in JobIds : jobs'[x] # None => jobs'[x] = jobs[x] /\ x # id
  BY <1>1
<1>5. ASSUME rpc[r] \in Later
      PROVE  jobs[id] = DateOf(id[1], now[r]) /\ id[1] \in Tags \ Unlisted(r) /\ id = <<id[1], id[2]>>
  BY <1>1, <1>2, <1>5 DEF StoreOf, JobIds
<1>6. ASSUME NEW tag \in Unlisted(r), NEW s \in Slots
      PROVE  Unplayed(<<DateOf(tag, now[r]), s>>)' \/ Due(DateOf(tag, now[r]), s) <= now[r]
  <2>1. rpc[r] \in Later /\ DayOf(now[r]) \in 1 .. LastDay + 1
    BY <1>3 DEF Holds
  <2>2. DateOf(tag, now[r]) # jobs[id]
    BY <1>3, <1>5, <2>1, DatesAreTwo
  <2>3. DateOf(tag, now[r]) \in Days
    BY <2>1, DatesOfNow
  <2>4. played'[<<DateOf(tag, now[r]), s>>] = played[<<DateOf(tag, now[r]), s>>]
    BY <1>1, <2>2, <2>3
  <2> QED BY <1>1, <2>4 DEF StoreOf, Unplayed
<1>7. ASSUME NEW a \in adds[r]
      PROVE  a.id[2] \in conf /\ jobs'[a.id] = None /\ Unplayed(<<a.day, a.id[2]>>)'
  <2>1. a \in [id : JobIds, day : Days] /\ a.id \in JobIds /\ a.day \in Days
    BY <1>2, AddTypes
  <2>2. a.id[2] \in conf /\ jobs[a.id] = None /\ Unplayed(<<a.day, a.id[2]>>)
    BY DEF StoreOf
  <2>3. rpc[r] \in Later /\ DayOf(now[r]) \in 1 .. LastDay + 1 /\ a.day = DateOf(a.id[1], now[r])
    BY DEF Holds, Later
  <2>4. a.id # id
    BY <1>1, <1>2, <2>2
  <2>5. <<a.day, a.id[2]>> # <<jobs[id], id[2]>>
    <3>1. a.id = <<a.id[1], a.id[2]>> /\ a.id[1] \in Tags
      BY <2>1 DEF JobIds
    <3> QED BY <1>5, <2>3, <2>4, <3>1, DatesAreTwo
  <2>6. <<a.day, a.id[2]>> \in Days \X Slots
    BY <2>1 DEF JobIds
  <2> QED BY <1>1, <2>1, <2>2, <2>5, <2>6 DEF Unplayed
<1>8. ASSUME rpc[r] \in Later, NEW s \in conf, NEW tag \in Tags \ Unlisted(r),
             Due(DateOf(tag, now[r]), s) > clock, Due(DateOf(tag, now[r]), s) > now[r]
      PROVE  jobs'[<<tag, s>>] = DateOf(tag, now[r]) \/ \E a \in adds[r] : a.id = <<tag, s>>
  <2>1. s \in Slots /\ <<tag, s>> \in JobIds
    BY ScheduleAssumption DEF TypeOK, StoreTypeOK, JobIds
  <2>2. id = <<tag, s>> => Due(DateOf(tag, now[r]), s) <= clock
    BY <1>1, <1>5, <1>8
  <2>3. Due(DateOf(tag, now[r]), s) \in Nat
    BY <1>8, <2>1, DatesOfNow, DueIsNat
  <2>4. id # <<tag, s>>
    BY <1>2, <1>8, <2>2, <2>3
  <2> QED BY <1>1, <1>8, <2>1, <2>4 DEF StoreOf
<1> QED BY <1>1, <1>3, <1>4, <1>6, <1>7, <1>8 DEF StoreOf

LEMMA FireKeepsRest ==
    ASSUME TypeOK, StoreAtRest, NEW id \in JobIds, FireJob(id)
    PROVE  StoreAtRest'
<1>1. /\ UNCHANGED <<clock, conf, rpc, asof, up, spoiled>>
      /\ jobs[id] \in Days /\ Due(jobs[id], id[2]) <= clock
      /\ \A x \in JobIds : jobs'[x] = IF x = id THEN None ELSE jobs[x]
  BY Fired
<1> SUFFICES ASSUME up, Quiet, ~spoiled
             PROVE  /\ \A x \in JobIds : jobs'[x] # None => x[2] \in conf /\ jobs'[x] = DateOf(x[1], asof)
                    /\ \A s \in conf, tag \in Tags :
                          Due(DateOf(tag, asof), s) > clock /\ Due(DateOf(tag, asof), s) > asof =>
                              jobs'[<<tag, s>>] = DateOf(tag, asof)
  BY <1>1 DEF StoreAtRest, Quiet
<1>2. \A x \in JobIds : jobs'[x] # None => x[2] \in conf /\ jobs'[x] = DateOf(x[1], asof)
  BY <1>1 DEF StoreAtRest
<1>3. ASSUME NEW s \in conf, NEW tag \in Tags,
             Due(DateOf(tag, asof), s) > clock, Due(DateOf(tag, asof), s) > asof
      PROVE  jobs'[<<tag, s>>] = DateOf(tag, asof)
  <2>1. s \in Slots /\ <<tag, s>> \in JobIds
    BY ScheduleAssumption DEF TypeOK, StoreTypeOK, JobIds
  <2>2. jobs[<<tag, s>>] = DateOf(tag, asof)
    BY <1>3 DEF StoreAtRest
  <2>3. id # <<tag, s>>
    <3>1. jobs[id] \in Days /\ clock \in Nat
      BY <1>1 DEF TypeOK, StoreTypeOK
    <3>2. Due(jobs[id], s) \in Nat
      BY <2>1, <3>1, DueIsNat
    <3> QED BY <1>1, <1>3, <2>2, <3>1, <3>2
  <2> QED BY <1>1, <2>1, <2>2, <2>3
<1> QED BY <1>2, <1>3

LEMMA LoneFire ==
    ASSUME TypeOK, PhaseInv, LoneInv, NEW id \in JobIds, FireJob(id)
    PROVE  LoneInv'
<1> SUFFICES ASSUME alone
             PROVE  OneRuns' /\ StoredOnce' /\ (\A x \in Threads : StoreOf(x)') /\ StoreAtRest'
  BY Fired DEF LoneInv
<1>1. OneRuns'
  <2>1. rpc' = rpc
    BY Fired
  <2> QED BY <2>1 DEF LoneInv, OneRuns
<1> QED BY <1>1, FireKeepsStore, FireKeepsKnowledge, FireKeepsRest DEF LoneInv, PhaseInv

LEMMA LoneTick ==
    ASSUME TypeOK, PhaseInv, LoneInv, Tick
    PROVE  LoneInv'
<1> SUFFICES ASSUME alone
             PROVE  OneRuns' /\ StoredOnce' /\ (\A x \in Threads : StoreOf(x)') /\ StoreAtRest'
  BY DEF LoneInv, Tick
<1>1. /\ clock \in Nat /\ clock' = clock + 1
      /\ UNCHANGED <<conf, jobs, up, rpc, now, left, adds, played, asof, spoiled, ahead>>
  BY DEF TypeOK, StoreTypeOK, Tick, reVars
<1>2. \A d \in Days, s \in Slots : Due(d, s) \in Nat
  BY DueIsNat
<1>3. OneRuns'
  BY <1>1 DEF LoneInv, OneRuns
<1>4. StoredOnce'
  BY <1>1, <1>2 DEF LoneInv, StoredOnce, Unplayed, PlayedAtMostOnce
<1>5. ASSUME NEW r \in Threads PROVE StoreOf(r)'
  <2>1. StoreOf(r) /\ Unlisted(r)' = Unlisted(r)
    BY <1>1 DEF LoneInv, Unlisted
  <2>2. \A s \in conf, tag \in Tags : rpc[r] \in Later => Due(DateOf(tag, now[r]), s) \in Nat
    BY DatesOfNow, DueIsNat, ScheduleAssumption DEF PhaseInv, TypeOK, StoreTypeOK
  <2> QED BY <1>1, <2>1, <2>2 DEF StoreOf, Unplayed
<1>6. StoreAtRest'
  <2> SUFFICES ASSUME up, Quiet, ~spoiled
               PROVE  \A s \in conf, tag \in Tags :
                          Due(DateOf(tag, asof), s) > clock + 1 /\ Due(DateOf(tag, asof), s) > asof =>
                              jobs[<<tag, s>>] = DateOf(tag, asof)
    BY <1>1 DEF LoneInv, StoreAtRest, Quiet
  <2>1. ASSUME NEW s \in conf, NEW tag \in Tags PROVE Due(DateOf(tag, asof), s) \in Int
    <3>1. DayOf(asof) \in Nat /\ s \in Slots
      BY DayIsNat, ScheduleAssumption DEF TypeOK, HistoryTypeOK, StoreTypeOK
    <3>2. DateOf(tag, asof) \in Nat
      BY <3>1 DEF DateOf
    <3> QED BY <3>1, <3>2, ScheduleAssumption DEF Due
  <2> QED BY <1>1, <2>1 DEF LoneInv, StoreAtRest
<1> QED BY <1>3, <1>4, <1>5, <1>6

LEMMA LoneStep ==
    ASSUME ClocksAreClose, TypeOK, PhaseInv, PhaseInv', LoneInv, [Next]_vars
    PROVE  LoneInv'
<1>1. ASSUME Save PROVE LoneInv'
  BY <1>1, LoneEnter DEF Save, Threads
<1>2. ASSUME FireRefresh, Enter(Daily) PROVE LoneInv'
  BY <1>2, LoneEnter DEF FireRefresh, Threads
<1>3. ASSUME UNCHANGED <<clock, conf, jobs, up, reVars, played, asof, alone, spoiled, ahead>>
      PROVE  LoneInv'
  <2>1. \A r \in Threads : StoreOf(r)' = StoreOf(r)
    BY <1>3 DEF StoreOf, Unplayed, Unlisted, reVars
  <2>2. StoredOnce' = StoredOnce /\ StoreAtRest' = StoreAtRest /\ OneRuns' = OneRuns
    BY <1>3 DEF StoredOnce, Unplayed, PlayedAtMostOnce, StoreAtRest, Quiet, OneRuns, reVars
  <2> QED BY <1>3, <2>1, <2>2 DEF LoneInv
<1>4. ASSUME FireRefresh, ~Enter(Daily) PROVE LoneInv'
  BY <1>3, <1>4 DEF FireRefresh
<1>5. ASSUME MissRefresh \/ UNCHANGED vars PROVE LoneInv'
  BY <1>3, <1>5 DEF MissRefresh, vars
<1> QED BY <1>1, <1>2, <1>4, <1>5, LoneMove, LoneFire, LoneTick DEF Next

LEMMA InitLone ==
    ASSUME Init
    PROVE  LoneInv
<1>1. OneRuns
  BY DEF Init, OneRuns, Threads
<1>2. StoredOnce
  BY DEF Init, StoredOnce, Unplayed, PlayedAtMostOnce
<1>3. \A r \in Threads : StoreOf(r)
  BY DEF Init, StoreOf, Later, Unlisted
<1>4. StoreAtRest
  BY DEF Init, StoreAtRest
<1> QED BY <1>1, <1>2, <1>3, <1>4 DEF LoneInv

-----------------------------------------------------------------------------
LEMMA LoneInductive ==
    ASSUME ClocksAreClose
    PROVE  Spec => [](TypeOK /\ PhaseInv /\ LoneInv)
<1> DEFINE IInv == TypeOK /\ PhaseInv /\ LoneInv
<1>1. Init => IInv
  BY InitTypes, InitLone
<1>2. IInv /\ [Next]_vars => IInv'
  BY TypeStep, PhaseStep, LoneStep
<1> QED BY <1>1, <1>2, PTL DEF Spec

\* The variables of the schedule stay in their sets: every date a job or a list
\* of jobs names is one of the days that the clock, or the corrected time, reach.
THEOREM TypeCorrect ==
    ASSUME ClocksAreClose
    PROVE  Spec => []TypeOK
BY LoneInductive, PTL

\* While no two rebuilds have overlapped, no page is started twice for a date,
\* whether the host's clock is ahead or behind, but for one whose time lay between
\* the corrected time that a rebuild read and a clock ahead of it: the job store
\* holds a page under one id, never another that was played, and what a rebuild
\* lists lies after the time it read.
THEOREM ReplaysNothing ==
    ASSUME ClocksAreClose
    PROVE  Spec => []LoneRescheduleReplaysNothing
<1>1. LoneInv => LoneRescheduleReplaysNothing
  BY DEF LoneInv, StoredOnce, LoneRescheduleReplaysNothing
<1> QED BY <1>1, LoneInductive, PTL

\* While no two rebuilds have overlapped, the store at rest holds a future page
\* of the two days of the last rebuild exactly if the configuration enables it.
THEOREM StoreMatches ==
    ASSUME ClocksAreClose
    PROVE  Spec => []LoneRescheduleMatches
<1>1. ASSUME TypeOK, PhaseInv, LoneInv PROVE LoneRescheduleMatches
  <2> SUFFICES ASSUME alone, up, Quiet, ~spoiled, NEW s \in Slots, NEW tag \in Tags,
                      Due(DateOf(tag, asof), s) > clock, Due(DateOf(tag, asof), s) > asof
               PROVE  s \in conf <=> \E id \in JobIds : id[2] = s /\ jobs[id] = DateOf(tag, asof)
    <3>1. DateOf("today", asof) = DayOf(asof) /\ DateOf("tomorrow", asof) = DayOf(asof) + 1
      <4>1. DayOf(asof) \in Nat
        BY DayIsNat, <1>1 DEF TypeOK, HistoryTypeOK
      <4> QED BY <4>1 DEF DateOf
    <3>2. \A d \in {DayOf(asof), DayOf(asof) + 1} : \E tag \in Tags : d = DateOf(tag, asof)
      BY <3>1 DEF Tags
    <3> QED BY <3>2 DEF LoneRescheduleMatches, StoreMatchesConfig
  <2>1. StoreAtRest
    BY <1>1 DEF LoneInv
  <2>2. s \in conf => <<tag, s>> \in JobIds /\ jobs[<<tag, s>>] = DateOf(tag, asof)
    BY <2>1 DEF StoreAtRest, JobIds
  <2>3. ASSUME NEW id \in JobIds, id[2] = s, jobs[id] = DateOf(tag, asof) PROVE s \in conf
    <3>1. DateOf(tag, asof) \in Days
      BY <1>1, DaysAhead DEF PhaseInv, DateOf
    <3>2. None \notin Days
      BY DEF Days, None
    <3> QED BY <2>1, <2>3, <3>1, <3>2 DEF StoreAtRest
  <2> QED BY <2>2, <2>3
<1> QED BY <1>1, LoneInductive, PTL

-----------------------------------------------------------------------------
(* No page is lost                                                         *)

LEMMA PageDues ==
    ASSUME NEW p \in Pages
    PROVE  /\ p[1] \in Days /\ p[1] \in Nat \ {0} /\ p[2] \in Slots /\ p = <<p[1], p[2]>>
           /\ Due(p[1], p[2]) \in Nat
BY DueIsNat DEF Pages

\* An excuse lasts.
LEMMA ExcusedGrows ==
    ASSUME [Next]_vars
    PROVE  excused \subseteq excused'
BY DEF Next, RescheduleStep, Save, ListJobs, RemoveJob, ReadNow, ListDay, AddJob, TodayDone,
   RescheduleReturns, FireJob, FireRefresh, MissRefresh, Tick, vars

\* How the calls of a rebuild read and move on.
LEMMA ReschedulePath ==
    ASSUME ThreadTypeOK, PhaseInv, NEW r \in Threads, RescheduleStep(r)
    PROVE  /\ UNCHANGED <<clock, conf, refresh, misses, offset>> /\ excused \subseteq excused'
           /\ \A x \in Threads \ {r} : /\ rpc'[x] = rpc[x] /\ now'[x] = now[x]
                                       /\ since'[x] = since[x] /\ adds'[x] = adds[x]
           /\ rpc[r] # "idle" /\ (rpc'[r] # "idle" => since'[r] = since[r])
           /\ \/ ListJobs(r) /\ rpc[r] = "list" /\ rpc'[r] = "remove" /\ asof' = asof
              \/ /\ rpc[r] = "remove" /\ rpc'[r] \in {"idle", "remove"} /\ asof' = asof
                 /\ rpc'[r] = "idle" => spoiled'
              \/ ReadNow(r) /\ rpc[r] = "remove" /\ rpc'[r] = "today" /\ asof' = asof
              \/ /\ rpc[r] \in Later /\ rpc'[r] \in Later \ {"today"} /\ now'[r] = now[r] /\ asof' = asof
                 /\ UNCHANGED <<spoiled, excused>>
              \/ RescheduleReturns(r) /\ rpc[r] \in Later /\ rpc'[r] = "idle" /\ asof' = now[r]
<1>1. /\ UNCHANGED <<clock, conf, refresh, misses, offset>> /\ excused \subseteq excused'
      /\ rpc[r] # "idle"
  BY DEF RescheduleStep, ListJobs, RemoveJob, ReadNow, ListDay, AddJob, TodayDone, RescheduleReturns
<1>2. \A x \in Threads \ {r} : /\ rpc'[x] = rpc[x] /\ now'[x] = now[x]
                               /\ since'[x] = since[x] /\ adds'[x] = adds[x]
  BY OthersHold DEF PhaseInv
<1>3. ASSUME ListJobs(r)
      PROVE  rpc[r] = "list" /\ rpc'[r] = "remove" /\ asof' = asof /\ since'[r] = since[r]
  BY <1>3 DEF ListJobs, ThreadTypeOK
<1>4. ASSUME RemoveJob(r)
      PROVE  /\ rpc[r] = "remove" /\ rpc'[r] \in {"idle", "remove"} /\ asof' = asof
             /\ rpc'[r] = "idle" => spoiled'
             /\ rpc'[r] # "idle" => since'[r] = since[r]
  BY <1>4 DEF RemoveJob, Leave, ThreadTypeOK
<1>5. ASSUME ReadNow(r)
      PROVE  rpc[r] = "remove" /\ rpc'[r] = "today" /\ asof' = asof /\ since'[r] = since[r]
  BY <1>5 DEF ReadNow, ThreadTypeOK
<1>6. ASSUME ListDay(r) \/ AddJob(r) \/ TodayDone(r)
      PROVE  /\ rpc[r] \in Later /\ rpc'[r] \in Later \ {"today"} /\ now'[r] = now[r] /\ asof' = asof
             /\ since'[r] = since[r] /\ UNCHANGED <<spoiled, excused>>
  BY <1>6 DEF ListDay, AddJob, TodayDone, ThreadTypeOK, Later
<1>7. ASSUME RescheduleReturns(r)
      PROVE  rpc[r] \in Later /\ rpc'[r] = "idle" /\ asof' = now[r]
  BY <1>7 DEF RescheduleReturns, Leave, ThreadTypeOK, Later
<1> QED BY <1>1, <1>2, <1>3, <1>4, <1>5, <1>6, <1>7 DEF RescheduleStep

\* And a thread that enters.
LEMMA EnterPath ==
    ASSUME ThreadTypeOK, NEW r \in Threads, Enter(r)
    PROVE  /\ \A x \in Threads \ {r} : /\ rpc'[x] = rpc[x] /\ now'[x] = now[x]
                                       /\ since'[x] = since[x] /\ adds'[x] = adds[x]
           /\ rpc[r] = "idle" /\ rpc'[r] = "list" /\ since'[r] = clock
BY DEF Enter, ThreadTypeOK

LEMMA ExcuseStep ==
    ASSUME ClocksAreClose, TypeOK, PhaseInv, ExcuseInv, [Next]_vars
    PROVE  ExcuseInv'
<1>0. ThreadTypeOK /\ StoreTypeOK /\ clock \in Nat /\ excused \subseteq excused'
  BY ExcusedGrows DEF TypeOK, StoreTypeOK
<1>1. \A p \in Pages : Due(p[1], p[2]) \in Nat
  BY PageDues
<1>2. ASSUME NEW r \in Threads, RescheduleStep(r) PROVE ExcuseInv'
  <2>1. \A x \in Threads : rpc'[x] \notin {"idle", "list"} => DueAt(clock) \subseteq excused'
    <3>1. ListJobs(r) => DueAt(clock) \subseteq excused'
      BY DEF ListJobs
    <3> QED BY <1>0, <1>2, <3>1, ReschedulePath DEF ExcuseInv, Later
  <2>2. ASSUME NEW x \in Threads, NEW p \in Pages, rpc'[x] \in Later,
               clock < Due(p[1], p[2]), Due(p[1], p[2]) <= now'[x]
        PROVE  p \in excused'
    <3>1. CASE ReadNow(r) /\ x = r
      <4>1. now'[r] = clock + offset /\ offset \in Int
        BY <1>0, <3>1, OffsetIsSmall DEF ReadNow, ThreadTypeOK
      <4>2. Due(p[1], p[2]) \in clock + 1 .. clock + offset
        BY <1>0, <1>1, <2>2, <3>1, <4>1
      <4>3. p \in DueAt(Due(p[1], p[2]))
        BY DEF DueAt, Pages
      <4> QED BY <3>1, <4>2, <4>3 DEF ReadNow
    <3>2. CASE ~(ReadNow(r) /\ x = r)
      <4>1. rpc[x] \in Later /\ now'[x] = now[x]
        BY <1>0, <1>2, <2>2, <3>2, ReschedulePath DEF Later
      <4> QED BY <1>0, <2>2, <4>1 DEF ExcuseInv
    <3> QED BY <3>1, <3>2
  <2>3. ASSUME NEW p \in Pages, clock < Due(p[1], p[2]), Due(p[1], p[2]) <= asof'
        PROVE  p \in excused'
    BY <1>0, <1>2, <2>3, ReschedulePath DEF ExcuseInv
  <2>4. clock' = clock
    BY <1>0, <1>2, ReschedulePath
  <2> QED BY <2>1, <2>2, <2>3, <2>4 DEF ExcuseInv, DueAt
<1>3. ASSUME NEW r \in Threads, Enter(r), UNCHANGED <<clock, asof>> PROVE ExcuseInv'
  <2>1. \A x \in Threads : rpc'[x] \notin {"idle", "list"} => rpc'[x] = rpc[x] /\ now'[x] = now[x]
    BY <1>0, <1>3, EnterPath
  <2> QED BY <1>0, <1>3, <2>1 DEF ExcuseInv, DueAt, Later
<1>4. ASSUME UNCHANGED <<clock, rpc, now, asof>> PROVE ExcuseInv'
  BY <1>0, <1>4 DEF ExcuseInv, DueAt
<1>5. ASSUME Tick PROVE ExcuseInv'
  <2>1. clock' = clock + 1 /\ UNCHANGED <<rpc, now, asof>>
    BY <1>5 DEF Tick, reVars
  <2>2. ~Quiet => DueAt(clock') \subseteq excused'
    BY <1>5 DEF Tick
  <2>3. ASSUME NEW p \in Pages, clock' < Due(p[1], p[2]) PROVE clock < Due(p[1], p[2])
    BY <1>0, <1>1, <2>1, <2>3
  <2> QED BY <1>0, <2>1, <2>2, <2>3 DEF ExcuseInv, DueAt, Quiet
<1>6. ASSUME FireRefresh PROVE ExcuseInv'
  BY <1>3, <1>4, <1>6 DEF FireRefresh, reVars, Threads
<1> QED
  BY <1>2, <1>3, <1>4, <1>5, <1>6 DEF Next, Save, Threads, FireJob, MissRefresh, reVars, vars

LEMMA DayOfRefresh ==
    ASSUME NEW d \in Int
    PROVE  DayOf(d * DayLen + RefreshAt) = d
<1> DEFINE t == d * DayLen + RefreshAt
<1>1. t \in Int /\ d * DayLen <= t /\ t < d * DayLen + DayLen
  BY Parameters
<1> HIDE DEF t
<1>2. DayOf(t) \in Int /\ DayOf(t) * DayLen <= t /\ t < DayOf(t) * DayLen + DayLen
  BY <1>1, DayBounds
<1>3. DayOf(t) * DayLen < d * DayLen + DayLen /\ d * DayLen < DayOf(t) * DayLen + DayLen
  BY <1>1, <1>2, Parameters
<1>4. DayOf(t) <= d /\ d <= DayOf(t)
  BY <1>2, <1>3, DayIsLower
<1> QED BY <1>2, <1>4 DEF t

LEMMA InitRefresh ==
    ASSUME Init
    PROVE  RefreshInv
<1> DEFINE d == DayOf(clock)
<1>1. clock \in Nat /\ misses = 0
  BY Parameters DEF Init
<1>2. /\ d \in Int /\ d * DayLen \in Int /\ (d - 1) * DayLen = d * DayLen - DayLen
      /\ d * DayLen <= clock /\ clock < d * DayLen + DayLen
  BY <1>1, DayBounds, Parameters
<1>3. LastRefresh = refresh - DayLen
  BY <1>1, Parameters DEF LastRefresh
<1>4. refresh = IF clock < d * DayLen + RefreshAt THEN d * DayLen + RefreshAt
                ELSE d * DayLen + RefreshAt + DayLen
  BY DEF Init, NextRefresh
<1> HIDE DEF d
<1>5. PICK k \in Int : LastRefresh = k * DayLen + RefreshAt
  <2>1. CASE clock < d * DayLen + RefreshAt
    <3>1. LastRefresh = (d - 1) * DayLen + RefreshAt /\ d - 1 \in Int
      BY <1>2, <1>3, <1>4, <2>1, Parameters
    <3> QED BY <3>1
  <2>2. CASE ~(clock < d * DayLen + RefreshAt)
    <3>1. LastRefresh = d * DayLen + RefreshAt
      BY <1>2, <1>3, <1>4, <2>2, Parameters
    <3> QED BY <1>2, <3>1
  <2> QED BY <2>1, <2>2
<1>6. LastRefresh <= clock /\ clock <= refresh
  <2> DEFINE e == d * DayLen
  <2>1. /\ DayLen \in Int /\ RefreshAt \in Int /\ 0 <= RefreshAt /\ RefreshAt < DayLen
        /\ e \in Int /\ clock \in Int /\ e <= clock /\ clock < e + DayLen
        /\ refresh = (IF clock < e + RefreshAt THEN e + RefreshAt ELSE e + RefreshAt + DayLen)
    BY <1>1, <1>2, <1>4, Parameters
  <2> HIDE DEF e
  <2> QED BY <1>3, <2>1
<1>7. \A r \in Threads : rpc[r] # "idle" => clock <= since[r] + Span
  BY <1>1, Parameters DEF Init
<1>8. rpc[Daily] = "idle"
  BY ScheduleAssumption DEF Init, Threads
<1> QED BY <1>5, <1>6, <1>7, <1>8, DayOfRefresh DEF RefreshInv

\* The refresh that fires, and one that is missed.
LEMMA NextLastRefresh ==
    ASSUME TypeOK, RefreshInv, clock >= refresh, refresh' = refresh + DayLen
    PROVE  /\ clock = refresh /\ refresh \in Nat /\ misses \in Nat
           /\ LastRefresh + DayLen <= clock
           /\ misses' = 0 => LastRefresh' = refresh /\ refresh = DayOf(refresh) * DayLen + RefreshAt
           /\ misses' = misses + 1 => LastRefresh' = LastRefresh
<1>1. clock \in Nat /\ refresh \in Nat /\ misses \in Nat /\ clock = refresh
  BY Parameters DEF TypeOK, StoreTypeOK, RefreshInv
<1> DEFINE d == DayOf(LastRefresh)
<1>2. (misses + 1) * DayLen \in Nat /\ (misses + 1) * DayLen >= DayLen
  BY <1>1, Parameters
<1>3. LastRefresh \in Int /\ LastRefresh + DayLen <= clock /\ LastRefresh = d * DayLen + RefreshAt
  BY <1>1, <1>2, Parameters DEF LastRefresh, RefreshInv
<1>4. d \in Int
  BY <1>3, DayBounds
<1>5. refresh = LastRefresh + (misses + 1) * DayLen
  BY <1>1, <1>2 DEF LastRefresh
<1> HIDE DEF d
<1>6. refresh = (d + misses + 1) * DayLen + RefreshAt
  BY <1>1, <1>3, <1>4, <1>5, Parameters
<1>7. refresh = DayOf(refresh) * DayLen + RefreshAt
  <2>1. d + misses + 1 \in Int
    BY <1>1, <1>4
  <2>2. DayOf((d + misses + 1) * DayLen + RefreshAt) = d + misses + 1
    BY <2>1, DayOfRefresh
  <2> QED BY <1>6, <2>2
<1>8. misses' = 0 => LastRefresh' = refresh
  BY <1>1, Parameters DEF LastRefresh
<1>9. misses' = misses + 1 => LastRefresh' = LastRefresh
  BY <1>1, Parameters DEF LastRefresh
<1> QED BY <1>1, <1>3, <1>7, <1>8, <1>9

LEMMA LastRefreshIsInt ==
    ASSUME TypeOK
    PROVE  LastRefresh \in Int
BY Parameters DEF TypeOK, StoreTypeOK, LastRefresh

\* A refresh is over before the next one fires.
LEMMA RefreshIsOver ==
    ASSUME HorizonSuffices, TypeOK, RefreshInv, FireRefresh
    PROVE  Enter(Daily)
<1>1. clock >= refresh /\ refresh' = refresh + DayLen
  BY DEF FireRefresh
<1>2. LastRefresh + DayLen <= clock /\ clock \in Nat /\ LastRefresh \in Int
  BY <1>1, NextLastRefresh, LastRefreshIsInt DEF TypeOK, StoreTypeOK
<1>3. rpc[Daily] # "idle" => clock <= LastRefresh + Span
  BY DEF RefreshInv, Threads
<1>4. rpc[Daily] = "idle"
  BY <1>2, <1>3, Parameters DEF HorizonSuffices
<1> QED BY <1>4 DEF FireRefresh

LEMMA RefreshStep ==
    ASSUME HorizonSuffices, TypeOK, PhaseInv, RefreshInv, [Next]_vars
    PROVE  RefreshInv'
<1>0. ThreadTypeOK /\ clock \in Nat /\ refresh \in Nat /\ LastRefresh \in Int
  BY LastRefreshIsInt DEF TypeOK, StoreTypeOK
<1>1. ASSUME NEW r \in Threads, RescheduleStep(r) PROVE RefreshInv'
  <2>1. UNCHANGED <<clock, refresh, misses>>
    BY <1>0, <1>1, ReschedulePath
  <2>2. \A x \in Threads : rpc'[x] # "idle" => rpc[x] # "idle" /\ since'[x] = since[x]
    BY <1>0, <1>1, ReschedulePath
  <2>3. LastRefresh' = LastRefresh
    BY <2>1 DEF LastRefresh
  <2> QED BY <2>1, <2>2, <2>3 DEF RefreshInv, DayOf, Threads
<1>2. ASSUME NEW r \in Threads, Enter(r), clock' = clock, r = Daily => LastRefresh' = clock
      PROVE  /\ \A x \in Threads : rpc'[x] # "idle" => clock' <= since'[x] + Span
             /\ rpc'[Daily] # "idle" => since'[Daily] = (IF r = Daily THEN LastRefresh' ELSE LastRefresh)
  <2>1. clock <= clock + Span
    BY <1>0, Parameters
  <2>2. \A x \in Threads : x # r => rpc'[x] = rpc[x] /\ since'[x] = since[x]
    BY <1>0, <1>2, EnterPath
  <2>3. since'[r] = clock
    BY <1>0, <1>2, EnterPath
  <2> QED BY <1>2, <2>1, <2>2, <2>3 DEF RefreshInv, Threads
<1>3. ASSUME Save PROVE RefreshInv'
  <2>1. Enter(Loop) /\ UNCHANGED <<clock, refresh, misses>>
    BY <1>3 DEF Save
  <2>2. LastRefresh' = LastRefresh
    BY <2>1 DEF LastRefresh
  <2> QED BY <1>2, <2>1, <2>2, ScheduleAssumption DEF RefreshInv, DayOf, Threads
<1>4. ASSUME FireRefresh PROVE RefreshInv'
  <2>1. Enter(Daily) /\ clock' = clock /\ clock >= refresh /\ refresh' = refresh + DayLen /\ misses' = 0
    BY <1>4, RefreshIsOver DEF FireRefresh
  <2>2. clock = refresh /\ LastRefresh' = refresh /\ refresh = DayOf(refresh) * DayLen + RefreshAt
    BY <2>1, NextLastRefresh
  <2>3. clock <= refresh'
    BY <1>0, <2>1, <2>2, Parameters
  <2> QED BY <1>0, <1>2, <2>1, <2>2, <2>3 DEF RefreshInv, DayOf, Threads
<1>5. ASSUME MissRefresh PROVE RefreshInv'
  <2>1. /\ clock' = clock /\ clock >= refresh /\ refresh' = refresh + DayLen /\ misses' = misses + 1
        /\ UNCHANGED <<rpc, since>>
    BY <1>5 DEF MissRefresh, reVars
  <2>2. LastRefresh' = LastRefresh
    BY <2>1, NextLastRefresh
  <2>3. clock <= refresh'
    BY <1>0, <2>1, Parameters DEF RefreshInv
  <2> QED BY <2>1, <2>2, <2>3 DEF RefreshInv, DayOf
<1>6. ASSUME Tick PROVE RefreshInv'
  <2>1. /\ clock' = clock + 1 /\ clock < refresh /\ UNCHANGED <<refresh, misses, rpc, since>>
        /\ \A r \in Threads : rpc[r] # "idle" => clock < since[r] + Span
    BY <1>6 DEF Tick, reVars
  <2>2. LastRefresh' = LastRefresh
    BY <2>1 DEF LastRefresh
  <2>3. \A r \in Threads : since[r] + Span \in Nat
    <3>1. Span \in Nat /\ since \in [Threads -> Nat]
      BY <1>0, Parameters DEF ThreadTypeOK
    <3> QED BY <3>1
  <2>4. \A r \in Threads : rpc[r] # "idle" => clock + 1 <= since[r] + Span
    BY <1>0, <2>1, <2>3
  <2>5. LastRefresh <= clock + 1 /\ clock + 1 <= refresh
    BY <1>0, <2>1 DEF RefreshInv
  <2> QED BY <2>1, <2>2, <2>4, <2>5 DEF RefreshInv, DayOf
<1>7. ASSUME UNCHANGED <<clock, refresh, misses, rpc, since>> PROVE RefreshInv'
  BY <1>7 DEF RefreshInv, LastRefresh, DayOf
<1> QED
  BY <1>1, <1>3, <1>4, <1>5, <1>6, <1>7 DEF Next, FireJob, reVars, vars

LEMMA PendingAll ==
    ASSUME NEW r \in Threads, rpc[r] \in {"list", "remove", "today"}, NEW tag \in Tags, NEW s
    PROVE  Pending(tag, s)
BY DEF Pending, Unlisted

LEMMA PendingAllNext ==
    ASSUME NEW r \in Threads, rpc'[r] \in {"list", "remove", "today"}, NEW tag \in Tags, NEW s
    PROVE  Pending(tag, s)'
BY DEF Pending, Unlisted

\* The calls after a thread has read the time: what it has still to add changes
\* only as it lists a page or adds it.
LEMMA SecuredStep ==
    ASSUME TypeOK, PhaseInv, ExcuseInv, NEW r \in Threads, RescheduleStep(r), rpc[r] \in Later,
           NEW t, DayOf(t) = DayOf(now[r]), NEW tag \in Tags, NEW s \in conf, Secured(tag, t, s)
    PROVE  Secured(tag, t, s)'
<1>0. ThreadTypeOK /\ StoreTypeOK /\ Holds(r) /\ s \in Slots /\ <<tag, s>> \in JobIds
  BY ScheduleAssumption DEF TypeOK, StoreTypeOK, PhaseInv, JobIds
<1>1. /\ clock' = clock /\ excused \subseteq excused' /\ DateOf(tag, t) = DateOf(tag, now[r])
      /\ DateOf(tag, now[r]) \in Days /\ Due(DateOf(tag, t), s) \in Nat
      /\ now[r] \in Nat /\ clock \in Nat
  <2>1. clock' = clock /\ excused \subseteq excused'
    BY <1>0, ReschedulePath DEF Later
  <2>2. DateOf(tag, t) = DateOf(tag, now[r]) /\ DateOf(tag, now[r]) \in Days
    BY <1>0, DatesOfNow DEF DateOf
  <2>3. Due(DateOf(tag, t), s) \in Nat /\ now[r] \in Nat /\ clock \in Nat
    BY <1>0, <2>2, DueIsNat DEF ThreadTypeOK, StoreTypeOK
  <2> QED BY <2>1, <2>2, <2>3
<1>2. \A x \in Threads \ {r} : rpc'[x] = rpc[x] /\ adds'[x] = adds[x]
  BY <1>0, ReschedulePath
<1>3. \A x \in Threads \ {r} : Unlisted(x)' = Unlisted(x)
  BY <1>2 DEF Unlisted
<1>4. CASE ListDay(r)
  <2>1. /\ rpc[r] \in Tags /\ adds[r] = {} /\ jobs' = jobs
        /\ rpc'[r] = (IF rpc[r] = "today" THEN "add today" ELSE "add tomorrow")
        /\ Due(DateOf(rpc[r], now[r]), s) > now[r] =>
              [id |-> <<rpc[r], s>>, day |-> DateOf(rpc[r], now[r])] \in adds'[r]
    BY <1>0, <1>4, Listed DEF Holds, Tags
  <2>2. Unlisted(r) \subseteq Unlisted(r)' \cup {rpc[r]}
    BY <2>1 DEF Unlisted, Tags
  <2>3. CASE tag = rpc[r]
    <3>1. CASE Due(DateOf(tag, now[r]), s) > now[r]
      <4>1. \E a \in adds'[r] : a.id = <<tag, s>>
        BY <2>1, <2>3, <3>1
      <4> QED BY <4>1 DEF Secured, Pending
    <3>2. CASE ~(Due(DateOf(tag, now[r]), s) > now[r])
      <4>1. <<DateOf(tag, now[r]), s>> \in Pages
        BY <1>0, <1>1 DEF Pages
      <4>2. Due(DateOf(tag, now[r]), s) <= clock \/ <<DateOf(tag, now[r]), s>> \in excused
        BY <1>1, <3>2, <4>1 DEF ExcuseInv
      <4> QED BY <1>1, <4>2 DEF Secured
    <3> QED BY <3>1, <3>2
  <2>4. CASE tag # rpc[r]
    <3>1. Pending(tag, s) => Pending(tag, s)'
      BY <1>2, <1>3, <2>1, <2>2, <2>4 DEF Pending, Tags
    <3> QED BY <1>1, <2>1, <3>1 DEF Secured
  <2> QED BY <2>3, <2>4
<1>5. CASE AddJob(r)
  <2>1. PICK a \in adds[r] :
           /\ a \in [id : JobIds, day : Days]
           /\ jobs' = [jobs EXCEPT ![a.id] = a.day]
           /\ jobs'[a.id] = a.day
           /\ adds'[r] = adds[r] \ {a}
           /\ a.day = DateOf(a.id[1], now[r])
    BY <1>0, <1>5, Added
  <2>2. Unlisted(r)' = Unlisted(r) /\ rpc' = rpc
    BY <1>5 DEF AddJob, Unlisted
  <2>3. CASE a.id = <<tag, s>>
    BY <1>1, <2>1, <2>3 DEF Secured
  <2>4. CASE a.id # <<tag, s>>
    <3>1. Pending(tag, s) => Pending(tag, s)'
      <4>1. \A b \in adds[r] : b.id = <<tag, s>> => b \in adds'[r]
        BY <2>1, <2>4
      <4> QED BY <1>2, <1>3, <2>2, <4>1 DEF Pending
    <3>2. jobs'[<<tag, s>>] = jobs[<<tag, s>>]
      BY <1>0, <2>1, <2>4 DEF StoreTypeOK
    <3> QED BY <1>1, <3>1, <3>2 DEF Secured
  <2> QED BY <2>3, <2>4
<1>6. CASE TodayDone(r) \/ RescheduleReturns(r)
  <2>1. jobs' = jobs /\ adds' = adds /\ Unlisted(r)' = Unlisted(r) /\ rpc[r] \notin {"list", "remove"}
    BY <1>0, <1>6 DEF TodayDone, RescheduleReturns, Leave, Unlisted, ThreadTypeOK
  <2>2. Pending(tag, s) => Pending(tag, s)'
    BY <1>2, <1>3, <2>1 DEF Pending
  <2> QED BY <1>1, <2>1, <2>2 DEF Secured
<1> QED BY <1>0, <1>4, <1>5, <1>6 DEF RescheduleStep, ListJobs, RemoveJob, ReadNow, Later

LEMMA KeptMove ==
    ASSUME TypeOK, PhaseInv, ExcuseInv, KeptInv, NEW r \in Threads, RescheduleStep(r)
    PROVE  KeptInv'
<1> SUFFICES ASSUME ~spoiled'
             PROVE  /\ \A x, y \in Threads :
                          rpc'[x] \in Later /\ rpc'[y] \in Later => DayOf(now'[x]) = DayOf(now'[y])
                    /\ \A x \in Threads : rpc'[x] \in Later => Kept(now[x])'
                    /\ Quiet' => Kept(asof)'
  BY DEF KeptInv, DayOf, Later
<1>0. ThreadTypeOK /\ conf' = conf /\ \A x \in Threads : Holds(x)
  BY ReschedulePath DEF TypeOK, PhaseInv
<1>1. ~spoiled
  BY DEF RescheduleStep, ListJobs, RemoveJob, ReadNow, ListDay, AddJob, TodayDone, RescheduleReturns
<1>2. \A x \in Threads \ {r} : rpc'[x] = rpc[x] /\ now'[x] = now[x]
  BY <1>0, ReschedulePath
<1>3. CASE rpc'[r] \in {"remove", "today"}
  <2>1. \A t : Kept(t)'
    BY <1>3, PendingAllNext DEF Kept, Secured
  <2>2. ~Quiet'
    BY <1>3 DEF Quiet
  <2>3. ASSUME NEW x \in Threads \ {r}, NEW y \in Threads \ {r}, rpc'[x] \in Later, rpc'[y] \in Later
        PROVE  DayOf(now'[x]) = DayOf(now'[y])
    BY <1>1, <1>2, <2>3 DEF KeptInv
  <2>4. ASSUME NEW x \in Threads \ {r}, rpc'[x] \in Later, rpc'[r] \in Later
        PROVE  DayOf(now'[x]) = DayOf(now'[r])
    <3>1. rpc'[r] = "today"
      BY <1>3, <2>4 DEF Later
    <3>2. ReadNow(r)
      BY <1>0, <3>1, ReschedulePath
    <3>3. now[x] > 0
      BY <1>0, <1>2, <2>4 DEF Holds
    <3>4. now[x] # 0
      <4>1. now[x] \in Nat
        BY <1>0 DEF ThreadTypeOK
      <4> QED BY <3>3, <4>1
    <3> QED BY <1>2, <3>2, <3>4 DEF ReadNow
  <2> QED BY <2>1, <2>2, <2>3, <2>4 DEF Kept
<1>4. CASE rpc'[r] \notin {"remove", "today"}
  <2>1. /\ rpc[r] \in Later
        /\ \/ rpc'[r] \in Later /\ now'[r] = now[r]
           \/ rpc'[r] = "idle" /\ asof' = now[r]
    BY <1>0, <1>4, ReschedulePath
  <2>2. \A x \in Threads : rpc'[x] \in Later => rpc[x] \in Later /\ now'[x] = now[x]
    BY <1>2, <2>1 DEF Later
  <2>3. \A x \in Threads : rpc[x] \in Later => DayOf(now[x]) = DayOf(now[r]) /\ Kept(now[x])
    BY <1>1, <2>1 DEF KeptInv
  <2>4. ASSUME NEW x \in Threads, rpc[x] \in Later, NEW s \in conf, NEW tag \in Tags
        PROVE  Secured(tag, now[x], s)
    BY <2>3, <2>4 DEF Kept
  <2>5. ASSUME NEW t, NEW s \in conf, NEW tag \in Tags, DayOf(t) = DayOf(now[r]), Secured(tag, t, s)
        PROVE  Secured(tag, t, s)'
    BY <2>1, <2>5, SecuredStep
  <2>6. ASSUME NEW x \in Threads, rpc[x] \in Later, NEW t, t = now[x] PROVE Kept(t)'
    <3>1. \A s \in conf, tag \in Tags : Secured(tag, t, s)
      BY <2>4, <2>6
    <3> QED BY <1>0, <2>3, <2>5, <2>6, <3>1 DEF Kept
  <2>7. \A x \in Threads : rpc'[x] \in Later => Kept(now[x])'
    <3>1. ASSUME NEW x \in Threads, rpc'[x] \in Later, NEW t, t = now'[x] PROVE Kept(t)'
      BY <2>2, <2>6, <3>1
    <3>2. ASSUME NEW x \in Threads, rpc'[x] \in Later PROVE Kept(now[x])'
      BY <3>1, <3>2 DEF Kept, Secured, Pending, Unlisted
    <3> QED BY <3>2
  <2>8. Quiet' => Kept(asof)'
    <3>1. Quiet' => asof' = now[r]
      BY <2>1 DEF Quiet, Later
    <3>2. ASSUME NEW t, t = now[r] PROVE Kept(t)'
      BY <2>1, <2>6, <3>2
    <3> QED BY <3>1, <3>2 DEF Kept, Secured, Pending, Unlisted
  <2>9. \A x, y \in Threads :
            rpc'[x] \in Later /\ rpc'[y] \in Later => DayOf(now'[x]) = DayOf(now'[y])
    BY <2>2, <2>3
  <2> QED BY <2>7, <2>8, <2>9
<1> QED BY <1>3, <1>4

LEMMA KeptEnter ==
    ASSUME ThreadTypeOK, KeptInv, NEW r \in Threads, Enter(r)
    PROVE  KeptInv'
<1> SUFFICES ASSUME ~spoiled'
             PROVE  /\ \A x, y \in Threads :
                          rpc'[x] \in Later /\ rpc'[y] \in Later => DayOf(now'[x]) = DayOf(now'[y])
                    /\ \A x \in Threads : rpc'[x] \in Later => Kept(now[x])'
                    /\ Quiet' => Kept(asof)'
  BY DEF KeptInv, DayOf, Later
<1>1. \A t : Kept(t)'
  BY EnterPath, PendingAllNext DEF Kept, Secured
<1>2. ~Quiet'
  BY EnterPath DEF Quiet
<1>3. \A x \in Threads : rpc'[x] \in Later => rpc[x] \in Later /\ now'[x] = now[x]
  BY EnterPath DEF Later
<1>4. ~spoiled \/ \A x \in Threads : rpc[x] = "idle"
  BY DEF Enter, Quiet
<1> QED BY <1>1, <1>2, <1>3, <1>4 DEF KeptInv, Kept, Later

LEMMA KeptFire ==
    ASSUME TypeOK, KeptInv, NEW id \in JobIds, FireJob(id)
    PROVE  KeptInv'
<1>1. /\ UNCHANGED <<clock, conf, rpc, now, left, adds, asof, spoiled, excused>>
      /\ Due(jobs[id], id[2]) <= clock
      /\ \A x \in JobIds : jobs'[x] = IF x = id THEN None ELSE jobs[x]
  BY Fired
<1>2. ASSUME NEW t, NEW tag \in Tags, NEW s \in conf, Secured(tag, t, s) PROVE Secured(tag, t, s)'
  <2>1. <<tag, s>> \in JobIds
    BY ScheduleAssumption DEF TypeOK, StoreTypeOK, JobIds
  <2>2. Pending(tag, s)' = Pending(tag, s)
    BY <1>1 DEF Pending, Unlisted
  <2>3. CASE id = <<tag, s>>
    BY <1>1, <1>2, <2>2, <2>3 DEF Secured
  <2>4. CASE id # <<tag, s>>
    BY <1>1, <1>2, <2>1, <2>2, <2>4 DEF Secured
  <2> QED BY <2>3, <2>4
<1>3. ASSUME NEW t, Kept(t) PROVE Kept(t)'
  BY <1>1, <1>2, <1>3 DEF Kept
<1>4. Quiet' = Quiet
  BY <1>1 DEF Quiet
<1>5. \A t : Kept(t) => (\A s \in conf', tag \in Tags : Secured(tag, t, s)')
  BY <1>3 DEF Kept
<1> QED BY <1>1, <1>4, <1>5 DEF KeptInv, Kept, Secured, Pending, Unlisted

LEMMA KeptTick ==
    ASSUME TypeOK, PhaseInv, KeptInv, Tick
    PROVE  KeptInv'
<1>1. /\ clock' = clock + 1 /\ clock \in Nat /\ excused \subseteq excused'
      /\ UNCHANGED <<conf, jobs, rpc, now, adds, asof, spoiled>>
  BY DEF TypeOK, StoreTypeOK, Tick, reVars
<1>2. ASSUME NEW t \in Nat, NEW tag \in Tags, NEW s \in conf, Secured(tag, t, s) PROVE Secured(tag, t, s)'
  <2>1. DateOf(tag, t) \in Nat /\ s \in Slots
    BY DayIsNat, ScheduleAssumption DEF DateOf, TypeOK, StoreTypeOK
  <2>2. Due(DateOf(tag, t), s) \in Int
    BY <2>1, ScheduleAssumption DEF Due
  <2>3. Due(DateOf(tag, t), s) <= clock => Due(DateOf(tag, t), s) <= clock + 1
    BY <1>1, <2>2
  <2>4. Pending(tag, s)' = Pending(tag, s)
    BY <1>1 DEF Pending, Unlisted
  <2> QED BY <1>1, <1>2, <2>3, <2>4 DEF Secured
<1>3. ASSUME NEW t \in Nat, Kept(t) PROVE Kept(t)'
  BY <1>1, <1>2, <1>3 DEF Kept
<1>4. Quiet' = Quiet
  BY <1>1 DEF Quiet
<1>5. asof \in Nat /\ \A r \in Threads : now[r] \in Nat
  BY DEF TypeOK, HistoryTypeOK, ThreadTypeOK
<1>6. \A t \in Nat : Kept(t) => (\A s \in conf', tag \in Tags : Secured(tag, t, s)')
  BY <1>3 DEF Kept
<1> QED BY <1>1, <1>4, <1>5, <1>6 DEF KeptInv, Kept, Secured, Pending, Unlisted, DayOf

LEMMA KeptStep ==
    ASSUME TypeOK, PhaseInv, ExcuseInv, KeptInv, [Next]_vars
    PROVE  KeptInv'
<1>1. ASSUME UNCHANGED <<clock, conf, jobs, reVars, asof, spoiled, excused>> PROVE KeptInv'
  <2>1. UNCHANGED <<rpc, now, adds>>
    BY <1>1 DEF reVars
  <2>2. \A t : Kept(t)' = Kept(t)
    BY <1>1, <2>1 DEF Kept, Secured, Pending, Unlisted
  <2> QED BY <1>1, <2>1, <2>2 DEF KeptInv, Kept, Secured, Pending, Unlisted, Quiet
<1>2. ASSUME Save \/ FireRefresh PROVE KeptInv'
  BY <1>1, <1>2, KeptEnter DEF Save, FireRefresh, Threads, TypeOK
<1> QED BY <1>1, <1>2, KeptMove, KeptFire, KeptTick DEF Next, MissRefresh, vars

-----------------------------------------------------------------------------
LEMMA FreshMove ==
    ASSUME ClocksAreClose, RefreshAt + offset >= 0, TypeOK, PhaseInv, RefreshInv, FreshInv,
           NEW r \in Threads, RescheduleStep(r)
    PROVE  FreshInv'
<1>0. /\ ThreadTypeOK /\ StoreTypeOK /\ clock \in Nat /\ LastRefresh \in Int
      /\ UNCHANGED <<refresh, misses, clock>> /\ \A x \in Threads : Holds(x)
  BY ReschedulePath, LastRefreshIsInt DEF TypeOK, StoreTypeOK, PhaseInv
<1>1. LastRefresh' = LastRefresh /\ DayOf(LastRefresh)' = DayOf(LastRefresh)
  BY <1>0 DEF LastRefresh, DayOf
<1> SUFFICES ASSUME ~spoiled', \A x \in Threads : rpc'[x] \notin {"list", "remove"}
             PROVE  /\ \A x \in Threads : rpc'[x] \in Later => DayOf(LastRefresh) <= DayOf(now'[x])
                    /\ Quiet' => DayOf(LastRefresh) <= DayOf(asof')
  BY <1>1 DEF FreshInv, DayOf
<1>2. ~spoiled
  BY DEF RescheduleStep, ListJobs, RemoveJob, ReadNow, ListDay, AddJob, TodayDone, RescheduleReturns
<1>3. \A x \in Threads \ {r} : rpc'[x] = rpc[x] /\ now'[x] = now[x]
  BY <1>0, ReschedulePath
<1>4. CASE ReadNow(r)
  <2>1. now'[r] = clock + offset /\ rpc'[r] = "today"
    BY <1>0, <1>4 DEF ReadNow, ThreadTypeOK
  <2>2. DayOf(LastRefresh) * DayLen <= now'[r] /\ now'[r] \in Int
    <3> DEFINE e == DayOf(LastRefresh) * DayLen
    <3>1. /\ e \in Int /\ e + RefreshAt <= clock /\ RefreshAt \in Int /\ offset \in Int
          /\ now'[r] = clock + offset
      BY <1>0, <2>1, OffsetIsSmall, DayBounds, Parameters DEF RefreshInv
    <3> HIDE DEF e
    <3>2. e <= now'[r] /\ now'[r] \in Int
      BY <1>0, <3>1
    <3> QED BY <3>2 DEF e
  <2>3. DayOf(LastRefresh) <= DayOf(now'[r])
    <3>1. /\ DayOf(LastRefresh) \in Int /\ DayOf(now'[r]) \in Int
          /\ now'[r] < DayOf(now'[r]) * DayLen + DayLen
      BY <1>0, <2>2, DayBounds
    <3>2. DayOf(LastRefresh) * DayLen < DayOf(now'[r]) * DayLen + DayLen
      BY <2>2, <3>1, Parameters
    <3> QED BY <3>1, <3>2, DayIsLower
  <2>4. ASSUME NEW x \in Threads \ {r}, rpc'[x] \in Later PROVE DayOf(now'[x]) = DayOf(now'[r])
    <3>1. now[x] # 0
      <4>1. now[x] \in Nat /\ now[x] > 0
        BY <1>0, <1>3, <2>4 DEF ThreadTypeOK, Holds
      <4> QED BY <4>1
    <3> QED BY <1>3, <1>4, <3>1 DEF ReadNow
  <2> QED BY <2>1, <2>3, <2>4 DEF Quiet
<1>5. CASE ~ReadNow(r)
  <2>1. rpc[r] \in Later /\ \/ rpc'[r] \in Later /\ now'[r] = now[r]
                            \/ rpc'[r] = "idle" /\ asof' = now[r]
    BY <1>0, <1>5, ReschedulePath
  <2>2. \A x \in Threads : rpc[x] \notin {"list", "remove"}
    BY <1>3, <2>1 DEF Later
  <2>3. \A x \in Threads : rpc[x] \in Later => DayOf(LastRefresh) <= DayOf(now[x])
    BY <1>2, <2>2 DEF FreshInv
  <2> QED BY <1>3, <2>1, <2>3 DEF Later, Quiet
<1> QED BY <1>4, <1>5

LEMMA FreshStep ==
    ASSUME ClocksAreClose, HorizonSuffices, RefreshAt + offset >= 0,
           TypeOK, PhaseInv, RefreshInv, FreshInv, [Next]_vars
    PROVE  FreshInv'
<1>1. ASSUME NEW r \in Threads, Enter(r) PROVE FreshInv'
  BY <1>1, EnterPath DEF FreshInv, TypeOK
<1>2. ASSUME UNCHANGED <<rpc, now, asof, spoiled>>, LastRefresh' = LastRefresh PROVE FreshInv'
  BY <1>2 DEF FreshInv, DayOf, Quiet, Later
<1>3. ASSUME Save PROVE FreshInv'
  BY <1>1, <1>3 DEF Save, Threads
<1>4. ASSUME FireRefresh PROVE FreshInv'
  BY <1>1, <1>4, RefreshIsOver DEF Threads
<1>5. ASSUME MissRefresh PROVE FreshInv'
  <2>1. clock >= refresh /\ refresh' = refresh + DayLen /\ misses' = misses + 1
    BY <1>5 DEF MissRefresh
  <2> QED BY <1>2, <1>5, <2>1, NextLastRefresh DEF MissRefresh, reVars
<1>6. ASSUME (\E id \in JobIds : FireJob(id)) \/ Tick \/ UNCHANGED vars PROVE FreshInv'
  <2>1. UNCHANGED <<rpc, now, asof, spoiled, refresh, misses>>
    BY <1>6 DEF FireJob, Tick, vars, reVars
  <2> QED BY <1>2, <2>1 DEF LastRefresh
<1> QED BY <1>3, <1>4, <1>5, <1>6, FreshMove DEF Next

-----------------------------------------------------------------------------
\* A step that leaves the clock, and the jobs whose time has come, where they are.
LEMMA PastKept ==
    ASSUME TypeOK, PastInv, clock' = clock, excused \subseteq excused', played' = played,
           \A id \in JobIds : jobs'[id] = jobs[id] \/ DueAt(clock) \subseteq excused
    PROVE  PastInv'
<1> SUFFICES ASSUME NEW p \in Pages, 3 * DayLen <= Due(p[1], p[2]), Due(p[1], p[2]) <= clock
             PROVE  \/ played[p] > 0
                    \/ p \in excused'
                    \/ Due(p[1], p[2]) = clock /\ \E id \in JobIds : id[2] = p[2] /\ jobs'[id] = p[1]
  BY DEF PastInv, Due
<1>1. DueAt(clock) \subseteq excused => (Due(p[1], p[2]) = clock => p \in excused')
  BY DEF DueAt, Pages
<1> QED BY <1>1 DEF PastInv

\* A page that the store holds when its time has come is played, unless it was
\* already late when that time was first seen.
LEMMA PastFire ==
    ASSUME TypeOK, PastInv, NEW id \in JobIds, FireJob(id)
    PROVE  PastInv'
<1>1. /\ UNCHANGED <<clock, excused>> /\ jobs[id] \in Days /\ id[2] \in Slots
      /\ \A x \in JobIds : jobs'[x] = IF x = id THEN None ELSE jobs[x]
      /\ \A p \in Days \X Slots : played'[p] # played[p] => played'[p] > 0
  BY Fired
<1>2. played \in [Days \X Slots -> 0 .. 2] /\ clock \in Nat /\ Grace \in Nat
  BY ScheduleAssumption DEF TypeOK, StoreTypeOK, HistoryTypeOK
<1> SUFFICES ASSUME NEW p \in Pages, 3 * DayLen <= Due(p[1], p[2]), Due(p[1], p[2]) <= clock
             PROVE  \/ played'[p] > 0
                    \/ p \in excused
                    \/ Due(p[1], p[2]) = clock /\ \E x \in JobIds : x[2] = p[2] /\ jobs'[x] = p[1]
  BY <1>1 DEF PastInv, Due
<1>3. played[p] > 0 => played'[p] > 0
  BY <1>1, <1>2 DEF Pages
<1>4. CASE Due(p[1], p[2]) = clock /\ id[2] = p[2] /\ jobs[id] = p[1]
  <2>1. p = <<jobs[id], id[2]>>
    BY <1>4, PageDues
  <2>2. clock - Due(jobs[id], id[2]) <= Grace
    BY <1>2, <1>4
  <2>3. played' = [played EXCEPT ![p] = IF @ = 0 THEN 1 ELSE 2]
    BY <2>1, <2>2 DEF FireJob
  <2> QED BY <1>2, <2>3 DEF Pages
<1>5. CASE Due(p[1], p[2]) = clock /\ \E x \in JobIds \ {id} : x[2] = p[2] /\ jobs[x] = p[1]
  BY <1>1, <1>5
<1> QED BY <1>3, <1>4, <1>5 DEF PastInv

\* A page whose time comes while no rebuild is in progress: the last rebuild
\* scheduled its date, since the refresh comes before two days are used up.
LEMMA PageComes ==
    ASSUME HorizonSuffices, TypeOK, PhaseInv, HorizonInv, Tick, Quiet, ~spoiled,
           NEW p \in Pages, p[2] \in conf, Due(p[1], p[2]) = clock + 1
    PROVE  p \in excused \/ \E id \in JobIds : id[2] = p[2] /\ jobs[id] = p[1]
<1> DEFINE d == p[1]
           s == p[2]
           D == DayOf(asof)
           L == DayOf(LastRefresh)
<1>1. /\ d \in Nat /\ s \in Slots /\ p = <<d, s>> /\ clock \in Nat /\ asof \in Nat
      /\ refresh \in Nat /\ misses \in 0 .. MaxMisses /\ clock < refresh
  BY PageDues DEF TypeOK, StoreTypeOK, HistoryTypeOK, Tick
<1>2. D \in Int /\ D * DayLen <= asof
  BY <1>1, DayBounds
<1>3. Tod[s] \in Nat /\ Tod[s] < DayLen /\ RefreshAt + MaxMisses * DayLen < DayLen + Tod[s]
  BY <1>1, ScheduleAssumption DEF HorizonSuffices
<1>4. Due(d, s) = d * DayLen + Tod[s]
  BY DEF Due
<1>5. \A r \in Threads : rpc[r] = "idle" /\ adds[r] = {}
  BY DEF Quiet, PhaseInv, Holds
<1>6. L <= D /\ L \in Int
  <2>1. L <= D
    BY <1>5 DEF HorizonInv, FreshInv
  <2> QED BY <2>1, LastRefreshIsInt, DayBounds
<1>7. d < D + 2
  <2>1. LastRefresh = L * DayLen + RefreshAt
    BY DEF HorizonInv, RefreshInv
  <2>2. refresh = LastRefresh + (misses + 1) * DayLen
    BY <1>1, Parameters DEF LastRefresh
  <2> HIDE DEF L, D, d, s
  <2>3. /\ (misses + 1) * DayLen <= MaxMisses * DayLen + DayLen /\ (misses + 1) * DayLen \in Int
        /\ MaxMisses * DayLen \in Int
    BY <1>1, Parameters
  <2>4. L * DayLen <= D * DayLen /\ L * DayLen \in Int /\ D * DayLen \in Int /\ d * DayLen \in Int
    BY <1>1, <1>2, <1>6, Parameters
  <2>5. d * DayLen < D * DayLen + 2 * DayLen
    <3> DEFINE e == d * DayLen
               E == D * DayLen
               F == L * DayLen
               m == (misses + 1) * DayLen
               M == MaxMisses * DayLen
    <3>1. /\ e \in Int /\ E \in Int /\ F \in Int /\ F <= E /\ m <= M + DayLen /\ m \in Int /\ M \in Int
          /\ e + Tod[s] = clock + 1 /\ clock < F + RefreshAt + m /\ RefreshAt + M < DayLen + Tod[s]
          /\ DayLen \in Int /\ RefreshAt \in Int /\ Tod[s] \in Int
      BY <1>1, <1>3, <1>4, <2>1, <2>2, <2>3, <2>4, Parameters DEF d, s
    <3> HIDE DEF e, E, F, m, M
    <3>2. e < E + 2 * DayLen
      BY <1>1, <3>1
    <3> QED BY <3>2 DEF e, E
  <2>6. d * DayLen < (D + 1) * DayLen + DayLen
    BY <1>1, <1>2, <2>5, Parameters
  <2>7. d <= D + 1
    BY <1>1, <1>2, <2>6, DayIsLower
  <2> QED BY <1>1, <1>2, <2>7
<1>8. CASE d < D
  <2>1. d + 1 <= D
    BY <1>1, <1>2, <1>8
  <2> HIDE DEF D, d, s
  <2>2. (d + 1) * DayLen <= D * DayLen
    BY <1>1, <1>2, <2>1, Parameters
  <2>3. d * DayLen + Tod[s] <= asof
    <3>1. d * DayLen \in Int /\ (d + 1) * DayLen = d * DayLen + DayLen /\ D * DayLen \in Int
      BY <1>1, <1>2, Parameters
    <3> QED BY <1>1, <1>2, <1>3, <2>2, <3>1, Parameters
  <2>4. clock < clock + 1
    BY <1>1
  <2> QED BY <1>4, <2>3, <2>4 DEF HorizonInv, ExcuseInv, d, s
<1>9. CASE d \in {D, D + 1}
  <2>1. PICK tag \in Tags : DateOf(tag, asof) = d
    <3>1. DateOf("today", asof) = D /\ DateOf("tomorrow", asof) = D + 1
      BY <1>2 DEF DateOf
    <3> QED BY <1>9, <3>1 DEF Tags
  <2>2. Secured(tag, asof, s)
    BY DEF HorizonInv, KeptInv, Kept
  <2>3. ~Pending(tag, s)
    BY <1>5 DEF Pending, Unlisted
  <2>4. ~(Due(d, s) <= clock)
    BY <1>1
  <2>5. jobs[<<tag, s>>] = d \/ p \in excused
    BY <1>1, <2>1, <2>2, <2>3, <2>4 DEF Secured
  <2>6. <<tag, s>> \in JobIds
    BY <1>1 DEF JobIds
  <2> QED BY <2>5, <2>6
<1> QED BY <1>1, <1>2, <1>7, <1>8, <1>9

LEMMA PastTick ==
    ASSUME HorizonSuffices, TypeOK, PhaseInv, HorizonInv, Tick
    PROVE  PastInv'
<1>1. /\ clock' = clock + 1 /\ clock \in Nat /\ played' = played /\ jobs' = jobs
      /\ excused \subseteq excused'
  BY DEF Tick, TypeOK, StoreTypeOK
<1> SUFFICES ASSUME NEW p \in Pages, 3 * DayLen <= Due(p[1], p[2]), Due(p[1], p[2]) <= clock + 1
             PROVE  \/ played[p] > 0
                    \/ p \in excused'
                    \/ /\ Due(p[1], p[2]) = clock + 1
                       /\ \E id \in JobIds : id[2] = p[2] /\ jobs[id] = p[1]
  BY <1>1 DEF PastInv, Due
<1>2. Due(p[1], p[2]) \in Nat /\ p[1] # None
  BY PageDues DEF None
<1>3. CASE Due(p[1], p[2]) <= clock
  <2>1. \A id \in JobIds : jobs[id] # None => clock < Due(jobs[id], id[2])
    BY DEF Tick
  <2>2. ~(\E id \in JobIds : id[2] = p[2] /\ jobs[id] = p[1])
    <3>1. ASSUME NEW id \in JobIds, id[2] = p[2], jobs[id] = p[1] PROVE FALSE
      <4>1. clock < Due(p[1], p[2])
        BY <1>2, <2>1, <3>1
      <4> QED BY <1>1, <1>2, <1>3, <4>1
    <3> QED BY <3>1
  <2> QED BY <1>1, <1>3, <2>2 DEF HorizonInv, PastInv
<1>4. CASE Due(p[1], p[2]) = clock + 1
  <2>1. p \in DueAt(clock')
    BY <1>1, <1>4 DEF DueAt, Pages
  <2>2. ~Quiet \/ spoiled \/ p[2] \notin conf => p \in excused'
    BY <2>1 DEF Tick
  <2> QED BY <1>1, <1>4, <2>2, PageComes
<1> QED BY <1>1, <1>2, <1>3, <1>4

LEMMA PastStep ==
    ASSUME HorizonSuffices, TypeOK, PhaseInv, HorizonInv, [Next]_vars
    PROVE  PastInv'
<1>0. PastInv /\ ThreadTypeOK /\ StoreTypeOK /\ excused \subseteq excused'
  BY ExcusedGrows DEF HorizonInv, TypeOK
<1>1. ASSUME NEW r \in Threads, RescheduleStep(r) PROVE PastInv'
  <2>1. clock' = clock /\ played' = played
    BY <1>1 DEF RescheduleStep, ListJobs, RemoveJob, ReadNow, ListDay, AddJob, TodayDone, RescheduleReturns
  <2>2. jobs' = jobs \/ rpc[r] \notin {"idle", "list"}
    BY <1>1 DEF RescheduleStep, ListJobs, RemoveJob, ReadNow, ListDay, AddJob, TodayDone, RescheduleReturns
  <2>3. rpc[r] \notin {"idle", "list"} => DueAt(clock) \subseteq excused
    BY DEF HorizonInv, ExcuseInv
  <2> QED BY <1>0, <2>1, <2>2, <2>3, PastKept
<1>2. ASSUME UNCHANGED <<clock, jobs, played>> PROVE PastInv'
  BY <1>0, <1>2, PastKept
<1> QED
  BY <1>0, <1>1, <1>2, PastFire, PastTick DEF Next, Save, FireRefresh, MissRefresh, vars

LEMMA InitHorizon ==
    ASSUME Init
    PROVE  HorizonInv
<1>1. ScheduleAssumption /\ clock \in Nat /\ clock < 3 * DayLen
  BY ScheduleAssumption DEF Init
<1>2. \A p \in Pages : Due(p[1], p[2]) \in Nat
  BY PageDues
<1>3. Loop \in Threads /\ rpc[Loop] = "list" /\ \A r \in Threads : rpc[r] \in {"idle", "list"}
  BY DEF Init, Threads
<1>4. ExcuseInv
  <2>1. asof = 0 /\ \A p \in Pages : ~(clock < Due(p[1], p[2]) /\ Due(p[1], p[2]) <= 0)
    BY <1>1, <1>2 DEF Init
  <2> QED BY <1>3, <2>1 DEF ExcuseInv, Later
<1>5. KeptInv
  <2>1. \A t : Kept(t)
    BY <1>3, PendingAll DEF Kept, Secured
  <2> QED BY <1>3, <2>1 DEF KeptInv, Later
<1>6. FreshInv
  BY <1>3 DEF FreshInv
<1>7. PastInv
  <2>1. \A p \in Pages : ~(3 * DayLen <= Due(p[1], p[2]) /\ Due(p[1], p[2]) <= clock)
    BY <1>1, <1>2, Parameters
  <2> QED BY <2>1 DEF PastInv
<1> QED BY <1>4, <1>5, <1>6, <1>7, InitRefresh DEF HorizonInv

LEMMA HorizonStep ==
    ASSUME ClocksAreClose, HorizonSuffices, RefreshAt + offset >= 0, TypeOK, PhaseInv, HorizonInv, [Next]_vars
    PROVE  HorizonInv'
BY ExcuseStep, KeptStep, RefreshStep, FreshStep, PastStep DEF HorizonInv

\* No enabled page is missed, but for those whose time comes during a rebuild,
\* after a spoiled one or between the two clocks, as long as the daily refresh
\* reads the date on which it fires: a refresh that misfires as
\* often as it may, or a save at any moment, loses none, since a schedule holds
\* two days, a rebuild puts back what it removes, and the daily refresh makes
\* the next schedule before this one is used up.
THEOREM NoneMissed ==
    ASSUME ClocksAreClose, HorizonSuffices
    PROVE  Spec => []NoPageMissed
<1> DEFINE IInv == TypeOK /\ PhaseInv /\ (RefreshAt + offset >= 0 => HorizonInv)
<1>1. Init => IInv
  BY InitTypes, InitHorizon
<1>2. IInv /\ [Next]_vars => IInv'
  <2>1. [Next]_vars => UNCHANGED offset
    BY DEF Next, RescheduleStep, Save, ListJobs, RemoveJob, ReadNow, ListDay, AddJob, TodayDone,
       RescheduleReturns, FireJob, FireRefresh, MissRefresh, Tick, vars
  <2> QED BY <2>1, TypeStep, PhaseStep, HorizonStep
<1>3. ASSUME TypeOK, RefreshAt + offset >= 0 => HorizonInv PROVE NoPageMissed
  <2> SUFFICES ASSUME RefreshAt + offset >= 0, NEW p \in Pages,
                      3 * DayLen <= Due(p[1], p[2]), Due(p[1], p[2]) < clock
               PROVE  played[p] > 0 \/ p \in excused
    BY DEF NoPageMissed, Pages
  <2>1. Due(p[1], p[2]) \in Nat /\ clock \in Nat
    BY <1>3, PageDues DEF TypeOK, StoreTypeOK
  <2>2. Due(p[1], p[2]) <= clock /\ Due(p[1], p[2]) # clock
    BY <2>1
  <2> QED BY <1>3, <2>2 DEF HorizonInv, PastInv
<1> QED BY <1>1, <1>2, <1>3, PTL DEF Spec
=============================================================================
