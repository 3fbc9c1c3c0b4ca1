------------------------------ MODULE Schedule ------------------------------
(***************************************************************************)
(* The schedule of prayer pages: scheduler.reschedule and _schedule_day    *)
(* rebuild the APScheduler job store one call at a time, from the daily    *)
(* refresh on a pool thread and from start() and the saves on the event    *)
(* loop, while APScheduler takes due jobs out of the same store.  It reads *)
(* the system clock; reschedule reads ntp.corrected_now, which adds the    *)
(* NTP offset (fixed here; NtpClock is about the syncs that change it).    *)
(*                                                                         *)
(* Time is counted in ticks; day d begins at tick d * DayLen, and the      *)
(* service starts on day 2, which may still be day 1 by the corrected      *)
(* time.  A slot is a prayer's adhan or iqama; its time of day may lie     *)
(* beyond midnight.                                                        *)
(***************************************************************************)
EXTENDS Integers

CONSTANTS
    Slots,      \* the adhans and iqamas of a day
    Tod,        \* Tod[s]: ticks from the midnight of s's date to its page
    DayLen,     \* ticks per day
    RefreshAt,  \* time of day of the daily refresh
    Grace,      \* misfire_grace_time of a page, in ticks
    Loop,       \* the event loop: runs start(), then every request that saves
    Daily,      \* the pool thread of the daily refresh (max_instances = 1)
    Confs,      \* the sets of enabled slots that may be saved
    Offsets,    \* the NTP offsets, in ticks, that the last sync may have stored
    Span,       \* bound: ticks a reschedule may stretch over
    MaxMisses,  \* bound: daily refreshes that may misfire in a row
    LastDay     \* bound: the clock stops when this day is over

ASSUME ScheduleAssumption ==
    /\ DayLen \in Nat \ {0} /\ RefreshAt \in 0 .. DayLen - 1
    /\ Tod \in [Slots -> Nat]
    /\ Grace \in Nat /\ LastDay \in Nat \ {0, 1}
    /\ Span \in Nat /\ MaxMisses \in Nat
    /\ Confs \subseteq SUBSET Slots
    /\ 0 \in Offsets /\ Offsets \subseteq Int
    /\ Loop # Daily

Threads == {Loop, Daily}
Days == 1 .. LastDay + 2
None == 0                       \* no job under an id
Tags == {"today", "tomorrow"}
JobIds == Tags \X Slots
Due(d, s) == d * DayLen + Tod[s]
DayOf(t) == t \div DayLen
NextRefresh(t) == LET today == DayOf(t) * DayLen + RefreshAt
                  IN  IF t < today THEN today ELSE today + DayLen

VARIABLES
    clock,      \* system clock
    offset,     \* ntp._offset_seconds
    conf,       \* the slots enabled in the saved configuration
    jobs,       \* the job store: the date an id's page belongs to, or None
    refresh,    \* when the daily-refresh job fires next
    misses,     \* refreshes missed in a row
    up,         \* start() has returned, requests are served
    rpc,        \* where each thread is in reschedule()
    since,      \* when it entered it
    left,       \* ids of its get_jobs() snapshot still to be removed
    now,        \* the corrected time it read
    adds,       \* jobs _schedule_day has still to add
    \* history: read by no action
    played,     \* how often each page was started: 2 stands for twice or more
    asof,       \* the time the last complete reschedule read
    alone,      \* no two reschedules have overlapped
    spoiled,    \* since there was none in progress one has raised, or two
                \* have read different dates
    excused,    \* pages that no schedule owed when their time came
    ahead       \* pages whose time had come by the system clock, and not by the
                \* corrected time that a reschedule read

reVars == <<rpc, since, left, now, adds>>
vars == <<clock, offset, conf, jobs, refresh, misses, up, reVars, played, asof,
          alone, spoiled, excused, ahead>>

Init ==
    /\ clock \in 2 * DayLen .. 3 * DayLen - 1
    /\ offset \in Offsets
    /\ conf \in Confs
    /\ jobs = [id \in JobIds |-> None]
    /\ refresh = NextRefresh(clock)
    /\ misses = 0
    /\ up = FALSE
    /\ rpc = [r \in Threads |-> IF r = Loop THEN "list" ELSE "idle"]
    /\ since = [r \in Threads |-> IF r = Loop THEN clock ELSE 0]
    /\ left = [r \in Threads |-> {}]
    /\ now = [r \in Threads |-> 0]
    /\ adds = [r \in Threads |-> {}]
    /\ played = [p \in Days \X Slots |-> 0]
    /\ asof = 0
    /\ alone = TRUE
    /\ spoiled = FALSE
    /\ excused = {}
    /\ ahead = {}

Quiet == \A r \in Threads : rpc[r] = "idle"
DueAt(t) == {p \in Days \X Slots : Due(p[1], p[2]) = t}

Enter(r) ==
    /\ rpc[r] = "idle"
    /\ rpc' = [rpc EXCEPT ![r] = "list"]
    /\ since' = [since EXCEPT ![r] = clock]
    /\ alone' = (alone /\ Quiet)
    /\ spoiled' = (spoiled /\ ~Quiet)
    /\ UNCHANGED <<left, now, adds>>

\* Its locals are gone.
Leave(r) ==
    /\ rpc' = [rpc EXCEPT ![r] = "idle"]
    /\ since' = [since EXCEPT ![r] = 0]
    /\ now' = [now EXCEPT ![r] = 0]

-----------------------------------------------------------------------------
(* scheduler.reschedule, one step per call into APScheduler.               *)

\* update_config or manual_import saves a section and then rebuilds the
\* schedule; both run on the event loop, so no two saves overlap.
Save ==
    /\ up
    /\ Enter(Loop)
    /\ conf' \in Confs
    /\ UNCHANGED <<clock, offset, jobs, refresh, misses, up, played, asof, excused, ahead>>

\* Seeded fault: the prefix test only finds the jobs of today.
ListJobsOfToday(r) ==
    /\ rpc[r] = "list"
    /\ rpc' = [rpc EXCEPT ![r] = "remove"]
    /\ left' = [left EXCEPT ![r] = {id \in {"today"} \X Slots : jobs[id] # None}]
    /\ excused' = excused \cup DueAt(clock)
    /\ UNCHANGED <<clock, offset, conf, jobs, refresh, misses, up, since, now,
                   adds, played, asof, alone, spoiled, ahead>>

\* The list of get_jobs() is a snapshot.
ListJobs(r) ==
    /\ rpc[r] = "list"
    /\ rpc' = [rpc EXCEPT ![r] = "remove"]
    /\ left' = [left EXCEPT ![r] = {id \in JobIds : jobs[id] # None}]
    /\ excused' = excused \cup DueAt(clock)
    /\ UNCHANGED <<clock, offset, conf, jobs, refresh, misses, up, since, now,
                   adds, played, asof, alone, spoiled, ahead>>

\* job.remove() raises JobLookupError for a job that is no longer there:
\* the exception leaves reschedule().
RemoveJob(r) ==
    /\ rpc[r] = "remove"
    /\ \E id \in left[r] :
          \/ /\ jobs[id] # None
             /\ jobs' = [jobs EXCEPT ![id] = None]
             /\ left' = [left EXCEPT ![r] = @ \ {id}]
             /\ UNCHANGED <<rpc, since, now, spoiled>>
          \/ /\ jobs[id] = None
             /\ Leave(r)
             /\ left' = [left EXCEPT ![r] = {}]
             /\ spoiled' = TRUE
             /\ UNCHANGED jobs
    /\ UNCHANGED <<clock, offset, conf, refresh, misses, up, adds, played, asof,
                   alone, excused, ahead>>

ReadNow(r) ==
    /\ rpc[r] = "remove"
    /\ left[r] = {}
    /\ now' = [now EXCEPT ![r] = clock + offset]
    /\ rpc' = [rpc EXCEPT ![r] = "today"]
    /\ excused' = excused \cup UNION {DueAt(t) : t \in clock + 1 .. clock + offset}
    /\ ahead' = ahead \cup UNION {DueAt(t) : t \in clock + offset + 1 .. clock}
    /\ spoiled' = (spoiled \/ \E o \in Threads \ {r} :
                       now[o] # 0 /\ DayOf(now[o]) # DayOf(now'[r]))
    /\ UNCHANGED <<clock, offset, conf, jobs, refresh, misses, up, since,
                   left, adds, played, asof, alone>>

\* Seeded fault: tomorrow is computed from today's date.
ListDayForgetsTomorrow(r) ==
    /\ rpc[r] \in {"today", "tomorrow"}
    /\ adds[r] = {}
    /\ adds' = [adds EXCEPT ![r] =
                   {[id |-> <<rpc[r], s>>, day |-> DayOf(now[r])] :
                        s \in {x \in conf : Due(DayOf(now[r]), x) > now[r]}}]
    /\ rpc' = [rpc EXCEPT ![r] = IF @ = "today" THEN "add today" ELSE "add tomorrow"]
    /\ UNCHANGED <<clock, offset, conf, jobs, refresh, misses, up, since,
                   left, now, played, asof, alone, spoiled, excused, ahead>>

\* Seeded fault: the times of the day that have passed are kept.
ListDayKeepsPast(r) ==
    /\ rpc[r] \in {"today", "tomorrow"}
    /\ LET day == DayOf(now[r]) + (IF rpc[r] = "today" THEN 0 ELSE 1)
       IN  adds' = [adds EXCEPT ![r] =
                       {[id |-> <<rpc[r], s>>, day |-> day] : s \in conf}]
    /\ rpc' = [rpc EXCEPT ![r] = IF @ = "today" THEN "add today" ELSE "add tomorrow"]
    /\ UNCHANGED <<clock, offset, conf, jobs, refresh, misses, up, since, left,
                   now, played, asof, alone, spoiled, excused, ahead>>

\* _schedule_day computes the rows of a date and keeps the future ones.
ListDay(r) ==
    /\ rpc[r] \in {"today", "tomorrow"}
    /\ LET day == DayOf(now[r]) + (IF rpc[r] = "today" THEN 0 ELSE 1)
       IN  adds' = [adds EXCEPT ![r] =
                       {[id |-> <<rpc[r], s>>, day |-> day] :
                            s \in {x \in conf : Due(day, x) > now[r]}}]
    /\ rpc' = [rpc EXCEPT ![r] = IF @ = "today" THEN "add today" ELSE "add tomorrow"]
    /\ UNCHANGED <<clock, offset, conf, jobs, refresh, misses, up, since,
                   left, now, played, asof, alone, spoiled, excused, ahead>>

\* Seeded fault: the id of the job lacks the day's tag.
AddJobUntagged(r) ==
    /\ rpc[r] \in {"add today", "add tomorrow"}
    /\ \E a \in adds[r] :
          /\ jobs' = [id \in JobIds \cup {<<a.id[2]>>} |->
                        IF id = <<a.id[2]>> THEN a.day ELSE jobs[id]]
          /\ adds' = [adds EXCEPT ![r] = @ \ {a}]
    /\ UNCHANGED <<clock, offset, conf, refresh, misses, up, rpc, since, left, now,
                   played, asof, alone, spoiled, excused, ahead>>

\* add_job(..., replace_existing=True).
AddJob(r) ==
    /\ rpc[r] \in {"add today", "add tomorrow"}
    /\ \E a \in adds[r] :
          /\ jobs' = [jobs EXCEPT ![a.id] = a.day]
          /\ adds' = [adds EXCEPT ![r] = @ \ {a}]
    /\ UNCHANGED <<clock, offset, conf, refresh, misses, up, rpc, since, left,
                   now, played, asof, alone, spoiled, excused, ahead>>

TodayDone(r) ==
    /\ rpc[r] = "add today"
    /\ adds[r] = {}
    /\ rpc' = [rpc EXCEPT ![r] = "tomorrow"]
    /\ UNCHANGED <<clock, offset, conf, jobs, refresh, misses, up, since,
                   left, now, adds, played, asof, alone, spoiled, excused, ahead>>

RescheduleReturns(r) ==
    /\ rpc[r] = "add tomorrow"
    /\ adds[r] = {}
    /\ Leave(r)
    /\ up' = TRUE
    /\ asof' = now[r]
    /\ UNCHANGED <<clock, offset, conf, jobs, refresh, misses, left, adds, played,
                   alone, spoiled, excused, ahead>>

-----------------------------------------------------------------------------
(* The APScheduler loop, the clock and NTP.                                *)

\* A due job leaves the store; its page starts unless it is too late.
FireJob(id) ==
    /\ jobs[id] # None
    /\ LET day == jobs[id]
           late == clock - Due(day, id[2])
       IN  /\ late >= 0
           /\ played' = IF late <= Grace
                        THEN [played EXCEPT ![<<day, id[2]>>] = IF @ = 0 THEN 1 ELSE 2]
                        ELSE played
    /\ jobs' = [jobs EXCEPT ![id] = None]
    /\ UNCHANGED <<clock, offset, conf, refresh, misses, up, reVars, asof,
                   alone, spoiled, excused, ahead>>

\* The daily refresh fires; it is skipped while the last one still runs.
FireRefresh ==
    /\ clock >= refresh
    /\ refresh' = refresh + DayLen
    /\ misses' = 0
    /\ \/ Enter(Daily)
       \/ rpc[Daily] # "idle" /\ UNCHANGED <<reVars, alone, spoiled>>
    /\ UNCHANGED <<clock, offset, conf, jobs, up, played, asof, excused, ahead>>

\* The cron job keeps APScheduler's default misfire grace of one second: a
\* loop that wakes later skips the refresh.
MissRefresh ==
    /\ clock >= refresh
    /\ misses < MaxMisses
    /\ refresh' = refresh + DayLen
    /\ misses' = misses + 1
    /\ UNCHANGED <<clock, offset, conf, jobs, up, reVars, played, asof, alone,
                   spoiled, excused, ahead>>

\* The loop wakes for every due job before the clock moves on; a reschedule
\* may stretch over Span ticks.
Tick ==
    /\ clock < (LastDay + 1) * DayLen
    /\ clock < refresh
    /\ \A id \in JobIds : jobs[id] # None => clock < Due(jobs[id], id[2])
    /\ \A r \in Threads : rpc[r] # "idle" => clock < since[r] + Span
    /\ clock' = clock + 1
    /\ excused' = excused \cup {p \in DueAt(clock') : ~Quiet \/ spoiled \/ p[2] \notin conf}
    /\ UNCHANGED <<offset, conf, jobs, refresh, misses, up, reVars, played,
                   asof, alone, spoiled, ahead>>

RescheduleStep(r) ==
    \/ ListJobs(r) \/ RemoveJob(r) \/ ReadNow(r) \/ ListDay(r) \/ AddJob(r)
    \/ TodayDone(r) \/ RescheduleReturns(r)

Next ==
    \/ Save
    \/ \E r \in Threads : RescheduleStep(r)
    \/ \E id \in JobIds : FireJob(id)
    \/ FireRefresh \/ MissRefresh \/ Tick

Spec == Init /\ [][Next]_vars

-----------------------------------------------------------------------------
\* The host's clock is less than a day ahead of the corrected time or behind it.
ClocksAreClose == Offsets \subseteq -(DayLen - 1) .. DayLen - 1

\* No page is due after midnight or so early that a schedule of two days is
\* used up when the refresh comes that does not misfire.
HorizonSuffices ==
    /\ Span < DayLen
    /\ \A s \in Slots : /\ Tod[s] < DayLen
                        /\ RefreshAt + MaxMisses * DayLen < DayLen + Tod[s]

StoreTypeOK ==
    /\ clock \in Nat /\ refresh \in Nat
    /\ misses \in 0 .. MaxMisses
    /\ offset \in Offsets
    /\ conf \in Confs
    /\ jobs \in [JobIds -> Days \cup {None}]

ThreadTypeOK ==
    /\ rpc \in [Threads -> {"idle", "list", "remove", "today", "add today",
                            "tomorrow", "add tomorrow"}]
    /\ since \in [Threads -> Nat]
    /\ now \in [Threads -> Nat]
    /\ left \in [Threads -> SUBSET JobIds]
    /\ adds \in [Threads -> SUBSET [id : JobIds, day : Days]]

HistoryTypeOK ==
    /\ asof \in Nat
    /\ played \in [Days \X Slots -> 0 .. 2]
    /\ excused \cup ahead \subseteq Days \X Slots

\* The variables stay in their sets.
TypeOK ==
    /\ StoreTypeOK /\ ThreadTypeOK /\ HistoryTypeOK
    /\ {up, alone, spoiled} \subseteq BOOLEAN

\* No adhan or iqama sounds twice for the same date: a job that has run is
\* not scheduled again (the "run_at > now" of _schedule_day), unless "now" was
\* read while the host's clock, which plays the page, was ahead of it.
PlayedAtMostOnce == \A p \in Days \X Slots : played[p] <= 1 \/ p \in ahead

\* A refresh or a save never replays a page, unless two of them overlapped (one
\* may then add a page the other had added and the loop has played) or the
\* page's time lay between the corrected time it read and a host's clock ahead.
LoneRescheduleReplaysNothing == alone => PlayedAtMostOnce

\* An enabled page is only missed when its time came during a reschedule, after
\* one that was spoiled, or, while the system clock is behind, was already past
\* by the corrected time that a reschedule read.  Otherwise a refresh that is
\* missed, or a save at any moment, loses nothing (tomorrow is scheduled a day
\* ahead), and the next reschedule makes good for one that raised.  This needs
\* HorizonSuffices, and that a refresh does not read the date of the day before,
\* as it does when the host's clock is ahead by more than RefreshAt.
NoPageMissed ==
    RefreshAt + offset >= 0 =>
        \A p \in Days \X Slots :
            LET due == Due(p[1], p[2])
            IN  p[2] \in conf /\ 3 * DayLen <= due /\ due < clock
                => played[p] > 0 \/ p \in excused

\* Once no reschedule is in progress the store holds a future page of the two
\* days scheduled exactly if the configuration enables it.
StoreMatchesConfig ==
    up /\ Quiet /\ ~spoiled =>
        \A s \in Slots, d \in {DayOf(asof), DayOf(asof) + 1} :
            Due(d, s) > clock /\ Due(d, s) > asof =>
                (s \in conf <=> \E id \in JobIds : id[2] = s /\ jobs[id] = d)

\* Saves and refreshes that did not overlap leave a schedule that matches the
\* configuration, whatever the loop and the clock did meanwhile, and whether or
\* not an earlier one raised half-way.
LoneRescheduleMatches == alone => StoreMatchesConfig
=============================================================================
