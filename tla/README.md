# Adhan Pager: models, checks and proofs

Adhan Pager (`src/`) is a service for mosques and offices. It computes the prayer times of the
day, and at each of them calls one or more extensions of a telephone exchange and plays the adhan
into the calls. This directory holds TLA+ models of the service, the TLC instances that check
them, and TLAPS proofs about them. Line numbers refer to files under `src/app/`.

## 1. The system

One process, `uvicorn app.main:app`, with these threads:

| thread | runs |
| --- | --- |
| event loop | `lifespan` (start-up), every `async def` handler: `update_config`, `manual_import`, all of `/api/auth` |
| request pool | every `def` handler: `page_test`, `stop_page`, `sip_reconnect`, `ntp_sync`, ... |
| APScheduler main loop | takes due jobs out of its store |
| APScheduler pool | `_do_page` of a scheduled job, `_daily_refresh` |
| page threads | `manual-page`, `test-play`: `_do_page`, `_do_page_file` |
| dialling threads | one per destination of a parallel page |
| PJSIP worker | the callbacks of every call (`uaConfig.threadCnt = 1`) |
| hang-up threads | one per file that has been played to its end |
| `ntp-loop` | a sync at start and every `sync_interval_min` |

### Components

| component | state | operations | talks to |
| --- | --- | --- | --- |
| page threads (`scheduler.py`) | `_page_lock`, `_last_page` | `_do_page`, `_do_page_file`, `page_now`, `play_file_now` | engine (`page`), configuration, audio library |
| calls and stop (`sip_engine.py`) | `_active`, `_active_calls`, `_stop_requested`, the `done` event of each call | `page`, `_dial_one`, `_page_parallel`, `stop_active`, callbacks | PJSIP |
| endpoint life cycle (`sip_engine.py`) | `ep`, `account`, `Endpoint.instance`, `_endpoint_gen` | `start`, `shutdown`, `restart` | PJSIP, configuration |
| schedule (`scheduler.py`, `prayer.py`) | APScheduler's job store | `start`, `reschedule`, `_schedule_day`, `_daily_refresh` | APScheduler, `ntp.corrected_now`, configuration, timetable |
| NTP (`ntp.py`) | `_offset_seconds`, last sync, the system clock | `sync_once`, `_try_step_system_clock`, `run_loop` | NTP server |
| configuration (`config.py`) | `_config` in memory, one YAML file | `load`, `update_section`, `save` | every component reads it |
| handlers and life cycle (`main.py`) | none of their own | `lifespan`, `update_config`, `manual_import`, ... | all |
| timetable (`timetable.py`) | one JSON file | `parse`, `save`, `times_for` | `prayer.py` |
| authentication (`auth.py`, `main.py`) | `_DATA` in memory, `users.json`, `_attempts` | login, logout, change of password and name, lockout | browser cookies |
| audio library (`audio.py`) | a directory | upload, convert, delete, resolve | ffmpeg, page threads |
| city database (`geo.py`) | a static dataset | `city_record`, search | `update_config` |
| log buffer (`logbuf.py`) | a bounded queue and rotating files | append, snapshot | web client |
| web client (`static/index.html`) | loaded configuration, dirty fields, poll timers | load, edit, save, poll | all handlers |

### What is hard

* **The stop button.** `stop_active` runs on a request thread, beside a page thread that may be
  before, in or after any of its steps. The flag, the list of calls and the dict of the page are
  three fields, changed at different moments and under different locks.
* **Calls end in four ways**: the remote end hangs up, the file has been played, the wait expires,
  or the operator stops. Each of them reaches `done`, the library and the list of calls by a way of
  its own; a hang-up may be refused and a callback lost.
* **Restarts under a page.** Saving SIP settings tears the endpoint down while a page dials.
* **The job store is rebuilt, not updated.** `reschedule` removes every page and adds those of two
  days, without a lock, while jobs fire out of the same store and another rebuild may be running.
* **Two clocks.** APScheduler fires by the system clock; what is scheduled is decided by the
  NTP-corrected time.
* **Midnight.** The jobs of a day have two ids, one as "tomorrow" and one as "today".

### What makes each component correct

* Page threads: one page at a time has the line, every page that is triggered ends, and it leaves
  the shared fields as it found them.
* Calls: no call rings or plays once its page has given the line up. A page passes a destination
  over only for a stop of its own. What the dashboard shows belongs to the page that runs.
* Life cycle: a restart at any moment costs at most the page that runs.
* Schedule: each enabled page is played once and at its time; nothing that is disabled is played.
* NTP: one correction is applied once, and a wrong one does not last. Configuration: what was
  confirmed is on disk, and endpoint and jobs follow what is in memory. Timetable: what is served
  is what the last imported file says. Audio: a phone that answers in time hears the recording to
  its end. Location: the stored place is that of the city chosen, never of a namesake.
  Authentication: tokens of an earlier version stay invalid, also after a restart; the default
  password gives access to nothing but its change. Web client: an unsaved edit is marked as such.

## 2. The modules

### `Paging`: page threads, calls, stop and restart

| model | code |
| --- | --- |
| `pc`, `mode`, `todo`, `raised` | where each thread is in `_do_page` and `Endpoint.page`, and its locals |
| `dial` | where `_dial_one` is, for each call |
| `sip` | the dialog as the library sees it: `null`, `ringing`, `answered`, `ending` (hung up by us, not yet confirmed), `gone` |
| `done`, `audio`, `worker` | the event of a call, its player, the library's only worker |
| `page_lock`, `last_page` | `_page_lock`, `_last_page` (scheduler.py:21-22) |
| `active`, `active_calls`, `stop_requested` | `_active`, `_active_calls`, `_stop_requested` |
| `spc`, `target`, `snapshot` | a running `stop_active`: its copy of the list, the page it has marked |
| `ep`, `account`, `restart` | `Endpoint.ep`, `.account`, and how far a restart under `_lock` is |
| `registered` | the threads known to the current PJSIP endpoint (`_register_thread`) |
| `crash` | an abort of the process by the library |
| `pressed`, `stopped` | history for the properties; no action reads it |

An action is what one thread does between two points where another thread can be seen: a lock taken
or released, a shared field read or written, a call into the library. So `page()` is `EnterPage`
(the check under `_lock`), `ResetStop`, `SetActive`, the loop (`NextDest`, or `SpawnDial` in
parallel mode), `LoopEnds` (the end of the loop or the join), `Hide` and `ClearStop`; `_dial_one`
is `Construct`, `MakeCall`, `RegisterCall`, `WaitReturns`, `ForceHangup` and `UnregisterCall`, with
`ConstructRaises` and `MakeCallFails` for its exceptions; `stop_active` is `PressStop`,
`TakeSnapshot`, `StopHangup` (once for each call) and `StopReturns`.

The library is modelled by what the code relies on. `Answer`, `Disconnect`, `MediaActive` and
`StartPlayback` are its callbacks and need the worker. `MediaActive` occupies the worker until
`StartPlayback`, as the code sleeps for `answer_delay_ms` in the callback. A callback may be lost
(`getInfo` raising in `onCallState`). `LibDestroy` ends every call, and some of them hear of it. A
library call from an unregistered thread aborts the process: the Dockerfile builds pjproject with
its assertions, and the comment at sip_engine.py:388 says so too.

### `PageLine`: what the paging path promises

An abstract line that pages take in turn. Whoever has it calls each destination at most once and
gives it up, leaving a record, when it waits for no call any more. `Paging` implements it under
`LinePhase`, `LineCalls` and `LineTried`: a call is tried once `makeCall` has succeeded, and is
awaited until `_unregister_call`.

### `Schedule`: the job store, the daily refresh, two clocks

| model | code |
| --- | --- |
| `clock`, `offset` | the system clock, `ntp._offset_seconds` |
| `conf` | the adhans and iqamas enabled in the configuration |
| `jobs` | APScheduler's date jobs: for each id `prayer:<tag>:<name>[:iqama]` the date it was computed for |
| `refresh`, `misses` | the cron job `daily-refresh` |
| `rpc`, `since`, `left`, `now`, `adds` | a running `reschedule`: its place, its `get_jobs()` snapshot, the time it read, the jobs still to add |
| `up` | `lifespan` has yielded |
| `played`, `asof`, `alone`, `spoiled`, `excused`, `ahead` | history for the properties |

`ListJobs`, `RemoveJob`, `ReadNow`, `ListDay`, `AddJob`, `TodayDone`, `RescheduleReturns` are the
calls `reschedule` makes, one action each, since the loop can fire a job between any two of them
(APScheduler locks its store only within a call). `RemoveJob` has the exception as its second
alternative: a job of the snapshot that has fired meanwhile makes `remove()` raise, and the rebuild
ends half-way. `start()` and every save run on the event loop (`Loop`), so they never overlap each
other; the refresh runs on a pool thread (`Daily`) and may overlap them. `FireJob` takes a due job
out of the store, and starts its page unless it is later than `misfire_grace_time`. The offset is
fixed in a run, and may have either sign; `NtpClock` is about its changes. The service starts on day 2,
which by a corrected time behind the system clock may still be day 1.

### `NtpClock`: syncs beside each other

| model | code |
| --- | --- |
| `clockErr`, `offset` | the system clock, as its difference from true time; `_offset_seconds` |
| `lastSync`, `lastError` | whether `_last_sync` and `_last_error` are set |
| `conf`, `cfg` | the section `ntp`; what each running sync has read of it |
| `pc`, `meas` | where each thread is in `sync_once`, the offset its request measured |
| `jumps`, `alone`, `settled` | history |

The loop thread and any number of `/api/ntp/sync` threads run `sync_once`: `BeginSync`, `Request`
or `RequestFails`, `Store` or `StoreRaises` (a field of the answer that ntplib cannot read, after
the offset is assigned), then `Step`, `StepFails` and `Zero`, which are `_try_step_system_clock`.
Two assignments under `_lock` are two actions, since nothing keeps another sync out in between.
`date -s` takes whole seconds and some time: `Step` leaves the clock up to `MaxLag` behind.

### `Timetable`: the parser and its file

`DateLine`, `TimeLine` and `OtherLine` are the turns of the loop in `parse`, on abstract lines: a
date or one out of range, a prayer with a time or without one, anything else. `EndOfFile` drops
empty dates and begins `save`, `Replace` is `os.replace`, `Fails` an exception or a kill. The file
read so far is kept (`read`), so that the table can be compared with two readings of the whole file
that know no parser: `Given` (the last usable value under a date) and `Intended` (the last value).
`times_for` is the look-up with its fallback for 29 February. `Init`, `Next` and the type invariant
carry the module's name, since `PrayerTimesProofs` extends `Location` too.

### `AudioLibrary` and `Playback`: a recording on its way to the phone

`AudioLibrary` has the directory and the section `audio`: an upload (`UploadBegins`, and `UploadEnds`
or `UploadFails` minutes later) truncates the old recording at once, a delete looks the file up
before it removes it. `Playback` extends it by one page in time. `BeginPage` resolves a file name;
for each destination `Dial` reads the length and sets the deadline, the phone may answer, media may
become active before or after that, the file is opened `answer_delay` later, plays, and the call
hangs up `hangup_after_eof` after its end. `Expire` is the forced hang-up. `elapsed`, `timeout` and
`mark` count seconds, and a length is rounded up to them; `Deadline` has both values `int()` may make of
it (sip_engine.py:469). Media may come late or never, and `getAudioMedia` may raise (133-136): the call
is then silent until its deadline, and time goes on meanwhile.

`Paging` has all threads and no time; `Playback` has time and one call.

### `Location`: the city mode

A save of the section in one action: `Checked` (the corrections of `update_config` by
`geo.city_record`), `Merged` (`update_section`), `Normalised` and `Valid` (the validators). Codes, names
and regions are spelled by the clients: `Upper` and `Folded` are what the look-up makes of them
(geo.py:176, 185, 193), and the code is stored as it was sent. `city_record` returns the set of records it
may pick, since `max` of cities with the same population depends on their order; `available` says
whether the dataset can be imported.

`SavePage` is what `collectLoc` sends: `Shown` is the selection that `renderLoc` restores or a city picked
since, `Cleared` what picking another country or typing leaves of it, `Collected` and `Typed` the two
records of `collectLoc`. `SaveOther` is what other clients may send: any names and ids, a part of the
section, or a mode that only pydantic reads as a boolean. The name of the country and the local names are
left out: no look-up reads them.

### `WebClient`: unsaved edits and answers

| model | code |
| --- | --- |
| `server` | the configuration in `config._config` |
| `CFG`, `form`, `DIRTY` | the page's copy, the values on the screen, the sections marked as unsaved |
| `waiting` | the calls whose handlers wait; the button of each but a discard is disabled (`withBtn`) |
| `requests`, `answers` | under way to the server; processed and awaited |
| `timeline` | a `loadTimeline` under way |
| `typed`, `raced`, `mixed` | history |

A handler of the page is split at each `await`. Requests are processed in any order; a call may be
given up (the abort of `api`, a lost connection) before or after it was processed. `Refuse` leaves the
server as it was; `Stored` is a request whose section is stored and which may nevertheless be reported as
failed (the write of the file, the restart, the rebuild: main.py:264-279, 326-328). A discard may be
pressed again while one is awaited (`Discards`), and the poll of every minute asks for the prayer times
(`PollTimes`).

Two sections stand for those that the server stores as sent and that the page renders from `CFG`. Four
parts of the page are not like that, and are not covered: the *location* (the server may correct it, and
`save` does not render the correction, index.html:1403-1406); the *audio* form (rendered by a second fetch
after a discard has unmarked it, 825, 829, 1335, and by `setLang` over unsaved edits, 1683); the *call*
form (`renderDest` rebuilds it with the rows, 1040-1048, so that an edit in it is lost while its mark
stays); and the button that saves location and method in one handler (1953).

### `Settings`: memory, file, and what was built from them

| model | code |
| --- | --- |
| `memory`, `file` | `config._config`, the YAML file |
| `table` | `manual_timetable.json` |
| `transport`, `account` | the SIP section that each half of the endpoint was created from |
| `jobs` | the prayer section and the timetable that the job store was built from |
| `lock` | `Endpoint._lock` during `start` and `restart` |
| `pc`, `req` | where the event loop and a pool thread in `sip_reconnect` are, and what the loop serves |
| `kept`, `behind` | history: the contents a client may expect, and what a failed request has left on older settings |

A section of the model stands for those that a save treats alike (`needs_restart` and
`needs_reschedule` in `update_config`), and a value for all of its content. `Assign`, `WriteTmp`
and `Replace` are `update_section` and `save`, in their order: memory first, then the temporary
file, then `os.replace`. What follows is decided in `Replace`: `Teardown`, `CreateTransport` and
`CreateAccount` are `Endpoint.restart`, which `sip_reconnect` may enter from a pool thread at any
time and which reads the configuration twice; `Rebuild` is `reschedule`, whose own steps are in
`Schedule`. The start-up goes through the same actions with the request `Boot`. `WriteFails`,
`SaveTableFails`, `AssignRejects`, `LibraryRaises` and `RebuildRaises` are the ways out, and `Crash`
may come between any two steps.

Left out: `sip.enabled = False`, the daily refresh (see `Schedule`) and the reads of a running page.

### `Accounts`: the operator and the sessions

| model | code |
| --- | --- |
| `memory`, `disk` | `_DATA`, `users.json`: the secret and the user with its `token_version` |
| `secrets` | how many secrets `_load` has generated |
| `handling` | the requests that have passed `auth_guard` and wait for their handler |
| `issued`, `ended` | history: tokens sent to a browser, and those a client was told have ended |
| `known` | history: the password last confirmed and those tried after it |

The guard and the handler of a request are two actions (`Guard`, and one action for each handler),
since the middleware awaits the body between them. A handler changes the user in memory and then
saves, so each has a `saved` that may be false: the client gets an error, and memory is ahead of the
file. `DeleteFile` is the reset that the comment in `_load` advises; the running process goes on
with what it has and its next save brings the file back. A restart without a file makes a new
secret.

Left out: the lockout (a count and a time for each address, kept by handlers that never overlap),
the CSRF comparison, the age of tokens, and the start that fails on an invalid `users.json`
(`AuthStoreError`, auth.py:90-101): the store is replaced as a whole, so this code never writes one.

### `PagingProofs`, `SettingsProofs`, `AccountsProofs`, `NtpClockProofs`, `PrayerTimesProofs`,
`ScheduleProofs`, `PlaybackProofs`, `WebClientProofs`

The theorems about these modules; see section 5.

## 3. The runs

| run | what it asks | bounds |
| --- | --- | --- |
| `page_two_jobs` | two pages contend while an operator may press stop again and again: one page dials at a time, it is the page shown, it leaves no call and no list entry behind, is cut short only by a stop of its own, and is connected only by a call of its own; the path implements `PageLine` | 2 pages, 1 destination, both modes, 1 stop at a time |
| `page_faults` | with restarts at any point of a page, refused hang-ups and phones that do nothing: no destination is passed over, and the page ends | 1 page, 2 destinations, both modes |
| `schedule` | over midnights, with saves, a refresh that may misfire and a clock that is right, behind or ahead: no page is replayed but for a clock that is ahead, none is missed but for a rebuild or a clock that is behind, and the store is what the configuration says | 1 page a day, 3 ticks a day, days 2 to 4, offsets -1, 0 and 1, 1 refresh in a row that misfires |
| `settings` | saves, imports and reconnects, with writes that fail, settings PJSIP refuses and a kill at any point: the file loads, what was confirmed is kept, endpoint and jobs follow the settings, the service comes back | SIP: 2 usable contents and 1 refused; prayer: calculated and manual; 2 timetables; 1 kill; 1 reconnect at a time |
| `accounts` | requests that interleave between guard and handler, with saves that fail, restarts and a store that is deleted: ended sessions stay ended, running ones survive a restart, the password in force is known, the default password is confined | 2 requests, 2 names, 2 passwords, 4 versions, 2 secrets; requests symmetric |
| `ntp` | syncs that overlap, fail, step the clock or may not: a lone one leaves the corrected time right, and the loop makes it right in the end | the loop and 1 operator, errors -3, 0, 4 half seconds, lag up to 2, 1 jump of the clock |
| `timetable` | imports one after another, any of them failing: what is served is what the last stored file says, and every date of a leap year is served | 2 prayers, 2 times, 3 dates, files of up to 4 lines; prayers and times symmetric |
| `playback` | one page in time, while its file is converted, deleted and assigned anew, and media comes early, late or never: who can hear in time hears the whole recording, a phone is not called in vain, the page ends | 2 calls, 2 files, recordings of 1 and 2 s, cap 2 s, ring 1 s, delays 1 s, margin 2 s |
| `location` | saves of any kind with and without the dataset: a place that was looked up is that of one city, never of a namesake, and saving the page as it stands does not move it | 6 cities: 5 with the same name, in 2 countries, 2 regions and none; 1 code, name and region in another case, a blank region |
| `web` | an operator edits while calls are answered late, out of order, refused, given up, or reported as failed though they were stored: no edit loses its mark or is overwritten unseen, and what is unmarked is what the server has | 2 methods, 2 lists of rows, 2 discards at a time (each interchangeable), manual or computed times; 3 requests, of which an import takes two |
| `stop_misses_call` | **violated**: after a stop has returned, the page's calls are silent | 1 page, 1 destination |
| `unknown_thread` | **violated**: the library is called from known threads only | 1 page, 2 destinations |

The violated properties say what a docstring or the dashboard says; PROJECT.json quotes the line
and tells the story of each counterexample.

**Why these bounds are enough.** Two pages are what the lock, the shared fields and a late callback
of the previous page need. Two destinations are what the loop and parallel dialling need. One stop
at a time is enough, since `StopReturns` lets it start again and stops share nothing but the flag
and idempotent hang-ups. No page is triggered twice: a second page of the same prayer is another
element of `Jobs`. The invariants are also proved for any number of each. In `Schedule` one page a day
is another element of the store as "today" and as "tomorrow", on three days, so that a schedule can
be used up: a save on one day, a refresh that misfires on the next, one that must come in time on
the third. Of the three ticks of a day the refresh has the second and the page the third, so that a
clock that is a tick ahead or behind puts the corrected time across the page, or across midnight.
`Span = 1` lets a rebuild stretch over one change of the clock, so that a page falls due
in the middle of it, and keeps it from taking days; `MaxMisses = 1` is the longest gap the two
scheduled days can bridge, which `HorizonSuffices` says for any times of day. `ScheduleProofs` covers
any number of pages, days and configurations. `LastDay` stops the clock,
which is why this run does not check for deadlock; the `Paging` and `Location` runs do.
In `Settings` two usable SIP contents tell the old endpoint from the new one, the refused one makes
the endpoint fail, and a kill shows what is lost with the process; a second one would find what the
first can leave as well. In `Accounts` four versions allow three changes in
a row, so that two can fail to be saved and the third succeed, or be lost in a restart and their
version numbers given out again. Two secrets are one reset. The bounds on versions and
secrets can stop that model, so it is not checked for deadlock; nor is `settings`, where a first
start that cannot write and a start with refused settings just repeat.

`NtpClock`: two threads are enough for a step and a store to cross; both signs of an error tell a
doubled correction from one that cancels out, and 4 and -3 exceed the lag, so that such an error cannot
pass as right. `Timetable`: four lines hold two blocks of a date and a line of either kind, and a date
out of range between them; 28 and 29 February and one other date are the ones the look-up tells apart.
`Playback`: with the margin one recording gets the cap and the other, unless `int()` takes a second off
it, a deadline of its own; the margin is above the delay as in the default configuration (10 s and 1.5
s), and two destinations read the length of a file that may change in between. `Location`: every step of
the search has two candidates that a wrong step would confuse, the most populous not always being the
right one, and each comparison a spelling that matches only as the code compares it. `WebClient`:
"prayer" is the section that is rendered in the background, "destinations" one that only the operator's
buttons render; two discards are what an enabled button adds; three requests allow two that overlap and
a third that goes by what they have left, or an import, with the reload that follows it, and a save. The
counts of calls, jumps and lines can stop these models, so `ntp`, `timetable` and `playback` (no page
has to begin) do not check for deadlock; `web` does, since editing never ends.

**Fairness.** `Paging!Fairness` assumes that threads are scheduled, that a bounded wait expires
(`done.wait(timeout)`, sip_engine.py:472), that the worker's sleep ends and that a restart under way
proceeds. Two conditions come and go with somebody else's steps and get strong fairness: a page that
waits for `_lock` (`EnterPage`) gets it between two restarts, and `libDestroy` gets the worker between
two callbacks. Nothing is assumed of phones, of the operator or of new pages. With that,
`TriggeredPageEnds` rests on the bounded wait, and its mutant removes it. `Settings!Fairness` assumes
that both threads are scheduled and that the process is started again (`restart: unless-stopped` in
docker-compose.yml), and that a save that waits for `_lock` gets it between two reconnects; nobody has
to send a request, and writes need never succeed. `ServesAgain` names its two exceptions: settings in
the file that PJSIP refuses end each start, and so does a file that cannot be created.
`NtpClock!Fairness` assumes that the loop wakes up (`stop.wait(interval)`), that a sync that has begun
takes its next step (the request has a timeout of 5 s, `date` too), and that not every request of the
loop fails for ever: strong fairness of `Request(Loop)`, and nothing of the kind for the operator's.
`ClockRecovers` needs it, its mutant drops the repetition. `Playback!Fairness` assumes that time passes,
that the sleep of `answer_delay_ms` ends, that the wait of `_dial_one` expires and that the page goes on
to the next destination. Phones need not answer, media need not come, the player need not report the end
of the file, and nobody has to page: `PageEnds` rests on the deadline alone. The other modules have no
fairness.

## 4. Reading the properties

* `LiveCallIsOwned` and `ConnectedIsReal` speak of runs in which no hang-up is refused. A refused
  hang-up is swallowed (sip_engine.py:474), and the call does ring on after its page.
* `LiveCallIsOwned` does not say that calls of two pages never exist at once: a call that has been hung
  up and not yet confirmed may outlast its page. No call that can still be *heard* does.
* `SkippedOnlyIfStopped` says when a stop cuts a page short. The converse does not hold: a flag raised
  before `ResetStop` is lost, although the stop may mark the page a moment later.
* `NoPageMissed` excuses a page whose time comes during a rebuild. Its job may be off the store at that
  moment, and the rebuild adds only pages later than the time it reads.
* `LoneRescheduleMatches` and `LoneRescheduleReplaysNothing` speak of rebuilds that do not overlap.
  Without `alone`, TLC finds a job that a refresh adds after a save has removed it, and a page that one
  rebuild adds after the loop has played the copy added by the other. With a system clock that is ahead
  of the corrected time a lone save replays a page too: within `misfire_grace_time` the page it has just
  heard is still in the future for `reschedule`. The run has such a clock, and
  `LoneRescheduleReplaysNothing` exempts exactly the pages between the two times (`ahead`); without the
  exemption TLC finds the replay.
* `NoPageMissed` also needs `HorizonSuffices` (Schedule.tla): no page is due after midnight, and the
  refresh that does not misfire comes before two days are used up. And it needs a refresh that reads the
  date it fires on: with a system clock that is ahead by more than a minute the refresh at 00:01 still
  reads the day before, and what it schedules ends a day too early (`RefreshAt + offset >= 0`).
  `ClocksAreClose` says that the clocks are less than a day apart. `HorizonSuffices` and
  `ClocksAreClose` are hypotheses of the theorems, and `MCSchedule` assumes both.
* `SettledIsRight` is about syncs that did not overlap. When they do, one may step the clock and another
  then store the offset it measured before: the correction is applied twice, until the next sync. That
  is why `ClockRecovers` is stated with "in the end".
* `WellFormedIsServed` speaks of files with one block for each date. In others a blank value does not
  clear a time an earlier block has set, and the docstring (timetable.py:18) and the help text ("A blank
  time skips that prayer", index.html:1666) can be read either way. It excludes a date of blanks only:
  `parse` drops it, and 29 February then takes the times of the 28th.
* `NotCutShort` needs `answer_delay < Margin` (answer_delay_ms at most 9 s, as `int()` may take up to a
  second off the length), media that is active within `ring_timeout`, and a file that stays as it was;
  `NotSilent` needs the last. A file is converted in place, so an upload under the name of a recording
  in use silences the calls made meanwhile.
* `CityPlaceIsReal` is about saves that send the mode as a boolean (`checked`). One that leaves
  `use_manual` out, or sends what only pydantic reads as one, is not looked up (main.py:247): it may
  move the coordinates and keep the name of the city. The country is right up to the case of its code:
  `ly` is found, and stored as `ly`. Its name, which the model leaves out, is stored as sent too.
* `ResaveKeepsPlace` does not say that opening the page and saving it never moves the place. A section
  in the mode by city that was stored unchecked, or before there were ids, is looked up by that save and
  moves to the city it names. And a section may name an id without a city, which `collectLoc` does not
  send (index.html:1163, 1296): the save empties it.
* `EditIsMarked` has two exceptions, both in the code. An edit made while a save of its section is
  awaited is unmarked by the answer (`raced`; index.html:1405). An import (index.html:2001), or a new
  login after the session has expired (index.html:1681), renders forms anew and drops unsaved edits in
  them; `typed` then forgets these. Parts of the page that are not modelled have more exceptions
  (section 2).
* `UnmarkedIsStored` is about calls made one at a time and answered (`mixed`): answers that overtake
  each other leave an older configuration in `CFG`. It also needs that none was reported as failed after
  its section was stored and while it was not marked. An import does that when the rebuild raises
  (main.py:328): the source is manual by then, the page says "Import failed" (index.html:2004), fetches
  nothing and goes on to show the computed times. A save that fails so late keeps its mark.

### What the code does otherwise than its docs say

Two such disagreements are runs (above). The others are shown by these modules too, by giving a run
another constant or by stating one more formula:

* *The offset and APScheduler.* `ntp.py:5` says scheduling stays correct without a step of the system
  clock. The offset decides which jobs are added; they fire by the system clock. In `schedule`,
  `played[p]` grows when `clock`, not `clock + offset`, is `Due(p)`.
* *Pages after midnight* are removed by the refresh at 00:01. Without the assumption of `MCSchedule`,
  a page at tick 5 of its day of 3 makes `NoPageMissed` fail; two refreshes that misfire in a row do too.
* *A rebuild that raises.* `RemoveJob`'s second alternative is reachable: a job fires between
  `get_jobs()` and its `remove()`. `NoPageMissed` and `LoneRescheduleMatches` say what it costs.
* *"play file on answer"* (sip_engine.py:79). With `EarlyMedia` a file plays into a ringing phone.
* *"seconds to wait for answer"* (config.py:48). `ring_timeout` is a part of one deadline for the whole
  call: an unanswered phone rings until `Deadline`.

* `EndpointMatchesSettings` and `JobsMatchSettings` are about the time between two saves, and
  `behind` is the excuse of each. A save whose write fails has already changed memory, and neither
  restarts nor rebuilds; a rebuild that raises leaves jobs missing. The next save of that section,
  or a reconnect, mends it.
* `ConfirmedIsDurable` lets a section be newer than what was confirmed: a save whose write failed
  stays in memory, and the next save of *any* section writes it too.
* `PasswordIsKnown` has the same reason: after a change that could not be saved, memory has the new
  password and the file the old one, and a restart brings the old one back.
* `EndedStaysEnded` ends a session only when its end was confirmed. After a logout whose save fails
  the version in memory is ahead; a restart takes it back, and the session is accepted again.

## 5. What is proved

`PagingProofs` proves, for all values of the constants that satisfy `PagingAssumption` (any set of
pages, destinations and stops, one or both modes, with or without refusals and restarts):

| theorem | statement |
| --- | --- |
| `TypeCorrect` | `TypeOK` |
| `PagesTakeTurns` | `OneJobDials` |
| `DiallingShown` | `DiallingIsShown` |
| `NoCallIsLeftBehind` | `LiveCallIsOwned` |
| `LineIsLeftClean` | `IdleLineIsClean` |
| `NoPageIsCutShort` | `SkippedOnlyIfStopped` |
| `ConnectedIsTrue` | `ConnectedIsReal` |
| `Refinement` | `Safety => ImplementsPageLine` |

None of the invariants is inductive alone. `IInv` adds what ties the fields together: the lock is
held exactly by the thread inside the `with` statement (`LockInv`); a destination is dialled only
while its page is in its loop, one at a time in sequential mode (`DialInv`); a destination still to
be dialled has no call, so none is dialled twice (`FreshInv`); `_active` is set exactly from
`SetActive` to `Hide` (`ShownInv`); only calls `_dial_one` still waits for or is about to drop are
listed (`ListInv`); `done` is set only for calls that are gone (`DoneInv`), hence, if hang-ups work,
a call leaves the wait ended or hung up (`LiveInv`); and a raised flag that a running page can see
was raised while it ran (`SkipInv`, from the reset at the start of `page`, since the flag may be
raised at any time before it). Each part has a lemma that goes through the actions in turn; the
theorems follow from `IInv` in a few lines each. `NextRefines` maps every action to a step of
`PageLine` or to a stutter: `Acquire` is `Take`, `MakeCall` is `Place`, `UnregisterCall` is
`Return`, and `Skip` and `Release` are `Give`, for which `IInv` supplies that no call is awaited.

`SettingsProofs` proves, for any contents of the sections (`SettingsAssumption`), any timetables and
any number of kills:

| theorem | statement |
| --- | --- |
| `SettingsTypeCorrect` | `TypeOK` |
| `FileLoadsAfterAnyKill` | `FileAlwaysLoads` |
| `SavedSettingsAreDurable` | `ConfirmedIsDurable` |
| `EndpointFollowsSettings` | `EndpointMatchesSettings` |
| `JobsFollowSettings` | `JobsMatchSettings` |

The properties speak of the moments between two saves; `IInv` says what holds within one. Where the
loop is and what it serves go together (`PlaceInv`), and the lock says which thread builds the
endpoint (`EngineInv`). After the assignment the section is in memory, after `os.replace` in the
file, until the answer (`SavedInv`), so that what is confirmed is what was stored (`KeptInv`). The
endpoint may differ from memory only between the assignment of a SIP section and the teardown
(`SipInv`): a reconnect that reads the transport's settings before that assignment and the account's
after it is torn down by the save, which has to wait for its lock. The jobs may differ only from the
first change of what they are made of to the rebuild (`JobsInv`).

`AccountsProofs` proves, for any number of requests, names, passwords, versions and resets:

| theorem | statement |
| --- | --- |
| `AccountsTypeCorrect` | `TypeOK` |
| `EndedSessionsStayEnded` | `EndedStaysEnded` |
| `RestartKeepsSessions` | `SessionsSurviveRestart` |
| `OperatorKnowsPassword` | `PasswordIsKnown` |
| `DefaultPasswordOnlyChanges` | `DefaultPasswordIsConfined` |

The argument compares versions under the same secret. The file is equal to memory or has an earlier
version (`DiskInv`); no token is ahead of either (`TokenInv`), as one is issued only after a save;
a token that has ended is behind both (`EndInv`), since it ends only with a save too. A restart
replaces memory by the file, and versions that were never saved may be given out again: no token
carries them. A reset makes a secret that no earlier token has. `DefaultPasswordIsConfined` needs
that the default password never comes back into force, hence the guard of a request still holds when
it is handled (`RunInv`, `UserInv`).

`NtpClockProofs` proves, for any number of operators' threads, any errors of the clock and any lag
(`NtpAssumption`):

| theorem | statement |
| --- | --- |
| `TypeCorrect` | `TypeOK`: every stored offset answers an error of the clock |
| `SettledRight` | `SettledIsRight` |

`LoneInv` says what a lone sync knows: between request and store it carries the error of the clock,
between store and step the offset cancels that error, and before `Zero` the clock is right but for
the lag. While `settled` holds, every sync that runs is alone.

`PrayerTimesProofs` is about both sources of a prayer's time. It proves, for any dataset whose ids are
unique and whose time zones are known (`LocationAssumption`):

| theorem | statement |
| --- | --- |
| `TypeCorrect` | `TypeOK` |
| `CityPlaceReal` | `CityPlaceIsReal` |
| `PickStored` | `PickIsStored` |
| `NeverAnother` | `NeverAnotherCity` |
| `ResaveKeeps` | `ResaveKeepsPlace` |

The lemmas follow a save through `city_record`, `Corrected`, `Checked`, `Merged` and `Normalised`. A
found city determines every field but the country, which is the one sent; an id belongs to at most one
city; a section in the mode by city has an id once it has been looked up, so that looking it up again
finds the same city or none. The spellings are arbitrary functions (`Upper`, `Folded`).

and, for any prayers, times, dates and lines (`TimetableAssumption`, and `FileAssumption`, which only
says that an unreadable file is no table):

| theorem | statement |
| --- | --- |
| `TimetableTypeCorrect` | `TimetableTypeOK` |
| `OneImport` | `LoadsOneImport` |
| `WellFormedServed` | `WellFormedIsServed` |
| `EveryYear` | `YearRepeats` |

The parser forgets each line as it goes on; `ParseInv` says what is left of them. `curKey` is the
date of the lines read so far (`DateAt`), and the table holds for each date and prayer the time of the
latest line that gives one (`ReadInv`: it equals `Given(read)`). That such a latest line exists is a
fact about sets of numbers, `LatestIsLast`, from the library's well-founded order of the naturals. For a
file with one block for each date the latest line with a usable value is the latest line
(`Given = Intended`), which makes what is served what was meant.

`ScheduleProofs` proves, for any slots, times of day, configurations that may be saved, offsets, number of
days, grace and span (`ScheduleAssumption`):

| theorem | statement |
| --- | --- |
| `TypeCorrect` | `ClocksAreClose => TypeOK` |
| `ReplaysNothing` | `ClocksAreClose => LoneRescheduleReplaysNothing` |
| `StoreMatches` | `ClocksAreClose => LoneRescheduleMatches` |
| `NoneMissed` | `ClocksAreClose`, `HorizonSuffices` `=> NoPageMissed` |

Both hypotheses are real limits of the code, shown in section 4, and not of the proof. `LoneInv` is
about rebuilds that do not overlap. A rebuild that has removed what it has listed leaves a store
without a page; from the moment it reads the time, every page in the store or still to be added is
enabled, of the date its id says, later than that time and not played (`StoredOnce`,
`StoreOf`); when it returns, this holds of the time it read (`StoreAtRest`). A page added is
still to come by the corrected time; so it is to come by the system clock and cannot have been played, or
it is one of `ahead`.
`HorizonInv` allows overlaps, and only looks at rebuilds that read the same date: an enabled page
of the two days is in the store, about to be added, over, or excused (`KeptInv`), and what was scheduled
is not older than the last refresh that fired (`FreshInv`, with `RefreshInv` for the misfires since
then). `HorizonSuffices` then says that the days scheduled reach past the present, so that a page whose
time comes is there to be fired (`PastInv`).

`PlaybackProofs` proves, for any names, lengths, timeouts and number of destinations
(`PlaybackAssumption`, `LibraryAssumption`):

| theorem | statement |
| --- | --- |
| `TypeCorrect` | `TypeOK` |
| `HeardInFull` | `NotCutShort` |
| `NotCalledInVain` | `NotSilent` |

`CallInv` adds up the phases of a call whose file is as it was: the file starts at most `answer_delay`
after the media became active and ends its length later; the deadline, fixed before the phone rang, leaves
room for both and the ring time, but for a second. `PageInv` says that the name a page has resolved is
that of a file.

`WebClientProofs` proves, for any methods and rows and any number of requests (`WebClientAssumption`):

| theorem | statement |
| --- | --- |
| `TypeCorrect` | `TypeOK` |
| `EditMarked` | `EditIsMarked` |
| `RefreshKeeps` | `RefreshKeepsEdits` |
| `UnmarkedStored` | `UnmarkedIsStored` |

An answer unmarks a section without looking at it, so the argument has to follow a save from its
button to its answer. `CallInv` says that what is awaited is under way once, as a request or as an
answer; `SaveInv`, that it carries what the form shows, unless the operator has typed since (`raced`).
For calls made one at a time (`CalmInv`) a successful answer carries the server's configuration, and
until it is handled only the section it saves, marked sections, or the forms about to be rendered anew
(`Replaced`), may differ from it. That a call is under way *once*, which `TypeOK` says, is what the
buttons are disabled for: two requests of one save could carry different edits, and the answer to the
first would unmark the second.

**Only model-checked** are the liveness properties `TriggeredPageEnds`, `ServesAgain`, `ClockRecovers`
and `PageEnds`: fairness and `ENABLED` are beyond this prover. The violated properties have no
theorem, a counterexample being the point. Every other property of the runs is a theorem. The models
need no recursive operator, and nothing is proved by induction over data: what `Timetable` has
parsed is an invariant of its loop, and lists are compared line by line.

## 6. Not modelled

* *In `Paging`*: codecs, URIs, durations, the texts of the dashboard, and the registration status.
  Timeouts are untimed, so nothing is said of how long a page takes.
* *In `Schedule`*: how a time is computed (adhanpy is a library), daylight saving, a change of
  timezone (the daily refresh keeps the one of the start, scheduler.py:162), a full APScheduler pool.
* *In `Playback`*: pages in parallel mode, settings that change in a call.
* *In `WebClient`*: the forms of location, audio and calls and the button that saves location and method
  (section 2), polling of the status, uploads, the account and log tabs, what is rendered.
* *In `Location`*: the name of the country and the local names, the pickers' searches.
* *In `Accounts`*: the lockout, CSRF, the age of tokens, a start with an invalid `users.json`.
* *The log buffer*: a `deque(maxlen=...)` and a rotating file, both of the library.
* *The parts without a module*: see PROJECT.json, `components`. Vendored flags and styles, the
  Dockerfile and the preflight script have no state to model.

## 7. Plan

Every module is checked, and every safety property of the runs is proved. What is left, in the order of
what it would tell:

1. *An abstract schedule*: a calendar that owes each enabled page once and plays it when it is due,
   implemented by `Schedule` while rebuilds do not overlap. `StoreAtRest` and `PastInv` hold what its
   refinement needs.
2. *Weaker hypotheses*: `NoPageMissed` for times after midnight that the configuration does not enable,
   and `LoneRescheduleMatches` when an overlap is over and a lone rebuild has followed it.
3. *The hazards without a property* (PROJECT.json): media before the answer, pages after midnight, a refresh
   that overlaps a save, the corrected time against the system clock, the timezone of the daily refresh, an
   endpoint that cannot start, a later blank in a timetable, an edit during its save, a deleted file with a
   default. Each is a behaviour of the code, all but the timezone shown by the models, and needs a decision
   of what the code should do.
4. *The partly modelled components*: `shutdown` at the end of the process, the login lockout with its
   clock, the search of the city database.
