------------------------------- MODULE Paging -------------------------------
(***************************************************************************)
(* The paging path of Adhan Pager: page threads (scheduler._do_page and    *)
(* _do_page_file) that take turns under _page_lock, the calls they place   *)
(* through sip_engine.Endpoint.page, the PJSIP library with its single     *)
(* worker thread (uaConfig.threadCnt = 1), the operator's stop button      *)
(* (Endpoint.stop_active) and engine restarts (Endpoint.restart).          *)
(*                                                                         *)
(* Every step is what one thread does between two points where another     *)
(* thread can be seen: a lock taken or released, a shared field read or    *)
(* written, a call into the library.  Timeouts are untimed: a wait may     *)
(* expire at any moment.                                                   *)
(***************************************************************************)

CONSTANTS
    Jobs,      \* page threads: scheduled jobs, "manual-page", "test-play"
    Dests,     \* the enabled destinations of a page
    Modes,     \* the values of config.call.mode considered
    Stoppers,  \* requests of POST /api/page/stop that may run at once
    Refusals,  \* TRUE: hangup() may raise and leave the call up
    Restarts,  \* TRUE: an operator may save SIP settings or reconnect
    NoJob,     \* nobody: the page lock is free, nothing is on the line
    NoCall     \* the library's worker is not inside a media callback

\* A page places at most one call per destination.
Call == Jobs \X Dests
JobOf(c) == c[1]
\* The deferred hang-up thread that _on_audio_finished starts for call c.
EofThread(c) == <<"eof", c>>

ASSUME PagingAssumption ==
    /\ Modes \subseteq {"sequential", "parallel"}
    /\ Refusals \in BOOLEAN
    /\ Restarts \in BOOLEAN
    /\ NoJob \notin Jobs
    /\ NoCall \notin Call

VARIABLES
    \* page threads
    pc,             \* where each page thread is
    mode,           \* the mode its page() was called with
    todo,           \* destinations its loop has not reached yet
    raised,         \* threads whose page() raised
    \* calls
    dial,           \* where _dial_one is, per call
    sip,            \* the library's view of the call
    done,           \* the threading.Event of the call
    audio,          \* playback into the call
    worker,         \* the call whose media callback occupies the worker
    \* shared fields of scheduler and Endpoint
    page_lock, active, active_calls, stop_requested, last_page,
    \* operator stops
    spc, target, snapshot,
    \* endpoint life cycle
    ep,             \* Endpoint.ep and Endpoint.instance are set
    account,        \* Endpoint.account is set
    restart,        \* progress of restart() under _lock
    registered,     \* threads known to the current PJSIP endpoint
    crash,          \* why the process aborted, if it did
    \* history: read by no action
    pressed,        \* pages during which the stop flag was raised
    stopped         \* pages shown as stopping by a stop that has returned

pageVars    == <<pc, mode, todo, raised>>
callVars    == <<dial, sip, done, audio, worker>>
sharedVars  == <<page_lock, active, active_calls, stop_requested, last_page>>
stopVars    == <<spc, target, snapshot>>
engineVars  == <<ep, account, restart, registered, crash>>
historyVars == <<pressed, stopped>>
vars == <<pageVars, callVars, sharedVars, stopVars, engineVars, historyVars>>

-----------------------------------------------------------------------------
PageInfo == [job : Jobs \cup {NoJob}, connected : BOOLEAN, stopping : BOOLEAN]
NoPage == [job |-> NoJob, connected |-> FALSE, stopping |-> FALSE]
NoRecord == [job |-> NoJob, ok |-> FALSE]

Live == {"ringing", "answered"}          \* rings or can be heard
Up   == Live \cup {"ending"}             \* the dialog still exists
\* _dial_one holds a call it has placed.
Placed == {"made", "wait", "expired", "unreg"}
\* _dial_one is running.
Dialling == {"spawned", "start", "dial", "dangling"} \cup Placed

\* The thread that runs _dial_one of call c: the page thread itself, or the
\* thread _page_parallel started for the destination.
Thread(c) == IF mode[JobOf(c)] = "parallel" THEN c ELSE JobOf(c)

\* _register_thread: makes t known to the endpoint, if there is one.
Register(t) == registered' = IF ep THEN registered \cup {t} ELSE registered

\* Call.hangup: ends the dialog, or raises (on a call already gone, or
\* because the library refuses); every caller swallows the exception.
HangUp(c) ==
    \/ sip' = [sip EXCEPT ![c] = IF @ \in Live THEN "ending" ELSE @]
    \/ Refusals /\ sip' = sip

\* A sequential page continues its loop when _dial_one returns.
Resume(c) == pc' = [pc EXCEPT ![JobOf(c)] =
                        IF @ = "dialling" THEN "next" ELSE @]

Init ==
    /\ pc = [j \in Jobs |-> "idle"]
    /\ mode \in [Jobs -> {"sequential"}]
    /\ todo = [j \in Jobs |-> {}]
    /\ raised = {}
    /\ dial = [c \in Call |-> "idle"]
    /\ sip = [c \in Call |-> "null"]
    /\ done = [c \in Call |-> FALSE]
    /\ audio = [c \in Call |-> "silent"]
    /\ worker = NoCall
    /\ page_lock = NoJob
    /\ active = NoPage
    /\ active_calls = {}
    /\ stop_requested = FALSE
    /\ last_page = NoRecord
    /\ spc = [s \in Stoppers |-> "idle"]
    /\ target = [s \in Stoppers |-> NoJob]
    /\ snapshot = [s \in Stoppers |-> {}]
    /\ ep = TRUE
    /\ account \in BOOLEAN
    /\ restart = "idle"
    /\ registered = {}
    /\ crash = "none"
    /\ pressed = {}
    /\ stopped = {}

-----------------------------------------------------------------------------
(* The page thread: scheduler._do_page around Endpoint.page.               *)

Goto(j, from, to) == pc[j] = from /\ pc' = [pc EXCEPT ![j] = to]

\* A job fires, page_now or play_file_now starts its thread.
Trigger(j) ==
    /\ Goto(j, "idle", "blocked")
    /\ UNCHANGED <<mode, todo, raised, callVars, sharedVars, stopVars,
                   engineVars, historyVars>>

Acquire(j) ==
    /\ Goto(j, "blocked", "resolve")
    /\ page_lock = NoJob
    /\ page_lock' = j
    /\ UNCHANGED <<mode, todo, raised, callVars, active, active_calls,
                   stop_requested, last_page, stopVars, engineVars,
                   historyVars>>

\* Nothing to play or nobody to call: the page is recorded as failed.
Skip(j) ==
    /\ Goto(j, "resolve", "over")
    /\ last_page' = [job |-> j, ok |-> FALSE]
    /\ page_lock' = NoJob
    /\ UNCHANGED <<mode, todo, raised, callVars, active, active_calls,
                   stop_requested, stopVars, engineVars, historyVars>>

Resolve(j) ==
    /\ Goto(j, "resolve", "enter")
    /\ \E m \in Modes : mode' = [mode EXCEPT ![j] = m]
    /\ todo' = [todo EXCEPT ![j] = Dests]
    /\ UNCHANGED <<raised, callVars, sharedVars, stopVars, engineVars,
                   historyVars>>

\* page() refuses to start without an endpoint and an account; the check
\* waits for a restart in progress, which holds _lock.
EnterPage(j) ==
    /\ restart = "idle"
    /\ \/ ep /\ account /\ Goto(j, "enter", "reset") /\ UNCHANGED raised
       \/ ~(ep /\ account) /\ Goto(j, "enter", "record")
          /\ raised' = raised \cup {j}
    /\ UNCHANGED <<mode, todo, callVars, sharedVars, stopVars, engineVars,
                   historyVars>>

\* Seeded fault: the flag is only reset when a page ends.
ResetStopKeepsFlag(j) ==
    /\ Goto(j, "reset", "show")
    /\ Register(j)
    /\ UNCHANGED <<mode, todo, raised, callVars, sharedVars, stopVars, ep,
                   account, restart, crash, historyVars>>

ResetStop(j) ==
    /\ Goto(j, "reset", "show")
    /\ Register(j)
    /\ stop_requested' = FALSE
    /\ UNCHANGED <<mode, todo, raised, callVars, page_lock, active,
                   active_calls, last_page, stopVars, ep, account, restart,
                   crash, historyVars>>

SetActive(j) ==
    /\ Goto(j, "show", "next")
    /\ active' = [NoPage EXCEPT !.job = j]
    /\ UNCHANGED <<mode, todo, raised, callVars, page_lock, active_calls,
                   stop_requested, last_page, stopVars, engineVars,
                   historyVars>>

\* Seeded fault: a destination may be called again.
NextDestRepeats(j) ==
    /\ mode[j] # "parallel"
    /\ ~stop_requested
    /\ \E d \in todo[j] : dial' = [dial EXCEPT ![<<j, d>>] = "start"]
    /\ Goto(j, "next", "dialling")
    /\ UNCHANGED <<mode, todo, raised, sip, done, audio, worker, sharedVars,
                   stopVars, engineVars, historyVars>>

\* The sequential loop looks at the stop flag before every destination.
NextDest(j) ==
    /\ mode[j] # "parallel"
    /\ ~stop_requested
    /\ \E d \in todo[j] :
          /\ todo' = [todo EXCEPT ![j] = @ \ {d}]
          /\ dial' = [dial EXCEPT ![<<j, d>>] = "start"]
    /\ Goto(j, "next", "dialling")
    /\ UNCHANGED <<mode, raised, sip, done, audio, worker, sharedVars,
                   stopVars, engineVars, historyVars>>

\* The parallel loop starts a thread per destination.
SpawnDial(j) ==
    /\ mode[j] = "parallel"
    /\ pc[j] = "next"
    /\ \E d \in todo[j] :
          /\ todo' = [todo EXCEPT ![j] = @ \ {d}]
          /\ dial' = [dial EXCEPT ![<<j, d>>] = "spawned"]
    /\ UNCHANGED <<pc, mode, raised, sip, done, audio, worker, sharedVars,
                   stopVars, engineVars, historyVars>>

\* Seeded fault: the parallel loop does not join.
LoopEndsUnjoined(j) ==
    /\ todo[j] = {} \/ (mode[j] # "parallel" /\ stop_requested)
    /\ Goto(j, "next", "leave")
    /\ UNCHANGED <<mode, todo, raised, callVars, sharedVars, stopVars,
                   engineVars, historyVars>>

\* The sequential loop breaks or runs out; the parallel one joins its
\* threads.
LoopEnds(j) ==
    /\ \/ mode[j] # "parallel" /\ (stop_requested \/ todo[j] = {})
       \/ mode[j] = "parallel" /\ todo[j] = {}
          /\ \A d \in Dests : dial[<<j, d>>] = "back"
    /\ Goto(j, "next", "leave")
    /\ UNCHANGED <<mode, todo, raised, callVars, sharedVars, stopVars,
                   engineVars, historyVars>>

\* page()'s finally clause.
Hide(j) ==
    /\ Goto(j, "leave", "clear")
    /\ active' = NoPage
    /\ UNCHANGED <<mode, todo, raised, callVars, page_lock, active_calls,
                   stop_requested, last_page, stopVars, engineVars,
                   historyVars>>

ClearStop(j) ==
    /\ Goto(j, "clear", "record")
    /\ stop_requested' = FALSE
    /\ UNCHANGED <<mode, todo, raised, callVars, page_lock, active,
                   active_calls, last_page, stopVars, engineVars,
                   historyVars>>

Release(j) ==
    /\ Goto(j, "record", "over")
    /\ last_page' = [job |-> j, ok |-> j \notin raised]
    /\ page_lock' = NoJob
    /\ UNCHANGED <<mode, todo, raised, callVars, active, active_calls,
                   stop_requested, stopVars, engineVars, historyVars>>

-----------------------------------------------------------------------------
(* Endpoint._dial_one.                                                     *)

RegisterDial(c) ==
    /\ dial[c] = "spawned"
    /\ dial' = [dial EXCEPT ![c] = "start"]
    /\ Register(c)
    /\ UNCHANGED <<pageVars, sip, done, audio, worker, sharedVars, stopVars,
                   ep, account, restart, crash, historyVars>>

\* _Call(self.account, ...).
Construct(c) ==
    /\ dial[c] = "start"
    /\ account
    /\ dial' = [dial EXCEPT ![c] = "dial"]
    /\ UNCHANGED <<pageVars, sip, done, audio, worker, sharedVars, stopVars,
                   engineVars, historyVars>>

\* _Call(None, ...) raises outside any try: it leaves a sequential page, and
\* ends a parallel thread unnoticed.
ConstructRaises(c) ==
    /\ dial[c] = "start"
    /\ ~account
    /\ dial' = [dial EXCEPT ![c] = "back"]
    /\ IF mode[JobOf(c)] = "parallel"
       THEN UNCHANGED <<pc, raised>>
       ELSE /\ pc' = [pc EXCEPT ![JobOf(c)] = "leave"]
            /\ raised' = raised \cup {JobOf(c)}
    /\ UNCHANGED <<mode, todo, sip, done, audio, worker, sharedVars,
                   stopVars, engineVars, historyVars>>

MakeCall(c) ==
    /\ dial[c] = "dial"
    /\ Thread(c) \in registered
    /\ dial' = [dial EXCEPT ![c] = "made"]
    /\ sip' = [sip EXCEPT ![c] = "ringing"]
    /\ UNCHANGED <<pageVars, done, audio, worker, sharedVars, stopVars,
                   engineVars, historyVars>>

\* Seeded fault: a makeCall that fails ends a sequential page.
MakeCallFailsEndsPage(c) ==
    /\ dial[c] \in {"dial", "dangling"}
    /\ Thread(c) \in registered
    /\ dial' = [dial EXCEPT ![c] = "back"]
    /\ pc' = [pc EXCEPT ![JobOf(c)] = IF @ = "dialling" THEN "leave" ELSE @]
    /\ UNCHANGED <<mode, todo, raised, sip, done, audio, worker, sharedVars,
                   stopVars, engineVars, historyVars>>

\* makeCall raises; _dial_one logs it and returns.  On an account freed by a
\* restart in between this is one of the outcomes, FreedAccount the other.
MakeCallFails(c) ==
    /\ dial[c] \in {"dial", "dangling"}
    /\ Thread(c) \in registered
    /\ dial' = [dial EXCEPT ![c] = "back"]
    /\ Resume(c)
    /\ UNCHANGED <<mode, todo, raised, sip, done, audio, worker, sharedVars,
                   stopVars, engineVars, historyVars>>

FreedAccount(c) ==
    /\ dial[c] = "dangling"
    /\ crash' = "freed account"
    /\ UNCHANGED <<pageVars, callVars, sharedVars, stopVars, ep, account,
                   restart, registered, historyVars>>

RegisterCall(c) ==
    /\ dial[c] = "made"
    /\ dial' = [dial EXCEPT ![c] = "wait"]
    /\ active_calls' = active_calls \cup {c}
    /\ UNCHANGED <<pageVars, sip, done, audio, worker, page_lock, active,
                   stop_requested, last_page, stopVars, engineVars,
                   historyVars>>

\* Seeded fault: done.wait() without a timeout.
WaitReturnsOnlyWhenDone(c) ==
    /\ dial[c] = "wait"
    /\ done[c]
    /\ dial' = [dial EXCEPT ![c] = "unreg"]
    /\ UNCHANGED <<pageVars, sip, done, audio, worker, sharedVars, stopVars,
                   engineVars, historyVars>>

\* done.wait(timeout) returns.
WaitReturns(c) ==
    /\ dial[c] = "wait"
    /\ dial' = [dial EXCEPT ![c] = IF done[c] THEN "unreg" ELSE "expired"]
    /\ UNCHANGED <<pageVars, sip, done, audio, worker, sharedVars, stopVars,
                   engineVars, historyVars>>

\* Seeded fault: an expired call is left alone.
ForceHangupLeavesCall(c) ==
    /\ dial[c] = "expired"
    /\ dial' = [dial EXCEPT ![c] = "unreg"]
    /\ UNCHANGED <<pageVars, sip, done, audio, worker, sharedVars, stopVars,
                   engineVars, historyVars>>

ForceHangup(c) ==
    /\ dial[c] = "expired"
    /\ Thread(c) \in registered
    /\ dial' = [dial EXCEPT ![c] = "unreg"]
    /\ HangUp(c)
    /\ UNCHANGED <<pageVars, done, audio, worker, sharedVars, stopVars,
                   engineVars, historyVars>>

\* Seeded fault: the call stays in the list.
UnregisterCallForgets(c) ==
    /\ dial[c] = "unreg"
    /\ dial' = [dial EXCEPT ![c] = "back"]
    /\ Resume(c)
    /\ UNCHANGED <<mode, todo, raised, sip, done, audio, worker, sharedVars,
                   stopVars, engineVars, historyVars>>

UnregisterCall(c) ==
    /\ dial[c] = "unreg"
    /\ dial' = [dial EXCEPT ![c] = "back"]
    /\ active_calls' = active_calls \ {c}
    /\ Resume(c)
    /\ UNCHANGED <<mode, todo, raised, sip, done, audio, worker, page_lock,
                   active, stop_requested, last_page, stopVars, engineVars,
                   historyVars>>

-----------------------------------------------------------------------------
(* Endpoint.stop_active, one copy per request.                             *)

PressStop(s) ==
    /\ spc[s] = "idle"
    /\ spc' = [spc EXCEPT ![s] = "pressed"]
    /\ Register(s)
    /\ stop_requested' = TRUE
    /\ pressed' = pressed \cup
                  {j \in Jobs : pc[j] \in {"show", "next", "dialling"}}
    /\ UNCHANGED <<pageVars, callVars, page_lock, active, active_calls,
                   last_page, target, snapshot, ep, account, restart, crash,
                   stopped>>

\* Seeded fault: the stop takes the page off the dashboard itself.
TakeSnapshotHidesPage(s) ==
    /\ spc[s] = "pressed"
    /\ spc' = [spc EXCEPT ![s] = "hangup"]
    /\ active' = NoPage
    /\ target' = [target EXCEPT ![s] = active.job]
    /\ snapshot' = [snapshot EXCEPT ![s] = active_calls]
    /\ UNCHANGED <<pageVars, callVars, page_lock, active_calls,
                   stop_requested, last_page, engineVars, historyVars>>

\* Under _active_lock: mark the page, copy the list of its calls.
TakeSnapshot(s) ==
    /\ spc[s] = "pressed"
    /\ spc' = [spc EXCEPT ![s] = "hangup"]
    /\ active' = IF active.job = NoJob THEN active
                 ELSE [active EXCEPT !.stopping = TRUE]
    /\ target' = [target EXCEPT ![s] = active.job]
    /\ snapshot' = [snapshot EXCEPT ![s] = active_calls]
    /\ UNCHANGED <<pageVars, callVars, page_lock, active_calls,
                   stop_requested, last_page, engineVars, historyVars>>

StopHangup(s) ==
    /\ spc[s] = "hangup"
    /\ s \in registered
    /\ \E c \in snapshot[s] :
          /\ HangUp(c)
          /\ snapshot' = [snapshot EXCEPT ![s] = @ \ {c}]
    /\ UNCHANGED <<pageVars, dial, done, audio, worker, sharedVars, spc,
                   target, engineVars, historyVars>>

StopReturns(s) ==
    /\ spc[s] = "hangup"
    /\ snapshot[s] = {}
    /\ spc' = [spc EXCEPT ![s] = "idle"]
    /\ target' = [target EXCEPT ![s] = NoJob]
    /\ stopped' = stopped \cup ({target[s]} \ {NoJob})
    /\ UNCHANGED <<pageVars, callVars, sharedVars, snapshot, engineVars,
                   pressed>>

-----------------------------------------------------------------------------
(* The library: callbacks run one at a time on its only worker thread.  A  *)
(* callback may be lost on its way to Python: getInfo raises in            *)
(* onCallState, or the library drops it while it shuts down.               *)

Answer(c) ==
    /\ worker = NoCall
    /\ sip[c] = "ringing"
    /\ sip' = [sip EXCEPT ![c] = "answered"]
    /\ \/ active.job # NoJob /\ active' = [active EXCEPT !.connected = TRUE]
       \/ UNCHANGED active   \* nothing is shown, or the callback is lost
    /\ UNCHANGED <<pageVars, dial, done, audio, worker, page_lock,
                   active_calls, stop_requested, last_page, stopVars,
                   engineVars, historyVars>>

\* The remote end hangs up, refuses, or confirms our hang-up.
Disconnect(c) ==
    /\ worker = NoCall
    /\ sip[c] \in Up
    /\ sip' = [sip EXCEPT ![c] = "gone"]
    /\ \/ /\ done' = [done EXCEPT ![c] = TRUE]
          /\ audio' = [audio EXCEPT ![c] =
                          IF @ = "playing" THEN "finished" ELSE @]
       \/ UNCHANGED <<done, audio>>
    /\ UNCHANGED <<pageVars, dial, worker, sharedVars, stopVars, engineVars,
                   historyVars>>

\* onCallMediaState finds active audio, early media included, and sleeps for
\* answer_delay_ms on the worker.
MediaActive(c) ==
    /\ worker = NoCall
    /\ sip[c] \in Live
    /\ audio[c] \in {"silent", "broken"}
    /\ audio' = [audio EXCEPT ![c] = "delay"]
    /\ worker' = c
    /\ UNCHANGED <<pageVars, dial, sip, done, sharedVars, stopVars,
                   engineVars, historyVars>>

StartPlayback(c) ==
    /\ worker = c
    /\ worker' = NoCall
    /\ \/ audio' = [audio EXCEPT ![c] = "playing"] /\ UNCHANGED sip
       \/ audio' = [audio EXCEPT ![c] = "broken"] /\ HangUp(c)
    /\ UNCHANGED <<pageVars, dial, done, sharedVars, stopVars, engineVars,
                   historyVars>>

\* onEof2: _on_audio_finished starts a thread that hangs up a little later.
Eof(c) ==
    /\ audio[c] = "playing"
    /\ audio' = [audio EXCEPT ![c] = "finishing"]
    /\ Register(EofThread(c))
    /\ UNCHANGED <<pageVars, dial, sip, done, worker, sharedVars, stopVars,
                   ep, account, restart, crash, historyVars>>

LaterHangup(c) ==
    /\ audio[c] = "finishing"
    /\ EofThread(c) \in registered
    /\ audio' = [audio EXCEPT ![c] = "finished"]
    /\ HangUp(c)
    /\ UNCHANGED <<pageVars, dial, done, worker, sharedVars, stopVars,
                   engineVars, historyVars>>

-----------------------------------------------------------------------------
(* Endpoint.restart: shutdown then start, under _lock.                     *)

\* shutdown drops the account; a call built on it but not yet made is left
\* with a dangling reference.
DropAccount ==
    /\ Restarts
    /\ restart = "idle"
    /\ restart' = IF ep THEN "closing" ELSE "closed"
    /\ account' = FALSE
    /\ dial' = [c \in Call |->
                   IF dial[c] = "dial" THEN "dangling" ELSE dial[c]]
    /\ UNCHANGED <<pageVars, sip, done, audio, worker, sharedVars, stopVars,
                   ep, registered, crash, historyVars>>

\* libDestroy waits for the worker and ends every call; some of the calls
\* still hear of it.
LibDestroy ==
    /\ restart = "closing"
    /\ worker = NoCall
    /\ restart' = "closed"
    /\ ep' = FALSE
    /\ \E heard \in SUBSET {c \in Call : sip[c] \in Up} :
          done' = [c \in Call |-> done[c] \/ c \in heard]
    /\ sip' = [c \in Call |-> IF sip[c] \in Up THEN "gone" ELSE sip[c]]
    /\ audio' = [c \in Call |->
                    IF audio[c] = "playing" THEN "finished" ELSE audio[c]]
    /\ UNCHANGED <<pageVars, dial, worker, sharedVars, stopVars, account,
                   registered, crash, historyVars>>

\* start() builds a new endpoint, which knows no thread; the account is
\* missing if it is disabled or acc.create raises.
StartEndpoint ==
    /\ restart = "closed"
    /\ restart' = "idle"
    /\ ep' = TRUE
    /\ account' \in BOOLEAN
    /\ registered' = {}
    /\ UNCHANGED <<pageVars, callVars, sharedVars, stopVars, crash,
                   historyVars>>

\* start() raises before self.ep is set, e.g. the port is taken.
StartFails ==
    /\ restart = "closed"
    /\ restart' = "idle"
    /\ UNCHANGED <<pageVars, callVars, sharedVars, stopVars, ep, account,
                   registered, crash, historyVars>>

\* A library call from a thread the current endpoint does not know aborts the
\* process (an assertion of pjlib; the image is built with assertions on).
CallsLibrary(t) ==
    \/ \E c \in Call : t = Thread(c) /\ dial[c] \in {"dial", "dangling", "expired"}
    \/ \E c \in Call : t = EofThread(c) /\ audio[c] = "finishing"
    \/ t \in Stoppers /\ spc[t] = "hangup" /\ snapshot[t] # {}

UnknownThread ==
    /\ \E t \in Jobs \cup Call \cup Stoppers \cup {EofThread(c) : c \in Call} :
          CallsLibrary(t) /\ t \notin registered
    /\ crash' = "unknown thread"
    /\ UNCHANGED <<pageVars, callVars, sharedVars, stopVars, ep, account,
                   restart, registered, historyVars>>

-----------------------------------------------------------------------------
PageStep(j) ==
    \/ Acquire(j) \/ Skip(j) \/ Resolve(j) \/ EnterPage(j) \/ ResetStop(j)
    \/ SetActive(j) \/ NextDest(j) \/ SpawnDial(j) \/ LoopEnds(j)
    \/ Hide(j) \/ ClearStop(j) \/ Release(j)

DialStep(c) ==
    \/ RegisterDial(c) \/ Construct(c) \/ ConstructRaises(c) \/ MakeCall(c)
    \/ MakeCallFails(c) \/ FreedAccount(c) \/ RegisterCall(c)
    \/ WaitReturns(c) \/ ForceHangup(c) \/ UnregisterCall(c)

StopStep(s) == PressStop(s) \/ TakeSnapshot(s) \/ StopHangup(s) \/ StopReturns(s)

LibraryStep(c) ==
    \/ Answer(c) \/ Disconnect(c) \/ MediaActive(c) \/ StartPlayback(c)
    \/ Eof(c) \/ LaterHangup(c)

RestartStep == DropAccount \/ LibDestroy \/ StartEndpoint \/ StartFails

Running == crash = "none"

\* Every page is over, or the process is gone: nothing more has to happen.
Idle ==
    /\ ~Running \/ \A j \in Jobs : pc[j] = "over"
    /\ UNCHANGED vars

Next ==
    \/ Running /\ \/ \E j \in Jobs : Trigger(j) \/ PageStep(j)
                  \/ \E c \in Call : DialStep(c) \/ LibraryStep(c)
                  \/ \E s \in Stoppers : StopStep(s)
                  \/ RestartStep
                  \/ UnknownThread
    \/ Idle

Safety == Init /\ [][Next]_vars

\* Threads are scheduled, waits expire, the worker's sleep ends, a restart
\* proceeds.  Nobody has to answer, hang up, press stop or trigger a page.
\* A page thread that waits for _lock gets it between two restarts.
Fairness ==
    /\ \A j \in Jobs : WF_vars(Running /\ PageStep(j))
    /\ \A j \in Jobs : SF_vars(Running /\ EnterPage(j))
    /\ \A c \in Call : WF_vars(Running /\ DialStep(c))
    /\ \A c \in Call : WF_vars(Running /\ StartPlayback(c))
    /\ WF_vars(Running /\ (StartEndpoint \/ StartFails))
    /\ SF_vars(Running /\ LibDestroy)
    /\ WF_vars(Running /\ UnknownThread)

Spec == Safety /\ Fairness

-----------------------------------------------------------------------------
PageTypeOK ==
    /\ pc \in [Jobs -> {"idle", "blocked", "resolve", "enter", "reset", "show",
                        "next", "dialling", "leave", "clear", "record", "over"}]
    /\ mode \in [Jobs -> {"sequential", "parallel"}]
    /\ todo \in [Jobs -> SUBSET Dests]
    /\ raised \subseteq Jobs
CallTypeOK ==
    /\ dial \in [Call -> {"idle", "back"} \cup Dialling]
    /\ sip \in [Call -> {"null", "gone"} \cup Up]
    /\ done \in [Call -> BOOLEAN]
    /\ audio \in [Call -> {"silent", "delay", "playing", "broken", "finishing",
                           "finished"}]
    /\ worker \in Call \cup {NoCall}
SharedTypeOK ==
    /\ page_lock \in Jobs \cup {NoJob}
    /\ active \in PageInfo
    /\ active_calls \subseteq Call
    /\ stop_requested \in BOOLEAN
    /\ last_page \in [job : Jobs \cup {NoJob}, ok : BOOLEAN]
StopTypeOK ==
    /\ spc \in [Stoppers -> {"idle", "pressed", "hangup"}]
    /\ target \in [Stoppers -> Jobs \cup {NoJob}]
    /\ snapshot \in [Stoppers -> SUBSET Call]
EngineTypeOK ==
    /\ ep \in BOOLEAN
    /\ account \in BOOLEAN
    /\ restart \in {"idle", "closing", "closed"}
    /\ registered \subseteq Jobs \cup Call \cup Stoppers
                            \cup {EofThread(c) : c \in Call}
    /\ crash \in {"none", "freed account", "unknown thread"}
HistoryTypeOK == pressed \subseteq Jobs /\ stopped \subseteq Jobs

\* The variables stay in their sets.
TypeOK == PageTypeOK /\ CallTypeOK /\ SharedTypeOK /\ StopTypeOK
                     /\ EngineTypeOK /\ HistoryTypeOK

\* Only the thread that holds _page_lock dials: no parallel dialling thread
\* outlives its page (scheduler._page_lock, _page_parallel's join).
OneJobDials == \A c \in Call : dial[c] \in Dialling => page_lock = JobOf(c)

\* The dashboard shows a page as long as one of its destinations is dialled
\* (Endpoint._active), so that the stop button can mark it.
DiallingIsShown == \A c \in Call : dial[c] \in Dialling => active.job = JobOf(c)

\* A call that rings or plays belongs to the page that has the line, unless
\* the library refused a hang-up: no prayer is left playing into a phone once
\* its page is over (the forced hang-up of _dial_one).
LiveCallIsOwned ==
    ~Refusals => \A c \in Call : sip[c] \in Live => page_lock = JobOf(c)

\* Between pages nothing is shown as active and no call is left in the list
\* that a stop would hang up (the finally clauses of page and _dial_one).
IdleLineIsClean == page_lock = NoJob => active = NoPage /\ active_calls = {}

\* A page passes destinations over only when it raised or when a stop was
\* pressed while it ran: a stop pressed before it, or during an earlier page,
\* does not cut it short (the two resets of _stop_requested in page).
SkippedOnlyIfStopped ==
    \A j \in Jobs : pc[j] \in {"leave", "clear", "record", "over"} /\ todo[j] # {}
                    => j \in raised \cup pressed

\* "Connected" on the dashboard means that a call of the page shown got
\* through: an answer to a call of an earlier page is never taken for it
\* (_on_call_connected does not know whose call it is).
ConnectedIsReal ==
    ~Refusals /\ active.connected =>
        \E c \in Call : JobOf(c) = active.job /\ sip[c] \in {"answered", "ending", "gone"}

\* Every page that is triggered ends, whatever the phones do: it never keeps
\* _page_lock for good (_dial_one's bounded wait), unless the process aborts.
TriggeredPageEnds ==
    \A j \in Jobs : pc[j] = "blocked" ~> (pc[j] = "over" \/ ~Running)

\* What PageLine sees of this state.
LinePhase == [j \in Jobs |-> CASE pc[j] = "idle" -> "idle"
                               [] pc[j] = "blocked" -> "waiting"
                               [] pc[j] = "over" -> "over"
                               [] OTHER -> "paging"]
LineCalls == {c \in Call : dial[c] \in Placed}
LineTried == {c \in Call : sip[c] # "null"}
Line == INSTANCE PageLine WITH owner <- page_lock, phase <- LinePhase,
            calls <- LineCalls, tried <- LineTried, last <- last_page

\* The paging path implements PageLine (scheduler._do_page: "Serialised so
\* two prayers never overlap on the line").
ImplementsPageLine == Line!Spec

-----------------------------------------------------------------------------
(* What a comment or a doc says of the program and the code does not do.   *)

\* Once the stop that marked a page has returned, no call of the page rings
\* or plays (sip_engine.py:223, "Immediately hang up any in-progress
\* page/call"): it misses a call that is made but not yet registered.
StoppedPageIsSilent ==
    \A j \in stopped : \A d \in Dests : sip[<<j, d>>] \notin Live

\* The library is only called from threads it knows (sip_engine.py:41): the
\* page thread registers once, at the start of its page, and a restart in the
\* middle of the page voids that.
NoUnknownThread == crash # "unknown thread"
=============================================================================
