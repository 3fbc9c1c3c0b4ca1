------------------------------ MODULE NtpClock ------------------------------
(***************************************************************************)
(* The two clocks of ntp.py.  A sync asks the server how far the system    *)
(* clock is off and stores the answer as a software offset, which          *)
(* corrected_now adds to the system clock.  If it may, it then steps the   *)
(* system clock itself and zeroes the offset.  The loop thread syncs every *)
(* few minutes; /api/ntp/sync syncs on a pool thread at any time; only the *)
(* assignments are under ntp._lock, not the sync as a whole.               *)
(*                                                                         *)
(* Times are differences from true time in half seconds, so that the       *)
(* threshold of 0.5 s is 1.                                                *)
(***************************************************************************)
EXTENDS Integers

CONSTANTS
    Loop,       \* the thread of run_loop
    Operators,  \* the pool threads of /api/ntp/sync
    Errs,       \* errors the host may give the system clock
    MaxLag,     \* how far behind the server's answer a step may leave the clock
    MaxJumps    \* bound: changes of the system clock by the host

ASSUME NtpAssumption ==
    /\ Loop \notin Operators
    /\ Errs \subseteq Int /\ Errs # {}
    /\ MaxLag \in Nat /\ MaxJumps \in Nat

Threads == {Loop} \cup Operators
Confs == [enabled : BOOLEAN, set_system_clock : BOOLEAN]
Abs(x) == IF x < 0 THEN -x ELSE x

VARIABLES
    clockErr,   \* system clock minus true time
    offset,     \* ntp._offset_seconds
    lastSync,   \* ntp._last_sync is set
    lastError,  \* ntp._last_error is set
    conf,       \* config.get().ntp
    pc,         \* where each thread is in sync_once
    cfg,        \* the configuration it read
    meas,       \* resp.offset of its request
    \* history: read by no action
    jumps,      \* changes of the system clock by the host
    alone,      \* since it began, no other sync ran and the host did nothing
    settled     \* a sync was alone and complete, and none has overlapped since

statusVars == <<lastSync, lastError>>
vars == <<clockErr, offset, statusVars, conf, pc, cfg, meas, jumps, alone, settled>>

Idle == \A t \in Threads : pc[t] = "idle"

\* What corrected_now is off by, and whether that is as good as a step gets.
CorrectedErr == clockErr + offset
Right == Abs(CorrectedErr) <= MaxLag
\* status().synced
Synced == lastSync /\ ~lastError

Init ==
    /\ clockErr \in Errs
    /\ offset = 0
    /\ lastSync = FALSE
    /\ lastError = FALSE
    /\ conf \in Confs
    /\ pc = [t \in Threads |-> "idle"]
    /\ cfg = [t \in Threads |-> conf]
    /\ meas = [t \in Threads |-> 0]
    /\ jumps = 0
    /\ alone = [t \in Threads |-> FALSE]
    /\ settled = FALSE

Goto(t, where) == pc' = [pc EXCEPT ![t] = where]
\* The sync of t is over, and what it stored stands.
Ends(t) == Goto(t, "idle") /\ settled' = (settled \/ alone[t])

-----------------------------------------------------------------------------
(* ntp.sync_once                                                           *)

\* Mutant: the loop is content with one success.
BeginSyncOnce(t) ==
    /\ pc[t] = "idle"
    /\ conf.enabled /\ (t = Loop => ~Synced)
    /\ Goto(t, "request")
    /\ cfg' = [cfg EXCEPT ![t] = conf]
    /\ alone' = [u \in Threads |-> Idle /\ u = t]
    /\ settled' = (settled /\ Idle)
    /\ UNCHANGED <<clockErr, offset, statusVars, conf, meas, jumps>>

BeginSync(t) ==
    /\ pc[t] = "idle"
    /\ conf.enabled
    /\ Goto(t, "request")
    /\ cfg' = [cfg EXCEPT ![t] = conf]
    /\ alone' = [u \in Threads |-> Idle /\ u = t]
    /\ settled' = (settled /\ Idle)
    /\ UNCHANGED <<clockErr, offset, statusVars, conf, meas, jumps>>

Request(t) ==
    /\ pc[t] = "request"
    /\ meas' = [meas EXCEPT ![t] = -clockErr]
    /\ Goto(t, "store")
    /\ UNCHANGED <<clockErr, offset, statusVars, conf, cfg, jumps, alone, settled>>

RequestFails(t) ==
    /\ pc[t] = "request"
    /\ lastError' = TRUE
    /\ Goto(t, "idle")
    /\ UNCHANGED <<clockErr, offset, lastSync, conf, cfg, meas, jumps, alone, settled>>

StepsClock(t) == cfg[t].set_system_clock /\ Abs(meas[t]) > 1

Store(t) ==
    /\ pc[t] = "store"
    /\ offset' = meas[t]
    /\ lastSync' = TRUE
    /\ lastError' = FALSE
    /\ \/ StepsClock(t) /\ Goto(t, "step") /\ UNCHANGED settled
       \/ ~StepsClock(t) /\ Ends(t)
    /\ UNCHANGED <<clockErr, conf, cfg, meas, jumps, alone>>

\* A field of the answer that ntplib cannot read: the offset is stored, the
\* clock is not stepped.
StoreRaises(t) ==
    /\ pc[t] = "store"
    /\ offset' = meas[t]
    /\ lastSync' = TRUE
    /\ lastError' = TRUE
    /\ Goto(t, "idle")
    /\ UNCHANGED <<clockErr, conf, cfg, meas, jumps, alone, settled>>

\* `date -s` takes the server's time without its fraction, and takes a while.
Step(t) ==
    /\ pc[t] = "step"
    /\ \E lag \in 0 .. MaxLag : clockErr' = -lag
    /\ Goto(t, "zero")
    /\ UNCHANGED <<offset, statusVars, conf, cfg, meas, jumps, alone, settled>>

\* No privileges: the offset stays.
StepFails(t) ==
    /\ pc[t] = "step"
    /\ Ends(t)
    /\ UNCHANGED <<clockErr, offset, statusVars, conf, cfg, meas, jumps, alone>>

\* Mutant: the step leaves the offset.
ZeroForgets(t) ==
    /\ pc[t] = "zero"
    /\ Ends(t)
    /\ UNCHANGED <<clockErr, offset, statusVars, conf, cfg, meas, jumps, alone>>

Zero(t) ==
    /\ pc[t] = "zero"
    /\ offset' = 0
    /\ Ends(t)
    /\ UNCHANGED <<clockErr, statusVars, conf, cfg, meas, jumps, alone>>

-----------------------------------------------------------------------------
(* A save of the section, which no running sync sees, and the host.        *)

SaveConf ==
    /\ conf' \in Confs \ {conf}
    /\ UNCHANGED <<clockErr, offset, statusVars, pc, cfg, meas, jumps, alone, settled>>

HostSetsClock ==
    /\ jumps < MaxJumps
    /\ clockErr' \in Errs \ {clockErr}
    /\ jumps' = jumps + 1
    /\ alone' = [t \in Threads |-> FALSE]
    /\ settled' = FALSE
    /\ UNCHANGED <<offset, statusVars, conf, pc, cfg, meas>>

InSync(t) ==
    \/ Request(t) \/ RequestFails(t) \/ Store(t) \/ StoreRaises(t)
    \/ Step(t) \/ StepFails(t) \/ Zero(t)

Next ==
    \/ \E t \in Threads : BeginSync(t) \/ InSync(t)
    \/ SaveConf
    \/ HostSetsClock

\* The loop wakes up after every interval, a sync runs to its end, and the
\* server does not fail the loop for ever.
Fairness ==
    /\ WF_vars(BeginSync(Loop))
    /\ \A t \in Threads : WF_vars(InSync(t))
    /\ SF_vars(Request(Loop))

Safety == Init /\ [][Next]_vars
Spec == Safety /\ Fairness

-----------------------------------------------------------------------------
Offsets == {-e : e \in Errs} \cup 0 .. MaxLag

\* The variables have their types; in particular every measured or stored
\* offset answers an error of the clock that the host or a step gave it.
TypeOK ==
    /\ clockErr \in Errs \cup {-l : l \in 0 .. MaxLag}
    /\ offset \in Offsets \cup {0}
    /\ lastSync \in BOOLEAN /\ lastError \in BOOLEAN
    /\ conf \in Confs
    /\ pc \in [Threads -> {"idle", "request", "store", "step", "zero"}]
    /\ cfg \in [Threads -> Confs]
    /\ meas \in [Threads -> Offsets \cup {0}]
    /\ jumps \in 0 .. MaxJumps
    /\ alone \in [Threads -> BOOLEAN]
    /\ settled \in BOOLEAN

\* After a sync that ran alone, the corrected time is right, and stays right
\* through failed requests, refused steps and further lone syncs; only
\* between `date` and the reset of the offset is it wrong.
SettledIsRight == settled => Right \/ \E t \in Threads : pc[t] = "zero"

\* Once the host leaves the clock alone and NTP stays enabled, the loop makes
\* the corrected time right for good, whatever overlapping syncs did to it.
ClockRecovers == <>[]conf.enabled => <>[]Right
=============================================================================
