------------------------------ MODULE Settings ------------------------------
(***************************************************************************)
(* The configuration: in memory (config._config), in one YAML file, and    *)
(* applied, as the endpoint and the job store that were built from it.     *)
(* Handlers that save (update_config, manual_import) and the start-up      *)
(* (lifespan) run on the event loop, one after the other; sip_reconnect    *)
(* restarts the endpoint from a thread of the request pool.  The process   *)
(* may end at any point and is started again (docker-compose.yml).         *)
(*                                                                         *)
(* A section stands for those that are treated alike: "sip" for sip and    *)
(* codecs, "prayer" for prayer, location, destinations and audio, "call"   *)
(* for call, ntp and web.  A value is the whole content of a section.      *)
(***************************************************************************)
EXTENDS Naturals

CONSTANTS
    Values,     \* Values[s]: the contents of section s that pass validation
    Invalid,    \* a content that does not
    Refused,    \* contents of sip with which PJSIP raises (a port in use, ...)
    Default,    \* AppConfig()
    Manual,     \* the content of prayer with source = "manual"
    Tables,     \* contents of the timetable file
    Loop,       \* the event loop
    Pool,       \* a pool thread that serves sip_reconnect
    Off,        \* no process, no transport, no account, no jobs
    NoFile,     \* the file does not exist yet
    Broken,     \* the file is empty or cut short
    MaxCrashes  \* bound: how often the process is killed

Sections == {"sip", "prayer", "call"}
Contents == UNION {Values[s] : s \in Sections}
Configs == {c \in [Sections -> Contents] : \A s \in Sections : c[s] \in Values[s]}
Threads == {Loop, Pool}

ASSUME SettingsAssumption ==
    /\ DOMAIN Values = Sections
    /\ Invalid \notin Contents /\ Off \notin Contents
    /\ Refused \subseteq Values["sip"]
    /\ Default \in Configs
    /\ Manual \in Values["prayer"]
    /\ {NoFile, Broken, Off} \cap Configs = {} /\ NoFile # Broken
    /\ Loop # Pool /\ Off \notin Threads
    /\ MaxCrashes \in Nat

NeedsRestart == {"sip"}
\* Seeded fault: the settings of the schedule are not listed.
NeedsRescheduleOnlyWithRestart == {"sip"}
NeedsReschedule == {"prayer", "sip"}

VARIABLES
    memory,     \* config._config
    file,       \* config.yaml
    table,      \* manual_timetable.json
    transport,  \* the sip section the endpoint's transport was created from
    account,    \* ... and its account
    jobs,       \* the prayer section and the timetable the jobs come from
    lock,       \* who is in Endpoint.start or restart: Endpoint._lock
    pc,         \* where each thread is
    req,        \* what the loop serves
    crashes,
    \* history: read by no action
    kept,       \* per section, the content last confirmed to a client and
                \* those assigned after it
    behind      \* what a failed request has left on earlier settings

applied == <<transport, account, jobs>>
engine == <<transport, account, lock>>
history == <<kept, behind>>
vars == <<memory, file, table, applied, lock, pc, req, crashes, history>>

\* The start-up is treated as a request that saves nothing; it also stands
\* for no request.
Boot == [kind |-> "boot", section |-> "call", value |-> Default["call"]]
Import == [kind |-> "import", section |-> "prayer", value |-> Manual]
Form(s, v) == [kind |-> "form", section |-> s, value |-> v]

Init ==
    /\ file \in {NoFile, Default}
    /\ table \in Tables
    /\ memory = Off
    /\ transport = Off /\ account = Off /\ jobs = Off
    /\ lock = Off
    /\ pc = [t \in Threads |-> IF t = Loop THEN "down" ELSE "idle"]
    /\ req = Boot
    /\ crashes = 0
    /\ kept = [s \in Sections |-> {Default[s]}]
    /\ behind = {}

At(t, label) == pc[t] = label
Goto(t, label) == pc' = [pc EXCEPT ![t] = label]
Booting == req.kind = "boot"
Serving == memory # Off /\ (Booting => At(Loop, "idle"))
Wanted == [prayer |-> memory["prayer"], table |-> table]

-----------------------------------------------------------------------------
(* The end of a request, of the start-up and of the process.               *)

\* What is held in memory is lost, by the library and APScheduler as well.
Exit ==
    /\ memory' = Off
    /\ transport' = Off /\ account' = Off /\ jobs' = Off
    /\ lock' = Off
    /\ pc' = [t \in Threads |-> IF t = Loop THEN "down" ELSE "idle"]
    /\ req' = Boot
    /\ behind' = {}
    /\ UNCHANGED <<file, table, kept>>

Crash ==
    /\ ~At(Loop, "down") /\ crashes < MaxCrashes
    /\ crashes' = crashes + 1
    /\ Exit

\* The handler returns, or lifespan yields.
Answered ==
    /\ Goto(Loop, "idle")
    /\ req' = Boot
    /\ kept' = IF Booting THEN kept
               ELSE [kept EXCEPT ![req.section] = {req.value}]

\* The handler raises, and the client is told so.
Failed(parts) ==
    /\ ~Booting
    /\ Goto(Loop, "idle")
    /\ behind' = behind \cup (parts \cap NeedsReschedule)
    /\ req' = Boot
    /\ UNCHANGED <<memory, file, table, kept>>

-----------------------------------------------------------------------------
(* config.load, called first by lifespan.                                  *)

Start ==
    /\ At(Loop, "down")
    /\ Goto(Loop, "load")
    /\ UNCHANGED <<memory, file, table, applied, lock, req, crashes, history>>

LoadFile ==
    /\ At(Loop, "load")
    /\ file \in Configs
    /\ memory' = file
    /\ Goto(Loop, "restart")
    /\ UNCHANGED <<file, table, applied, lock, req, crashes, history>>

LoadCreatesFile ==
    /\ At(Loop, "load")
    /\ file = NoFile
    /\ memory' = Default
    /\ Goto(Loop, "write")
    /\ UNCHANGED <<file, table, applied, lock, req, crashes, history>>

-----------------------------------------------------------------------------
(* update_config and manual_import.                                        *)

Receive(r) ==
    /\ At(Loop, "idle")
    /\ req' = r
    /\ Goto(Loop, IF r.kind = "import" THEN "table" ELSE "assign")
    /\ UNCHANGED <<memory, file, table, applied, lock, crashes, history>>

\* timetable.import_text: the upload has been parsed.
SaveTable ==
    /\ At(Loop, "table")
    /\ table' \in Tables
    /\ Goto(Loop, "assign")
    /\ UNCHANGED <<memory, file, applied, lock, req, crashes, history>>

SaveTableFails ==
    /\ At(Loop, "table")
    /\ Failed({})
    /\ UNCHANGED <<applied, lock, crashes>>

\* update_section merges and validates; save() assigns before it writes.
Assign ==
    /\ At(Loop, "assign")
    /\ req.value \in Values[req.section]
    /\ memory' = [memory EXCEPT ![req.section] = req.value]
    /\ kept' = [kept EXCEPT ![req.section] = @ \cup {req.value}]
    /\ Goto(Loop, "write")
    /\ UNCHANGED <<file, table, applied, lock, req, crashes, behind>>

AssignRejects ==
    /\ At(Loop, "assign")
    /\ req.value \notin Values[req.section]
    /\ Failed({})
    /\ UNCHANGED <<applied, lock, crashes>>

\* Seeded fault: the file itself is opened for writing.
WriteTmpInPlace ==
    /\ At(Loop, "write")
    /\ file' = Broken
    /\ Goto(Loop, "replace")
    /\ UNCHANGED <<memory, table, applied, lock, req, crashes, history>>

\* config._write, up to os.replace: the file is untouched.
WriteTmp ==
    /\ At(Loop, "write")
    /\ Goto(Loop, "replace")
    /\ UNCHANGED <<memory, file, table, applied, lock, req, crashes, history>>

\* Seeded fault: the failed write is logged and the request goes on.
WriteFailsSilently ==
    /\ At(Loop, "write")
    /\ IF ~Booting /\ req.section \in NeedsRestart \cup NeedsReschedule
       THEN Goto(Loop, "restart") /\ UNCHANGED <<req, kept>>
       ELSE Answered
    /\ UNCHANGED <<memory, file, table, applied, lock, crashes, behind>>

\* Memory keeps the new settings, the file the old ones; neither restart nor
\* reschedule is reached.  The first start ends here.
WriteFails ==
    /\ At(Loop, "write")
    /\ \/ Booting /\ Exit
       \/ Failed({req.section}) /\ UNCHANGED <<applied, lock>>
    /\ UNCHANGED crashes

\* os.replace, and what the handler has still to do.
Replace ==
    /\ At(Loop, "replace")
    /\ file' = memory
    /\ \/ /\ Booting \/ req.section \in NeedsRestart
          /\ Goto(Loop, "restart")
          /\ UNCHANGED <<req, kept>>
       \/ /\ ~Booting /\ req.section \in NeedsReschedule \ NeedsRestart
          /\ Goto(Loop, "rebuild")
          /\ UNCHANGED <<req, kept>>
       \/ /\ ~Booting /\ req.section \notin NeedsRestart \cup NeedsReschedule
          /\ Answered
    /\ UNCHANGED <<memory, table, applied, lock, crashes, behind>>

-----------------------------------------------------------------------------
(* Endpoint.start and restart, under Endpoint._lock.                       *)

\* The loop on its way through lifespan or update_config, or a request for
\* sip_reconnect, once the lock is free.
EntersEngine(t) ==
    /\ lock = Off
    /\ At(t, "restart") \/ (t = Pool /\ At(Pool, "idle") /\ Serving)

\* Seeded fault: only start() is called, which returns if an endpoint runs.
TeardownNothing(t) ==
    /\ EntersEngine(t)
    /\ IF transport = Off THEN lock' = t /\ Goto(t, "transport")
       ELSE UNCHANGED lock /\ Goto(t, IF t = Loop THEN "rebuild" ELSE "idle")
    /\ behind' = behind \ {"sip"}
    /\ UNCHANGED <<memory, file, table, applied, req, crashes, kept>>

\* At the start-up there is nothing to shut down.
Teardown(t) ==
    /\ EntersEngine(t)
    /\ lock' = t
    /\ transport' = Off /\ account' = Off
    /\ behind' = behind \ {"sip"}
    /\ Goto(t, "transport")
    /\ UNCHANGED <<memory, file, table, jobs, req, crashes, kept>>

CreateTransport(t) ==
    /\ At(t, "transport")
    /\ transport' = memory["sip"]
    /\ Goto(t, "account")
    /\ UNCHANGED <<memory, file, table, account, jobs, lock, req, crashes,
                   history>>

\* The configuration is read a second time.
CreateAccount(t) ==
    /\ At(t, "account")
    /\ memory["sip"] \notin Refused
    /\ account' = memory["sip"]
    /\ lock' = Off
    /\ Goto(t, IF t = Loop THEN "rebuild" ELSE "idle")
    /\ UNCHANGED <<memory, file, table, transport, jobs, req, crashes, history>>

\* Seeded fault: the lock is released only on success.
LibraryRaisesLocked(t) ==
    /\ At(t, "transport") \/ At(t, "account")
    /\ memory["sip"] \in Refused
    /\ \/ t = Loop /\ Booting /\ Exit
       \/ t = Loop /\ Failed({}) /\ UNCHANGED <<applied, lock>>
       \/ /\ t = Pool
          /\ Goto(t, "idle")
          /\ UNCHANGED <<memory, file, table, applied, lock, req, history>>
    /\ UNCHANGED crashes

\* start() raises: out of lifespan, which ends the process, out of the
\* handler, which skips the rebuild, or out of sip_reconnect.
LibraryRaises(t) ==
    /\ At(t, "transport") \/ At(t, "account")
    /\ memory["sip"] \in Refused
    /\ lock' = Off
    /\ \/ t = Loop /\ Booting /\ Exit
       \/ t = Loop /\ Failed({}) /\ UNCHANGED applied
       \/ /\ t = Pool
          /\ Goto(t, "idle")
          /\ UNCHANGED <<memory, file, table, applied, req, history>>
    /\ UNCHANGED crashes

-----------------------------------------------------------------------------
(* scheduler.reschedule; its steps, and the daily refresh, are in Schedule. *)

Rebuild ==
    /\ At(Loop, "rebuild")
    /\ jobs' = Wanted
    /\ behind' = behind \ {"prayer"}
    /\ Answered
    /\ UNCHANGED <<memory, file, table, engine, crashes>>

\* A job fires while it is being removed: some jobs are gone, none is added.
RebuildRaises ==
    /\ At(Loop, "rebuild")
    /\ jobs # Off
    /\ jobs' = Off
    /\ Failed({"prayer"})
    /\ UNCHANGED <<engine, crashes>>

-----------------------------------------------------------------------------
LoopStep ==
    \/ Start \/ LoadFile \/ LoadCreatesFile
    \/ SaveTable \/ SaveTableFails \/ Assign \/ AssignRejects
    \/ WriteTmp \/ WriteFails \/ Replace
    \/ CreateTransport(Loop) \/ CreateAccount(Loop) \/ LibraryRaises(Loop)
    \/ Rebuild \/ RebuildRaises

PoolStep ==
    CreateTransport(Pool) \/ CreateAccount(Pool) \/ LibraryRaises(Pool)

Next ==
    \/ LoopStep \/ PoolStep
    \/ \E t \in Threads : Teardown(t)
    \/ \E s \in Sections : \E v \in Values[s] \cup {Invalid} : Receive(Form(s, v))
    \/ Receive(Import)
    \/ Crash

\* Threads are scheduled and the container is started again; a thread that
\* waits for Endpoint._lock gets it between two restarts of the other.
Fairness ==
    /\ WF_vars(LoopStep) /\ WF_vars(PoolStep)
    /\ SF_vars(Teardown(Loop))

Safety == Init /\ [][Next]_vars
Spec == Safety /\ Fairness

-----------------------------------------------------------------------------
(* Properties.                                                             *)

\* The value of each variable is one the code can give it.
TypeOK ==
    /\ memory \in Configs \cup {Off}
    /\ file \in Configs \cup {NoFile, Broken}
    /\ table \in Tables
    /\ transport \in Values["sip"] \cup {Off}
    /\ account \in Values["sip"] \cup {Off}
    /\ jobs \in [prayer : Values["prayer"], table : Tables] \cup {Off}
    /\ lock \in Threads \cup {Off}
    /\ pc \in [Threads -> {"down", "load", "table", "assign", "write", "replace",
                           "restart", "transport", "account", "rebuild", "idle"}]
    /\ req \in {Boot, Import} \cup
         [kind : {"form"}, section : Sections, value : Contents \cup {Invalid}]
    /\ crashes \in 0 .. MaxCrashes
    /\ kept \in [Sections -> SUBSET Contents]
    /\ behind \subseteq NeedsReschedule

\* Whatever happens during a save, the next start finds a file it can load:
\* only what AppConfig has accepted is written, and the file is replaced in
\* one step (config._write, update_section).
FileAlwaysLoads == file \in Configs \cup {NoFile}

\* What a client was told is saved is in the file, through kills of the
\* process and later failures: each section of the file is the one last
\* confirmed or one assigned after it (config.save, update_config).
ConfirmedIsDurable ==
    file \in Configs => \A s \in Sections : file[s] \in kept[s]

\* Between saves the endpoint runs with the SIP settings in memory, or not at
\* all, although sip_reconnect reads them at two moments of its own: a save
\* restarts it after the assignment.  Only a failed write leaves it behind
\* (update_config, Endpoint.restart).
EndpointMatchesSettings ==
    At(Loop, "idle") /\ "sip" \notin behind =>
        {transport, account} \subseteq {memory["sip"], Off}

\* Between saves the jobs come from the prayer settings in memory and the
\* timetable on disk, unless a request failed after it changed one of them
\* (update_config, manual_import).
JobsMatchSettings ==
    At(Loop, "idle") /\ "prayer" \notin behind => jobs = Wanted

\* The service serves requests again after any save, failed restart or kill;
\* the exceptions are settings in the file that PJSIP refuses, with which the
\* start-up fails each time, and a first start that cannot write the file
\* (lifespan, Endpoint.start).
ServesAgain ==
    []<>(At(Loop, "idle") \/ file = NoFile
         \/ (file \in Configs /\ file["sip"] \in Refused))
=============================================================================
