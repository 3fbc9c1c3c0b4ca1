--------------------------- MODULE SettingsProofs ---------------------------
(***************************************************************************)
(* What Settings promises for any contents of the sections, any timetables *)
(* and any number of kills.  IInv says where the loop is (PlaceInv), who   *)
(* uses the endpoint (EngineInv), what the file and memory may hold        *)
(* (FileInv, KeptInv, SavedInv), and in which part of a request what runs  *)
(* may differ from memory (SipInv, JobsInv).                               *)
(***************************************************************************)
EXTENDS Settings, TLAPS

\* What the loop serves determines where it can be, and memory exists from
\* config.load on.
PlaceInv ==
    /\ memory = Off <=> pc[Loop] \in {"down", "load"}
    /\ pc[Loop] \in {"down", "load", "idle"} => Booting
    /\ pc[Loop] \in {"table", "assign"} => ~Booting
    /\ pc[Loop] = "table" => req.kind = "import"
    /\ ~Booting /\ pc[Loop] \in {"restart", "transport", "account"} =>
          req.section = "sip"

\* The lock is held by the thread that builds the endpoint; sip_reconnect is
\* served only after the start-up.
EngineInv ==
    /\ lock = Loop <=> pc[Loop] \in {"transport", "account"}
    /\ lock = Pool <=> pc[Pool] \in {"transport", "account"}
    /\ pc[Pool] \in {"idle", "transport", "account"}
    /\ pc[Pool] # "idle" => Serving

\* Without a process nothing runs, and until it is up there are no jobs.
DownInv ==
    /\ memory = Off => transport = Off /\ account = Off
    /\ Booting /\ ~At(Loop, "idle") => jobs = Off

\* The file is missing only until the first start has written it.
FileInv ==
    /\ FileAlwaysLoads
    /\ file = NoFile =>
          /\ Booting /\ pc[Loop] \in {"down", "load", "write", "replace"}
          /\ \A s \in Sections : Default[s] \in kept[s]

\* Memory and file hold confirmed contents or later ones.
KeptInv ==
    /\ memory # Off => \A s \in Sections : memory[s] \in kept[s]
    /\ ConfirmedIsDurable

\* After the assignment the section is in memory, after the write in the file.
SavedInv ==
    ~Booting =>
        /\ pc[Loop] \in {"write", "replace", "restart", "transport", "account",
                         "rebuild"} => memory[req.section] = req.value
        /\ pc[Loop] \in {"restart", "transport", "account", "rebuild"} =>
              file = memory

\* The endpoint differs from memory from the assignment of a SIP section to
\* the restart, or after a failed write.
SipInv ==
    memory # Off /\ "sip" \notin behind =>
        \/ /\ ~Booting /\ req.section = "sip"
           /\ pc[Loop] \in {"write", "replace", "restart"}
        \/ {transport, account} \subseteq {memory["sip"], Off}

\* The jobs differ from the settings from the first change to the rebuild, or
\* after a failure.
JobsInv ==
    memory # Off /\ "prayer" \notin behind =>
        \/ Booting /\ ~At(Loop, "idle")
        \/ req.kind = "import" /\ At(Loop, "assign")
        \/ /\ ~Booting /\ req.section = "prayer"
           /\ pc[Loop] \in {"write", "replace", "rebuild"}
        \/ jobs = Wanted

IInv == TypeOK /\ PlaceInv /\ EngineInv /\ DownInv /\ FileInv /\ KeptInv
               /\ SavedInv /\ SipInv /\ JobsInv

-----------------------------------------------------------------------------
\* A section replaced by one that validates gives a configuration.
LEMMA SectionReplaced ==
    ASSUME NEW c \in Configs, NEW s \in Sections, NEW v \in Values[s]
    PROVE  [c EXCEPT ![s] = v] \in Configs
  BY DEF Configs, Contents

\* Configurations are neither of the marks for the absence of one.
LEMMA ConfigIsProper ==
    ASSUME NEW c \in Configs
    PROVE  c # Off /\ c # NoFile /\ c # Broken /\ c["sip"] \in Values["sip"]
           /\ c["prayer"] \in Values["prayer"]
  BY SettingsAssumption DEF Configs, Sections

\* What is left when the process has ended.
LEMMA ExitShape ==
    ASSUME Exit
    PROVE  /\ pc'[Loop] = "down" /\ pc'[Pool] = "idle"
           /\ pc' = [t \in Threads |-> IF t = Loop THEN "down" ELSE "idle"]
           /\ memory' = Off /\ transport' = Off /\ account' = Off
           /\ jobs' = Off /\ lock' = Off /\ req' = Boot /\ behind' = {}
           /\ UNCHANGED <<file, table, kept>>
  BY SettingsAssumption DEF Exit, Threads

\* How a raising library ends the process, the request or the reconnect.
LEMMA LibraryRaisesShape ==
    ASSUME TypeOK, NEW t \in Threads, LibraryRaises(t)
    PROVE  /\ pc[t] \in {"transport", "account"}
           /\ UNCHANGED crashes
           /\ \/ Exit
              \/ /\ t = Loop /\ ~Booting
                 /\ pc' = [pc EXCEPT ![Loop] = "idle"]
                 /\ pc'[Loop] = "idle" /\ pc'[Pool] = pc[Pool]
                 /\ req' = Boot /\ lock' = Off
                 /\ UNCHANGED <<memory, file, table, applied, history>>
              \/ /\ t = Pool
                 /\ pc' = [pc EXCEPT ![Pool] = "idle"] /\ lock' = Off
                 /\ pc'[Pool] = "idle" /\ pc'[Loop] = pc[Loop]
                 /\ UNCHANGED <<memory, file, table, applied, req, history>>
<1>1. Loop # Pool /\ {Loop, Pool} \subseteq Threads /\ DOMAIN pc = Threads
  BY SettingsAssumption DEF Threads, TypeOK
<1>2. pc[t] \in {"transport", "account"}
  BY DEF LibraryRaises, At
<1>3. CASE t = Loop /\ Booting /\ Exit
  BY <1>2, <1>3 DEF LibraryRaises
<1>4. CASE t = Loop /\ Failed({}) /\ UNCHANGED applied
  <2>1. behind' = behind
    BY <1>4 DEF Failed
  <2> QED
    BY <1>1, <1>2, <1>4, <2>1 DEF LibraryRaises, Failed, Goto, history
<1>5. CASE t = Pool /\ Goto(t, "idle")
           /\ UNCHANGED <<memory, file, table, applied, req, history>>
  BY <1>1, <1>2, <1>5 DEF LibraryRaises, Goto
<1> QED
  BY <1>3, <1>4, <1>5 DEF LibraryRaises

\* What an assignment does.
LEMMA AssignShape ==
    ASSUME TypeOK, PlaceInv, Assign
    PROVE  /\ ~Booting /\ req.section \in Sections
           /\ req.value \in Values[req.section]
           /\ memory \in Configs /\ memory' \in Configs
           /\ memory' # Off /\ file' = file
<1>1. ~Booting /\ memory # Off
  BY DEF Assign, At, PlaceInv
<1>2. memory \in Configs
  BY <1>1 DEF TypeOK
<1>3. req.section \in Sections
  BY <1>1 DEF TypeOK, Boot, Import, Sections
<1>4. req.value \in Values[req.section]
  BY DEF Assign
<1>5. memory' \in Configs
  BY <1>2, <1>3, <1>4, SectionReplaced DEF Assign
<1> QED
  BY <1>1, <1>2, <1>3, <1>4, <1>5, ConfigIsProper DEF Assign

\* A request that is answered has left contents of the sections confirmed.
LEMMA AnsweredShape ==
    ASSUME TypeOK, SavedInv, PlaceInv, Answered,
           pc[Loop] \in {"replace", "rebuild"}
    PROVE  /\ pc' \in [Threads -> {"down", "load", "table", "assign", "write",
                         "replace", "restart", "transport", "account",
                         "rebuild", "idle"}]
           /\ req' = Boot
           /\ kept' \in [Sections -> SUBSET Contents]
<1>1. Loop \in Threads
  BY DEF Threads
<1>2. kept' \in [Sections -> SUBSET Contents]
  <2>1. CASE Booting
    BY <2>1 DEF Answered, TypeOK
  <2>2. CASE ~Booting
    <3>1. memory \in Configs /\ req.section \in Sections
      BY <2>2 DEF PlaceInv, TypeOK, Boot, Import, Sections
    <3>2. req.value \in Contents
      BY <2>2, <3>1 DEF SavedInv, Configs
    <3> QED
      BY <2>2, <3>1, <3>2 DEF Answered, TypeOK
  <2> QED
    BY <2>1, <2>2
<1> QED
  BY <1>1, <1>2 DEF Answered, TypeOK, Goto

\* A process that ends leaves values of the right kind.
LEMMA ExitTypes ==
    ASSUME TypeOK, Exit, crashes' \in 0 .. MaxCrashes
    PROVE  TypeOK'
<1>1. pc' \in [Threads -> {"down", "load", "table", "assign", "write",
                 "replace", "restart", "transport", "account", "rebuild", "idle"}]
  BY ExitShape
<1> QED
  BY <1>1, ExitShape DEF TypeOK

\* No action brings the loop to a place its request does not have.
LEMMA PlaceInvStep ==
    ASSUME TypeOK, EngineInv, PlaceInv, [Next]_vars
    PROVE  PlaceInv'
<1>1. CASE Crash
  <2>1. Exit
    BY <1>1 DEF Crash
  <2> QED
    BY <2>1, ExitShape DEF PlaceInv, Booting, Boot
<1>2. CASE Start
  BY <1>2 DEF Start, At, Goto, PlaceInv, Booting
<1>3. CASE LoadFile
  BY <1>3, ConfigIsProper
  DEF LoadFile, At, Goto, PlaceInv, TypeOK, Threads, Booting
<1>4. CASE LoadCreatesFile
  BY <1>4, SettingsAssumption
  DEF LoadCreatesFile, Goto, PlaceInv, TypeOK, Threads
<1>5. CASE Receive(Import)
  BY <1>5 DEF Receive, Import, At, Goto, PlaceInv, TypeOK, Threads, Booting
<1>6. ASSUME NEW s \in Sections, NEW v \in Values[s] \cup {Invalid},
             Receive(Form(s, v))
      PROVE  PlaceInv'
  BY <1>6 DEF Receive, Form, At, Goto, PlaceInv, TypeOK, Threads, Booting
<1>7. CASE SaveTable
  BY <1>7 DEF SaveTable, At, Goto, PlaceInv, Booting
<1>8. CASE SaveTableFails
  BY <1>8
  DEF SaveTableFails, Failed, Goto, PlaceInv, TypeOK, Threads, Booting, Boot
<1>9. CASE Assign
  BY <1>9, AssignShape DEF Assign, Goto, PlaceInv, Booting
<1>10. CASE AssignRejects
  BY <1>10
  DEF AssignRejects, Failed, Goto, PlaceInv, TypeOK, Threads, Booting, Boot
<1>11. CASE WriteTmp
  BY <1>11 DEF WriteTmp, At, Goto, PlaceInv
<1>12. CASE WriteFails
  BY <1>12, ExitShape
  DEF WriteFails, Failed, At, Goto, PlaceInv, TypeOK, Booting, Boot
<1>13. CASE Replace
  BY <1>13
  DEF Replace, Answered, At, Goto, PlaceInv, TypeOK, NeedsRestart, Booting,
      Boot
<1>14. ASSUME NEW t \in Threads, Teardown(t) PROVE PlaceInv'
  <2>1. CASE t = Loop
    BY <1>14, <2>1 DEF Teardown, EntersEngine, At, Goto, PlaceInv, Booting
  <2>2. CASE t = Pool
    BY <1>14, <2>2 DEF Teardown, Goto, PlaceInv, EngineInv, Booting
  <2> QED
    BY <2>1, <2>2 DEF Threads
<1>15. ASSUME NEW t \in Threads, CreateTransport(t) PROVE PlaceInv'
  <2>1. CASE t = Loop
    BY <1>15, <2>1 DEF CreateTransport, At, Goto, PlaceInv, Booting
  <2>2. CASE t = Pool
    BY <1>15, <2>2 DEF CreateTransport, Goto, PlaceInv, EngineInv, Booting
  <2> QED
    BY <2>1, <2>2 DEF Threads
<1>16. ASSUME NEW t \in Threads, CreateAccount(t) PROVE PlaceInv'
  <2>1. CASE t = Loop
    BY <1>16, <2>1 DEF CreateAccount, At, Goto, PlaceInv, Booting
  <2>2. CASE t = Pool
    BY <1>16, <2>2 DEF CreateAccount, Goto, PlaceInv, EngineInv, Booting
  <2> QED
    BY <2>1, <2>2 DEF Threads
<1>17. ASSUME NEW t \in Threads, LibraryRaises(t) PROVE PlaceInv'
  <2>1. CASE Exit
    BY <2>1, ExitShape DEF PlaceInv, Booting, Boot
  <2>2. CASE ~Exit /\ t = Loop
    BY <1>17, <2>2, LibraryRaisesShape DEF PlaceInv, Booting, Boot
  <2>3. CASE ~Exit /\ t = Pool
    BY <1>17, <2>3, LibraryRaisesShape DEF PlaceInv, Booting
  <2> QED
    BY <2>1, <2>2, <2>3 DEF Threads
<1>18. CASE Rebuild
  BY <1>18 DEF Rebuild, Answered, At, Goto, PlaceInv, Booting, Boot
<1>19. CASE RebuildRaises
  BY <1>19 DEF RebuildRaises, Failed, At, Goto, PlaceInv, Booting, Boot
<1>20. CASE UNCHANGED vars
  BY <1>20 DEF vars, PlaceInv, Booting
<1> QED
  BY <1>1, <1>2, <1>3, <1>4, <1>5, <1>6, <1>7, <1>8, <1>9, <1>10, <1>11,
     <1>12, <1>13, <1>14, <1>15, <1>16, <1>17, <1>18, <1>19, <1>20
  DEF Next, LoopStep, PoolStep, Threads

\* No action lets two threads build the endpoint, or one without the lock.
LEMMA EngineInvStep ==
    ASSUME TypeOK, PlaceInv, EngineInv, [Next]_vars
    PROVE  EngineInv'
<1>1. CASE Crash
  <2>1. Exit
    BY <1>1 DEF Crash
  <2> QED
    BY <2>1, ExitShape, SettingsAssumption DEF EngineInv, Threads
<1>2. CASE Start
  BY <1>2 DEF Start, At, Goto, Serving, EngineInv, Booting
<1>3. CASE LoadFile
  BY <1>3, SettingsAssumption
  DEF LoadFile, At, Goto, Serving, EngineInv, Booting
<1>4. CASE LoadCreatesFile
  BY <1>4, SettingsAssumption
  DEF LoadCreatesFile, At, Goto, Serving, EngineInv, Booting
<1>5. CASE Receive(Import)
  BY <1>5, SettingsAssumption
  DEF Receive, Import, At, Goto, Serving, EngineInv, Booting
<1>6. ASSUME NEW s \in Sections, NEW v \in Values[s] \cup {Invalid},
             Receive(Form(s, v))
      PROVE  EngineInv'
  BY <1>6, SettingsAssumption
  DEF Receive, Form, At, Goto, Serving, EngineInv, Booting
<1>7. CASE SaveTable
  BY <1>7 DEF SaveTable, At, Goto, Serving, EngineInv, Booting
<1>8. CASE SaveTableFails
  BY <1>8
  DEF SaveTableFails, Failed, At, Goto, Serving, EngineInv, TypeOK, Threads
<1>9. CASE Assign
  BY <1>9, AssignShape DEF Assign, At, Goto, Serving, EngineInv, Booting
<1>10. CASE AssignRejects
  BY <1>10
  DEF AssignRejects, Failed, At, Goto, Serving, EngineInv, TypeOK, Threads
<1>11. CASE WriteTmp
  BY <1>11 DEF WriteTmp, At, Goto, Serving, EngineInv, Booting
<1>12. CASE WriteFails
  BY <1>12, ExitShape
  DEF WriteFails, Failed, At, Goto, Serving, EngineInv, TypeOK, Threads
<1>13. CASE Replace
  BY <1>13
  DEF Replace, Answered, At, Goto, Serving, EngineInv, TypeOK, Threads,
      Booting
<1>14. ASSUME NEW t \in Threads, Teardown(t) PROVE EngineInv'
  <2>1. CASE t = Loop
    BY <1>14, <2>1, SettingsAssumption
    DEF Teardown, EntersEngine, Goto, EngineInv, TypeOK, Threads
  <2>2. CASE t = Pool
    BY <1>14, <2>2, SettingsAssumption
    DEF Teardown, EntersEngine, At, Goto, Serving, EngineInv, TypeOK, Threads,
        Booting
  <2> QED
    BY <2>1, <2>2 DEF Threads
<1>15. ASSUME NEW t \in Threads, CreateTransport(t) PROVE EngineInv'
  <2>1. CASE t = Loop
    BY <1>15, <2>1, SettingsAssumption
    DEF CreateTransport, At, Goto, EngineInv
  <2>2. CASE t = Pool
    BY <1>15, <2>2 DEF CreateTransport, At, Goto, Serving, EngineInv, Booting
  <2> QED
    BY <2>1, <2>2 DEF Threads
<1>16. ASSUME NEW t \in Threads, CreateAccount(t) PROVE EngineInv'
  <2>1. CASE t = Loop
    BY <1>16, <2>1, SettingsAssumption
    DEF CreateAccount, At, Goto, EngineInv, TypeOK, Threads
  <2>2. CASE t = Pool
    BY <1>16, <2>2, SettingsAssumption
    DEF CreateAccount, At, Goto, EngineInv, TypeOK, Threads
  <2> QED
    BY <2>1, <2>2 DEF Threads
<1>17. ASSUME NEW t \in Threads, LibraryRaises(t) PROVE EngineInv'
  <2>1. CASE Exit
    BY <2>1, ExitShape, SettingsAssumption DEF EngineInv, Threads
  <2>2. CASE ~Exit /\ t = Loop
    BY <1>17, <2>2, LibraryRaisesShape, SettingsAssumption
    DEF EngineInv, Threads
  <2>3. CASE ~Exit /\ t = Pool
    BY <1>17, <2>3, LibraryRaisesShape, SettingsAssumption
    DEF EngineInv, Threads
  <2> QED
    BY <2>1, <2>2, <2>3 DEF Threads
<1>18. CASE Rebuild
  BY <1>18
  DEF Rebuild, Answered, At, Goto, Serving, EngineInv, TypeOK, Threads, engine
<1>19. CASE RebuildRaises
  BY <1>19
  DEF RebuildRaises, Failed, At, Goto, Serving, EngineInv, TypeOK, Threads,
      engine
<1>20. CASE UNCHANGED vars
  BY <1>20 DEF vars, At, Serving, EngineInv, Booting
<1> QED
  BY <1>1, <1>2, <1>3, <1>4, <1>5, <1>6, <1>7, <1>8, <1>9, <1>10, <1>11,
     <1>12, <1>13, <1>14, <1>15, <1>16, <1>17, <1>18, <1>19, <1>20
  DEF Next, LoopStep, PoolStep, Threads

\* No action leaves something running without a process.
LEMMA DownInvStep ==
    ASSUME TypeOK, PlaceInv, EngineInv, DownInv, [Next]_vars
    PROVE  DownInv'
<1>1. CASE Crash
  <2>1. Exit
    BY <1>1 DEF Crash
  <2> QED
    BY <2>1, ExitShape DEF DownInv
<1>2. CASE Start
  BY <1>2 DEF Start, At, DownInv, applied, Booting
<1>3. CASE LoadFile
  BY <1>3, SettingsAssumption DEF LoadFile, At, DownInv, applied, Booting
<1>4. CASE LoadCreatesFile
  BY <1>4, SettingsAssumption
  DEF LoadCreatesFile, At, DownInv, applied, Booting
<1>5. CASE Receive(Import)
  BY <1>5 DEF Receive, Import, DownInv, applied, Booting
<1>6. ASSUME NEW s \in Sections, NEW v \in Values[s] \cup {Invalid},
             Receive(Form(s, v))
      PROVE  DownInv'
  BY <1>6 DEF Receive, Form, DownInv, applied, Booting
<1>7. CASE SaveTable
  BY <1>7 DEF SaveTable, At, DownInv, applied, Booting
<1>8. CASE SaveTableFails
  BY <1>8
  DEF SaveTableFails, Failed, At, Goto, DownInv, TypeOK, Threads, applied
<1>9. CASE Assign
  BY <1>9, AssignShape DEF Assign, DownInv, Booting
<1>10. CASE AssignRejects
  BY <1>10
  DEF AssignRejects, Failed, At, Goto, DownInv, TypeOK, Threads, applied
<1>11. CASE WriteTmp
  BY <1>11 DEF WriteTmp, At, DownInv, applied, Booting
<1>12. CASE WriteFails
  BY <1>12, ExitShape
  DEF WriteFails, Failed, At, Goto, DownInv, TypeOK, Threads, applied
<1>13. CASE Replace
  BY <1>13
  DEF Replace, Answered, At, Goto, DownInv, TypeOK, Threads, applied, Booting
<1>14. ASSUME NEW t \in Threads, Teardown(t) PROVE DownInv'
  <2>1. CASE t = Loop
    BY <1>14, <2>1, SettingsAssumption
    DEF Teardown, EntersEngine, At, DownInv, Booting
  <2>2. CASE t = Pool
    BY <1>14, <2>2, SettingsAssumption
    DEF Teardown, At, Goto, DownInv, Booting
  <2> QED
    BY <2>1, <2>2 DEF Threads
<1>15. ASSUME NEW t \in Threads, CreateTransport(t) PROVE DownInv'
  <2>1. CASE t = Loop
    BY <1>15, <2>1 DEF CreateTransport, At, DownInv, PlaceInv, Booting
  <2>2. CASE t = Pool
    BY <1>15, <2>2
    DEF CreateTransport, At, Goto, DownInv, EngineInv, Serving, Booting
  <2> QED
    BY <2>1, <2>2 DEF Threads
<1>16. ASSUME NEW t \in Threads, CreateAccount(t) PROVE DownInv'
  <2>1. CASE t = Loop
    BY <1>16, <2>1 DEF CreateAccount, At, DownInv, PlaceInv, Booting
  <2>2. CASE t = Pool
    BY <1>16, <2>2
    DEF CreateAccount, At, Goto, DownInv, EngineInv, Serving, Booting
  <2> QED
    BY <2>1, <2>2 DEF Threads
<1>17. ASSUME NEW t \in Threads, LibraryRaises(t) PROVE DownInv'
  <2>1. CASE Exit
    BY <2>1, ExitShape DEF DownInv
  <2>2. CASE ~Exit /\ t = Loop
    BY <1>17, <2>2, LibraryRaisesShape DEF At, DownInv, applied
  <2>3. CASE ~Exit /\ t = Pool
    BY <1>17, <2>3, LibraryRaisesShape
    DEF At, DownInv, EngineInv, Serving, Booting
  <2> QED
    BY <2>1, <2>2, <2>3 DEF Threads
<1>18. CASE Rebuild
  BY <1>18 DEF Rebuild, Answered, At, Goto, DownInv, TypeOK, Threads, engine
<1>19. CASE RebuildRaises
  BY <1>19 DEF RebuildRaises, Failed, DownInv, engine
<1>20. CASE UNCHANGED vars
  BY <1>20 DEF vars, applied, At, DownInv, applied, Booting
<1> QED
  BY <1>1, <1>2, <1>3, <1>4, <1>5, <1>6, <1>7, <1>8, <1>9, <1>10, <1>11,
     <1>12, <1>13, <1>14, <1>15, <1>16, <1>17, <1>18, <1>19, <1>20
  DEF Next, LoopStep, PoolStep, Threads

\* No action leaves a file that does not load.
LEMMA FileInvStep ==
    ASSUME TypeOK, PlaceInv, FileInv, [Next]_vars
    PROVE  FileInv'
<1>1. CASE Crash
  <2>1. Exit
    BY <1>1 DEF Crash
  <2> QED
    BY <2>1, ExitShape DEF FileInv, FileAlwaysLoads, Booting, Boot
<1>2. CASE Start
  BY <1>2 DEF Start, Goto, FileInv, FileAlwaysLoads, history, Booting
<1>3. CASE LoadFile
  BY <1>3, ConfigIsProper DEF LoadFile, FileInv, FileAlwaysLoads
<1>4. CASE LoadCreatesFile
  BY <1>4
  DEF LoadCreatesFile, Goto, FileInv, FileAlwaysLoads, history, Booting
<1>5. CASE Receive(Import)
  BY <1>5 DEF Receive, At, FileInv, FileAlwaysLoads
<1>6. ASSUME NEW s \in Sections, NEW v \in Values[s] \cup {Invalid},
             Receive(Form(s, v))
      PROVE  FileInv'
  BY <1>6 DEF Receive, At, FileInv, FileAlwaysLoads
<1>7. CASE SaveTable
  BY <1>7 DEF SaveTable, At, FileInv, FileAlwaysLoads
<1>8. CASE SaveTableFails
  BY <1>8 DEF SaveTableFails, Failed, FileInv, FileAlwaysLoads
<1>9. CASE Assign
  BY <1>9, AssignShape DEF FileInv, FileAlwaysLoads
<1>10. CASE AssignRejects
  BY <1>10 DEF AssignRejects, Failed, FileInv, FileAlwaysLoads
<1>11. CASE WriteTmp
  BY <1>11 DEF WriteTmp, Goto, FileInv, FileAlwaysLoads, history, Booting
<1>12. CASE WriteFails
  BY <1>12, ExitShape
  DEF WriteFails, Failed, FileInv, FileAlwaysLoads, Booting, Boot
<1>13. CASE Replace
  BY <1>13, ConfigIsProper
  DEF Replace, At, FileInv, FileAlwaysLoads, PlaceInv, TypeOK
<1>14. ASSUME NEW t \in Threads, Teardown(t) PROVE FileInv'
  <2>1. CASE t = Loop
    BY <1>14, <2>1 DEF Teardown, EntersEngine, At, FileInv, FileAlwaysLoads
  <2>2. CASE t = Pool
    BY <1>14, <2>2, SettingsAssumption
    DEF Teardown, Goto, FileInv, FileAlwaysLoads, Booting
  <2> QED
    BY <2>1, <2>2 DEF Threads
<1>15. ASSUME NEW t \in Threads, CreateTransport(t) PROVE FileInv'
  <2>1. CASE t = Loop
    BY <1>15, <2>1 DEF CreateTransport, At, FileInv, FileAlwaysLoads
  <2>2. CASE t = Pool
    BY <1>15, <2>2, SettingsAssumption
    DEF CreateTransport, Goto, FileInv, FileAlwaysLoads, history, Booting
  <2> QED
    BY <2>1, <2>2 DEF Threads
<1>16. ASSUME NEW t \in Threads, CreateAccount(t) PROVE FileInv'
  <2>1. CASE t = Loop
    BY <1>16, <2>1 DEF CreateAccount, At, FileInv, FileAlwaysLoads
  <2>2. CASE t = Pool
    BY <1>16, <2>2, SettingsAssumption
    DEF CreateAccount, Goto, FileInv, FileAlwaysLoads, history, Booting
  <2> QED
    BY <2>1, <2>2 DEF Threads
<1>17. ASSUME NEW t \in Threads, LibraryRaises(t) PROVE FileInv'
  <2>1. CASE Exit
    BY <2>1, ExitShape DEF FileInv, FileAlwaysLoads, Booting, Boot
  <2>2. CASE ~Exit /\ t = Loop
    BY <1>17, <2>2, LibraryRaisesShape DEF FileInv, FileAlwaysLoads
  <2>3. CASE ~Exit /\ t = Pool
    BY <1>17, <2>3, LibraryRaisesShape
    DEF FileInv, FileAlwaysLoads, history, Booting
  <2> QED
    BY <2>1, <2>2, <2>3 DEF Threads
<1>18. CASE Rebuild
  BY <1>18 DEF Rebuild, At, FileInv, FileAlwaysLoads
<1>19. CASE RebuildRaises
  BY <1>19 DEF RebuildRaises, Failed, FileInv, FileAlwaysLoads
<1>20. CASE UNCHANGED vars
  BY <1>20 DEF vars, history, FileInv, FileAlwaysLoads, history, Booting
<1> QED
  BY <1>1, <1>2, <1>3, <1>4, <1>5, <1>6, <1>7, <1>8, <1>9, <1>10, <1>11,
     <1>12, <1>13, <1>14, <1>15, <1>16, <1>17, <1>18, <1>19, <1>20
  DEF Next, LoopStep, PoolStep, Threads

\* No action takes a confirmed content out of memory or the file.
LEMMA KeptInvStep ==
    ASSUME TypeOK, PlaceInv, FileInv, SavedInv, KeptInv, [Next]_vars
    PROVE  KeptInv'
<1>1. CASE Crash
  <2>1. Exit
    BY <1>1 DEF Crash
  <2> QED
    BY <2>1, ExitShape DEF KeptInv, ConfirmedIsDurable
<1>2. CASE Start
  BY <1>2 DEF Start, KeptInv, ConfirmedIsDurable, history
<1>3. CASE LoadFile
  BY <1>3 DEF LoadFile, KeptInv, ConfirmedIsDurable, history
<1>4. CASE LoadCreatesFile
  BY <1>4 DEF LoadCreatesFile, KeptInv, ConfirmedIsDurable, FileInv, history
<1>5. CASE Receive(Import)
  BY <1>5 DEF Receive, KeptInv, ConfirmedIsDurable, history
<1>6. ASSUME NEW s \in Sections, NEW v \in Values[s] \cup {Invalid},
             Receive(Form(s, v))
      PROVE  KeptInv'
  BY <1>6 DEF Receive, KeptInv, ConfirmedIsDurable, history
<1>7. CASE SaveTable
  BY <1>7 DEF SaveTable, KeptInv, ConfirmedIsDurable, history
<1>8. CASE SaveTableFails
  BY <1>8 DEF SaveTableFails, Failed, KeptInv, ConfirmedIsDurable
<1>9. CASE Assign
  <2>1. memory' = [memory EXCEPT ![req.section] = req.value]
        /\ kept' = [kept EXCEPT ![req.section] = @ \cup {req.value}]
    BY <1>9 DEF Assign
  <2>2. /\ memory \in [Sections -> Contents]
        /\ kept \in [Sections -> SUBSET Contents]
    BY <1>9, AssignShape DEF TypeOK, Configs
  <2>3. \A s \in Sections : kept[s] \subseteq kept'[s]
    BY <1>9, <2>1, <2>2
  <2>4. \A s \in Sections : memory'[s] \in kept'[s]
    BY <1>9, <2>1, <2>2, <2>3, AssignShape, ConfigIsProper DEF KeptInv
  <2> QED
    BY <1>9, <2>3, <2>4, AssignShape DEF KeptInv, ConfirmedIsDurable
<1>10. CASE AssignRejects
  BY <1>10 DEF AssignRejects, Failed, KeptInv, ConfirmedIsDurable
<1>11. CASE WriteTmp
  BY <1>11 DEF WriteTmp, KeptInv, ConfirmedIsDurable, history
<1>12. CASE WriteFails
  BY <1>12, ExitShape DEF WriteFails, Failed, KeptInv, ConfirmedIsDurable
<1>13. CASE Replace
  BY <1>13, ConfigIsProper
  DEF Replace, Answered, At, KeptInv, ConfirmedIsDurable, SavedInv, TypeOK
<1>14. ASSUME NEW t \in Threads, Teardown(t) PROVE KeptInv'
  <2>1. CASE t = Loop
    BY <1>14, <2>1 DEF Teardown, KeptInv, ConfirmedIsDurable
  <2>2. CASE t = Pool
    BY <1>14, <2>2 DEF Teardown, KeptInv, ConfirmedIsDurable
  <2> QED
    BY <2>1, <2>2 DEF Threads
<1>15. ASSUME NEW t \in Threads, CreateTransport(t) PROVE KeptInv'
  <2>1. CASE t = Loop
    BY <1>15, <2>1 DEF CreateTransport, KeptInv, ConfirmedIsDurable, history
  <2>2. CASE t = Pool
    BY <1>15, <2>2 DEF CreateTransport, KeptInv, ConfirmedIsDurable, history
  <2> QED
    BY <2>1, <2>2 DEF Threads
<1>16. ASSUME NEW t \in Threads, CreateAccount(t) PROVE KeptInv'
  <2>1. CASE t = Loop
    BY <1>16, <2>1 DEF CreateAccount, KeptInv, ConfirmedIsDurable, history
  <2>2. CASE t = Pool
    BY <1>16, <2>2 DEF CreateAccount, KeptInv, ConfirmedIsDurable, history
  <2> QED
    BY <2>1, <2>2 DEF Threads
<1>17. ASSUME NEW t \in Threads, LibraryRaises(t) PROVE KeptInv'
  <2>1. CASE Exit
    BY <2>1, ExitShape DEF KeptInv, ConfirmedIsDurable
  <2>2. CASE ~Exit /\ t = Loop
    BY <1>17, <2>2, LibraryRaisesShape
    DEF KeptInv, ConfirmedIsDurable, history
  <2>3. CASE ~Exit /\ t = Pool
    BY <1>17, <2>3, LibraryRaisesShape
    DEF KeptInv, ConfirmedIsDurable, history
  <2> QED
    BY <2>1, <2>2, <2>3 DEF Threads
<1>18. CASE Rebuild
  BY <1>18 DEF Rebuild, Answered, At, KeptInv, ConfirmedIsDurable, SavedInv
<1>19. CASE RebuildRaises
  BY <1>19 DEF RebuildRaises, Failed, KeptInv, ConfirmedIsDurable
<1>20. CASE UNCHANGED vars
  BY <1>20 DEF vars, history, KeptInv, ConfirmedIsDurable, history
<1> QED
  BY <1>1, <1>2, <1>3, <1>4, <1>5, <1>6, <1>7, <1>8, <1>9, <1>10, <1>11,
     <1>12, <1>13, <1>14, <1>15, <1>16, <1>17, <1>18, <1>19, <1>20
  DEF Next, LoopStep, PoolStep, Threads

\* No action separates memory and file from the request that saved them.
LEMMA SavedInvStep ==
    ASSUME TypeOK, PlaceInv, EngineInv, SavedInv, [Next]_vars
    PROVE  SavedInv'
<1>1. CASE Crash
  <2>1. Exit
    BY <1>1 DEF Crash
  <2> QED
    BY <2>1, ExitShape DEF SavedInv
<1>2. CASE Start
  BY <1>2 DEF Start, At, Goto, SavedInv
<1>3. CASE LoadFile
  BY <1>3 DEF LoadFile, At, SavedInv, PlaceInv, Booting
<1>4. CASE LoadCreatesFile
  BY <1>4 DEF LoadCreatesFile, At, SavedInv, PlaceInv, Booting
<1>5. CASE Receive(Import)
  BY <1>5 DEF Receive, At, Goto, SavedInv
<1>6. ASSUME NEW s \in Sections, NEW v \in Values[s] \cup {Invalid},
             Receive(Form(s, v))
      PROVE  SavedInv'
  BY <1>6 DEF Receive, At, Goto, SavedInv
<1>7. CASE SaveTable
  BY <1>7 DEF SaveTable, At, Goto, SavedInv
<1>8. CASE SaveTableFails
  BY <1>8 DEF SaveTableFails, Failed, At, Goto, SavedInv
<1>9. CASE Assign
  <2>1. memory'[req.section] = req.value
    BY <1>9, AssignShape DEF Assign, Configs
  <2>2. pc'[Loop] = "write" /\ req' = req
    BY <1>9 DEF Assign, Goto, TypeOK, Threads
  <2> QED
    BY <2>1, <2>2 DEF SavedInv
<1>10. CASE AssignRejects
  BY <1>10 DEF AssignRejects, Failed, At, Goto, SavedInv
<1>11. CASE WriteTmp
  BY <1>11 DEF WriteTmp, At, Goto, SavedInv, Booting
<1>12. CASE WriteFails
  BY <1>12, ExitShape DEF WriteFails, Failed, SavedInv, Booting, Boot
<1>13. CASE Replace
  BY <1>13 DEF Replace, Answered, At, SavedInv, Booting, Boot
<1>14. ASSUME NEW t \in Threads, Teardown(t) PROVE SavedInv'
  <2>1. CASE t = Loop
    BY <1>14, <2>1, SettingsAssumption
    DEF Teardown, EntersEngine, At, SavedInv, Booting
  <2>2. CASE t = Pool
    BY <1>14, <2>2, SettingsAssumption
    DEF Teardown, EntersEngine, At, Goto, SavedInv, Serving, EngineInv
  <2> QED
    BY <2>1, <2>2 DEF Threads
<1>15. ASSUME NEW t \in Threads, CreateTransport(t) PROVE SavedInv'
  <2>1. CASE t = Loop
    BY <1>15, <2>1 DEF CreateTransport, At, SavedInv, Booting
  <2>2. CASE t = Pool
    BY <1>15, <2>2 DEF CreateTransport, At, Goto, SavedInv, Serving, EngineInv
  <2> QED
    BY <2>1, <2>2 DEF Threads
<1>16. ASSUME NEW t \in Threads, CreateAccount(t) PROVE SavedInv'
  <2>1. CASE t = Loop
    BY <1>16, <2>1 DEF CreateAccount, At, SavedInv, Booting
  <2>2. CASE t = Pool
    BY <1>16, <2>2 DEF CreateAccount, At, Goto, SavedInv, Serving, EngineInv
  <2> QED
    BY <2>1, <2>2 DEF Threads
<1>17. ASSUME NEW t \in Threads, LibraryRaises(t) PROVE SavedInv'
  <2>1. CASE Exit
    BY <2>1, ExitShape DEF SavedInv
  <2>2. CASE ~Exit /\ t = Loop
    BY <1>17, <2>2, LibraryRaisesShape DEF SavedInv
  <2>3. CASE ~Exit /\ t = Pool
    BY <1>17, <2>3, LibraryRaisesShape DEF At, SavedInv, Serving, EngineInv
  <2> QED
    BY <2>1, <2>2, <2>3 DEF Threads
<1>18. CASE Rebuild
  BY <1>18 DEF Rebuild, Answered, SavedInv, Booting, Boot
<1>19. CASE RebuildRaises
  BY <1>19 DEF RebuildRaises, Failed, SavedInv, Booting, Boot
<1>20. CASE UNCHANGED vars
  BY <1>20 DEF vars, SavedInv, Booting
<1> QED
  BY <1>1, <1>2, <1>3, <1>4, <1>5, <1>6, <1>7, <1>8, <1>9, <1>10, <1>11,
     <1>12, <1>13, <1>14, <1>15, <1>16, <1>17, <1>18, <1>19, <1>20
  DEF Next, LoopStep, PoolStep, Threads

\* No action moves the endpoint and memory apart outside a save.
LEMMA SipInvStep ==
    ASSUME TypeOK, PlaceInv, EngineInv, DownInv, SipInv, [Next]_vars
    PROVE  SipInv'
<1>1. CASE Crash
  <2>1. Exit
    BY <1>1 DEF Crash
  <2> QED
    BY <2>1, ExitShape DEF SipInv
<1>2. CASE Start
  BY <1>2 DEF Start, At, SipInv, applied, history
<1>3. CASE LoadFile
  BY <1>3 DEF LoadFile, At, SipInv, DownInv, PlaceInv, applied
<1>4. CASE LoadCreatesFile
  BY <1>4 DEF LoadCreatesFile, At, SipInv, DownInv, PlaceInv, applied
<1>5. CASE Receive(Import)
  BY <1>5 DEF Receive, At, SipInv, applied, history
<1>6. ASSUME NEW s \in Sections, NEW v \in Values[s] \cup {Invalid},
             Receive(Form(s, v))
      PROVE  SipInv'
  BY <1>6 DEF Receive, At, SipInv, applied, history
<1>7. CASE SaveTable
  BY <1>7 DEF SaveTable, At, SipInv, applied, history
<1>8. CASE SaveTableFails
  BY <1>8 DEF SaveTableFails, Failed, At, SipInv, applied
<1>9. CASE Assign
  BY <1>9, AssignShape
  DEF Assign, Goto, SipInv, DownInv, TypeOK, Threads, applied, Booting
<1>10. CASE AssignRejects
  BY <1>10 DEF AssignRejects, Failed, At, SipInv, applied
<1>11. CASE WriteTmp
  BY <1>11 DEF WriteTmp, Goto, SipInv, applied, history, Booting
<1>12. CASE WriteFails
  BY <1>12, ExitShape DEF WriteFails, Failed, SipInv, NeedsReschedule, applied
<1>13. CASE Replace
  BY <1>13 DEF Replace, Goto, SipInv, NeedsRestart, TypeOK, applied, Booting
<1>14. ASSUME NEW t \in Threads, Teardown(t) PROVE SipInv'
  <2>1. CASE t = Loop
    BY <1>14, <2>1 DEF Teardown, SipInv
  <2>2. CASE t = Pool
    BY <1>14, <2>2 DEF Teardown, SipInv
  <2> QED
    BY <2>1, <2>2 DEF Threads
<1>15. ASSUME NEW t \in Threads, CreateTransport(t) PROVE SipInv'
  <2>1. CASE t = Loop
    BY <1>15, <2>1 DEF CreateTransport, At, SipInv, history
  <2>2. CASE t = Pool
    BY <1>15, <2>2
    DEF CreateTransport, Goto, SipInv, EngineInv, history, Booting
  <2> QED
    BY <2>1, <2>2 DEF Threads
<1>16. ASSUME NEW t \in Threads, CreateAccount(t) PROVE SipInv'
  <2>1. CASE t = Loop
    BY <1>16, <2>1 DEF CreateAccount, At, SipInv, history
  <2>2. CASE t = Pool
    BY <1>16, <2>2
    DEF CreateAccount, Goto, SipInv, EngineInv, history, Booting
  <2> QED
    BY <2>1, <2>2 DEF Threads
<1>17. ASSUME NEW t \in Threads, LibraryRaises(t) PROVE SipInv'
  <2>1. CASE Exit
    BY <2>1, ExitShape DEF SipInv
  <2>2. CASE ~Exit /\ t = Loop
    BY <1>17, <2>2, LibraryRaisesShape DEF SipInv, applied, history
  <2>3. CASE ~Exit /\ t = Pool
    BY <1>17, <2>3, LibraryRaisesShape DEF SipInv, applied, history, Booting
  <2> QED
    BY <2>1, <2>2, <2>3 DEF Threads
<1>18. CASE Rebuild
  BY <1>18 DEF Rebuild, At, SipInv, engine
<1>19. CASE RebuildRaises
  BY <1>19 DEF RebuildRaises, Failed, At, SipInv, engine
<1>20. CASE UNCHANGED vars
  BY <1>20 DEF vars, applied, history, SipInv, applied, history, Booting
<1> QED
  BY <1>1, <1>2, <1>3, <1>4, <1>5, <1>6, <1>7, <1>8, <1>9, <1>10, <1>11,
     <1>12, <1>13, <1>14, <1>15, <1>16, <1>17, <1>18, <1>19, <1>20
  DEF Next, LoopStep, PoolStep, Threads

\* No action moves the jobs and the settings apart outside a save.
LEMMA JobsInvStep ==
    ASSUME TypeOK, PlaceInv, EngineInv, DownInv, JobsInv, [Next]_vars
    PROVE  JobsInv'
<1>1. CASE Crash
  <2>1. Exit
    BY <1>1 DEF Crash
  <2> QED
    BY <2>1, ExitShape DEF JobsInv
<1>2. CASE Start
  BY <1>2 DEF Start, At, Goto, JobsInv, Wanted, applied, history, Booting
<1>3. CASE LoadFile
  BY <1>3 DEF LoadFile, At, Goto, JobsInv, PlaceInv, Booting
<1>4. CASE LoadCreatesFile
  BY <1>4 DEF LoadCreatesFile, At, Goto, JobsInv, PlaceInv, Booting
<1>5. CASE Receive(Import)
  BY <1>5 DEF Receive, At, JobsInv, Wanted, applied, history
<1>6. ASSUME NEW s \in Sections, NEW v \in Values[s] \cup {Invalid},
             Receive(Form(s, v))
      PROVE  JobsInv'
  BY <1>6 DEF Receive, At, JobsInv, Wanted, applied, history
<1>7. CASE SaveTable
  BY <1>7 DEF SaveTable, At, Goto, JobsInv, TypeOK, Threads, PlaceInv
<1>8. CASE SaveTableFails
  BY <1>8 DEF SaveTableFails, Failed, At, JobsInv, Wanted, applied
<1>9. CASE Assign
  BY <1>9, AssignShape, ConfigIsProper
  DEF Assign, At, Goto, JobsInv, Import, Wanted, TypeOK, Threads, applied,
      Boot
<1>10. CASE AssignRejects
  BY <1>10, SettingsAssumption
  DEF AssignRejects, Failed, At, JobsInv, Import, Wanted, TypeOK, applied,
      Boot
<1>11. CASE WriteTmp
  BY <1>11 DEF WriteTmp, At, Goto, JobsInv, Wanted, applied, history, Booting
<1>12. CASE WriteFails
  BY <1>12, ExitShape
  DEF WriteFails, Failed, At, JobsInv, NeedsReschedule, Wanted, applied
<1>13. CASE Replace
  BY <1>13
  DEF Replace, At, Goto, JobsInv, NeedsReschedule, NeedsRestart, Wanted,
      TypeOK, applied, Booting
<1>14. ASSUME NEW t \in Threads, Teardown(t) PROVE JobsInv'
  <2>1. CASE t = Loop
    BY <1>14, <2>1
    DEF Teardown, EntersEngine, At, Goto, JobsInv, Wanted, Booting
  <2>2. CASE t = Pool
    BY <1>14, <2>2
    DEF Teardown, EntersEngine, At, Goto, JobsInv, Serving, Wanted, EngineInv
  <2> QED
    BY <2>1, <2>2 DEF Threads
<1>15. ASSUME NEW t \in Threads, CreateTransport(t) PROVE JobsInv'
  <2>1. CASE t = Loop
    BY <1>15, <2>1
    DEF CreateTransport, At, Goto, JobsInv, Wanted, history, Booting
  <2>2. CASE t = Pool
    BY <1>15, <2>2
    DEF CreateTransport, At, Goto, JobsInv, Serving, Wanted, EngineInv,
        history
  <2> QED
    BY <2>1, <2>2 DEF Threads
<1>16. ASSUME NEW t \in Threads, CreateAccount(t) PROVE JobsInv'
  <2>1. CASE t = Loop
    BY <1>16, <2>1
    DEF CreateAccount, At, Goto, JobsInv, Wanted, history, Booting
  <2>2. CASE t = Pool
    BY <1>16, <2>2
    DEF CreateAccount, At, Goto, JobsInv, Serving, Wanted, EngineInv, history
  <2> QED
    BY <2>1, <2>2 DEF Threads
<1>17. ASSUME NEW t \in Threads, LibraryRaises(t) PROVE JobsInv'
  <2>1. CASE Exit
    BY <2>1, ExitShape DEF JobsInv
  <2>2. CASE ~Exit /\ t = Loop
    BY <1>17, <2>2, LibraryRaisesShape
    DEF At, JobsInv, Wanted, applied, history
  <2>3. CASE ~Exit /\ t = Pool
    BY <1>17, <2>3, LibraryRaisesShape
    DEF At, JobsInv, Serving, Wanted, EngineInv, applied, history
  <2> QED
    BY <2>1, <2>2, <2>3 DEF Threads
<1>18. CASE Rebuild
  BY <1>18 DEF Rebuild, JobsInv, Wanted
<1>19. CASE RebuildRaises
  BY <1>19 DEF RebuildRaises, Failed, JobsInv, NeedsReschedule
<1>20. CASE UNCHANGED vars
  BY <1>20
  DEF vars, applied, history, At, JobsInv, Wanted, applied, history, Booting
<1> QED
  BY <1>1, <1>2, <1>3, <1>4, <1>5, <1>6, <1>7, <1>8, <1>9, <1>10, <1>11,
     <1>12, <1>13, <1>14, <1>15, <1>16, <1>17, <1>18, <1>19, <1>20
  DEF Next, LoopStep, PoolStep, Threads

\* No action gives a variable a value of another kind.
LEMMA TypeOKStep ==
    ASSUME TypeOK, PlaceInv, EngineInv, SavedInv, [Next]_vars
    PROVE  TypeOK'
<1>1. CASE Crash
  <2>1. Exit /\ crashes' \in 0 .. MaxCrashes
    BY <1>1, SettingsAssumption DEF Crash, TypeOK
  <2> QED
    BY <2>1, ExitTypes
<1>2. CASE Start
  BY <1>2 DEF Start, Goto, TypeOK, applied, history
<1>3. CASE LoadFile
  BY <1>3 DEF LoadFile, Goto, TypeOK, applied, history
<1>4. CASE LoadCreatesFile
  BY <1>4, SettingsAssumption
  DEF LoadCreatesFile, Goto, TypeOK, applied, history
<1>5. CASE Receive(Import)
  BY <1>5 DEF Receive, Goto, TypeOK, applied, history
<1>6. ASSUME NEW s \in Sections, NEW v \in Values[s] \cup {Invalid},
             Receive(Form(s, v))
      PROVE  TypeOK'
  <2>1. req' \in [kind : {"form"}, section : Sections,
                  value : Contents \cup {Invalid}]
    <3>1. v \in Contents \cup {Invalid}
      BY <1>6 DEF Contents
    <3> QED
      BY <1>6, <3>1 DEF Receive, Form
  <2> QED
    BY <1>6, <2>1 DEF Receive, Goto, applied, history, TypeOK
<1>7. CASE SaveTable
  BY <1>7 DEF SaveTable, Goto, TypeOK, applied, history
<1>8. CASE SaveTableFails
  BY <1>8 DEF SaveTableFails, Failed, Goto, TypeOK, applied
<1>9. CASE Assign
  <2>1. kept' \in [Sections -> SUBSET Contents]
    <3>1. req.value \in Contents
      BY <1>9, AssignShape DEF Contents
    <3> QED
      BY <1>9, <3>1 DEF Assign, TypeOK
  <2> QED
    BY <1>9, <2>1, AssignShape DEF Assign, Goto, applied, TypeOK
<1>10. CASE AssignRejects
  BY <1>10 DEF AssignRejects, Failed, Goto, TypeOK, applied
<1>11. CASE WriteTmp
  BY <1>11 DEF WriteTmp, Goto, TypeOK, applied, history
<1>12. CASE WriteFails
  BY <1>12, ExitShape
  DEF WriteFails, Failed, At, Goto, TypeOK, Threads, applied, Booting
<1>13. CASE Replace
  <2>1. memory \in Configs /\ pc[Loop] = "replace"
    BY <1>13 DEF Replace, PlaceInv, TypeOK, At
  <2>2. CASE Answered
    BY <1>13, <2>1, <2>2, AnsweredShape DEF Replace, applied, TypeOK
  <2>3. CASE ~Answered
    BY <1>13, <2>1, <2>3 DEF Replace, Goto, applied, TypeOK
  <2> QED
    BY <2>2, <2>3
<1>14. ASSUME NEW t \in Threads, Teardown(t) PROVE TypeOK'
  <2>1. CASE t = Loop
    BY <1>14, <2>1 DEF Teardown, Goto, TypeOK
  <2>2. CASE t = Pool
    BY <1>14, <2>2 DEF Teardown, Goto, TypeOK
  <2> QED
    BY <2>1, <2>2 DEF Threads
<1>15. ASSUME NEW t \in Threads, CreateTransport(t) PROVE TypeOK'
  <2>1. CASE t = Loop
    BY <1>15, <2>1, ConfigIsProper
    DEF CreateTransport, At, Goto, TypeOK, PlaceInv, history
  <2>2. CASE t = Pool
    BY <1>15, <2>2, ConfigIsProper
    DEF CreateTransport, At, Goto, Serving, TypeOK, EngineInv, history
  <2> QED
    BY <2>1, <2>2 DEF Threads
<1>16. ASSUME NEW t \in Threads, CreateAccount(t) PROVE TypeOK'
  <2>1. CASE t = Loop
    BY <1>16, <2>1, ConfigIsProper
    DEF CreateAccount, At, Goto, TypeOK, PlaceInv, history
  <2>2. CASE t = Pool
    BY <1>16, <2>2, ConfigIsProper
    DEF CreateAccount, At, Goto, Serving, TypeOK, EngineInv, history
  <2> QED
    BY <2>1, <2>2 DEF Threads
<1>17. ASSUME NEW t \in Threads, LibraryRaises(t) PROVE TypeOK'
  <2>1. CASE Exit
    BY <1>17, <2>1, LibraryRaisesShape, ExitTypes DEF TypeOK
  <2>2. CASE ~Exit /\ t = Loop
    BY <1>17, <2>2, LibraryRaisesShape DEF TypeOK, applied, history
  <2>3. CASE ~Exit /\ t = Pool
    BY <1>17, <2>3, LibraryRaisesShape DEF TypeOK, applied, history
  <2> QED
    BY <2>1, <2>2, <2>3 DEF Threads
<1>18. CASE Rebuild
  <2>1. memory \in Configs /\ pc[Loop] = "rebuild"
    BY <1>18 DEF Rebuild, PlaceInv, TypeOK, At
  <2>2. jobs' \in [prayer : Values["prayer"], table : Tables]
    BY <1>18, <2>1, ConfigIsProper DEF Rebuild, Wanted, TypeOK
  <2> QED
    BY <1>18, <2>1, <2>2, AnsweredShape DEF Rebuild, engine, TypeOK
<1>19. CASE RebuildRaises
  BY <1>19 DEF RebuildRaises, Failed, Goto, TypeOK, engine
<1>20. CASE UNCHANGED vars
  BY <1>20 DEF vars, applied, history, TypeOK, applied, history
<1> QED
  BY <1>1, <1>2, <1>3, <1>4, <1>5, <1>6, <1>7, <1>8, <1>9, <1>10, <1>11,
     <1>12, <1>13, <1>14, <1>15, <1>16, <1>17, <1>18, <1>19, <1>20
  DEF Next, LoopStep, PoolStep, Threads

-----------------------------------------------------------------------------
\* The invariant holds before the first start, ...
LEMMA IInvInitially == Init => IInv
<1> SUFFICES ASSUME Init PROVE IInv
  OBVIOUS
<1>1. Loop # Pool /\ Off # Loop /\ Off # Pool /\ Off \notin Configs
  BY SettingsAssumption DEF Threads
<1>2. \A s \in Sections : Default[s] \in Contents
  BY SettingsAssumption DEF Configs
<1>3. TypeOK
  BY <1>2, SettingsAssumption DEF Init, TypeOK, Booting
<1>4. PlaceInv
  BY DEF Init, PlaceInv, Booting, Boot, Threads
<1>5. EngineInv
  BY <1>1 DEF Init, EngineInv, Threads
<1>6. DownInv /\ SavedInv /\ SipInv /\ JobsInv
  BY DEF Init, DownInv, SavedInv, SipInv, JobsInv, Booting, Boot
<1>7. FileInv
  BY SettingsAssumption
  DEF Init, FileInv, FileAlwaysLoads, Booting, Boot, Threads
<1>8. KeptInv
  BY SettingsAssumption DEF Init, KeptInv, ConfirmedIsDurable
<1> QED
  BY <1>3, <1>4, <1>5, <1>6, <1>7, <1>8 DEF IInv

\* ... and every step keeps it.
LEMMA IInvStep ==
    ASSUME IInv, [Next]_vars
    PROVE  IInv'
  BY PlaceInvStep, EngineInvStep, DownInvStep, FileInvStep, KeptInvStep,
     SavedInvStep, SipInvStep, JobsInvStep, TypeOKStep
  DEF IInv

\* IInv is an invariant.
THEOREM SettingsInvariant == Safety => []IInv
  BY IInvInitially, IInvStep, PTL DEF Safety

\* The variables of Settings keep values of the kind the code gives them.
THEOREM SettingsTypeCorrect == Spec => []TypeOK
<1>1. IInv => TypeOK
  BY DEF IInv
<1> QED
  BY <1>1, SettingsInvariant, PTL DEF Spec

\* Every start finds a file that config.load accepts, or none at all,
\* wherever the process was killed before (config._write).
THEOREM FileLoadsAfterAnyKill == Spec => []FileAlwaysLoads
<1>1. IInv => FileAlwaysLoads
  BY DEF IInv, FileInv
<1> QED
  BY <1>1, SettingsInvariant, PTL DEF Spec

\* Each section of the file is the one last confirmed to a client, or one
\* assigned after it (config.save, update_config).
THEOREM SavedSettingsAreDurable == Spec => []ConfirmedIsDurable
<1>1. IInv => ConfirmedIsDurable
  BY DEF IInv, KeptInv
<1> QED
  BY <1>1, SettingsInvariant, PTL DEF Spec

\* Between saves the endpoint runs with the settings in memory or not at all,
\* however sip_reconnect interleaves (update_config, Endpoint.restart).
THEOREM EndpointFollowsSettings == Spec => []EndpointMatchesSettings
<1>1. IInv => EndpointMatchesSettings
  BY DEF IInv, PlaceInv, SipInv, EndpointMatchesSettings, At
<1> QED
  BY <1>1, SettingsInvariant, PTL DEF Spec

\* Between saves the jobs come from the settings in memory and the timetable
\* on disk, unless a request failed halfway (update_config, manual_import).
THEOREM JobsFollowSettings == Spec => []JobsMatchSettings
<1>1. IInv => JobsMatchSettings
  BY DEF IInv, PlaceInv, JobsInv, JobsMatchSettings, At
<1> QED
  BY <1>1, SettingsInvariant, PTL DEF Spec
=============================================================================
