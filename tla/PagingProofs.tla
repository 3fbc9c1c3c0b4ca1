---------------------------- MODULE PagingProofs ----------------------------
(***************************************************************************)
(* What Paging promises for any number of pages, destinations and stops,   *)
(* with or without refused hang-ups and restarts.  IInv is the inductive   *)
(* invariant; every part of it has a lemma below that takes each action in *)
(* turn, and the theorems at the end follow from it.                       *)
(***************************************************************************)
EXTENDS Paging, TLAPS

Holding == {"resolve", "enter", "reset", "show", "next", "dialling", "leave",
            "clear", "record"}

\* _page_lock is held by the thread that is inside the with statement.
LockInv == \A j \in Jobs : pc[j] \in Holding <=> page_lock = j

\* Where a page thread is while its calls are dialled.
DialInv ==
    /\ \A c \in Call : dial[c] \in Dialling =>
          pc[JobOf(c)] = IF mode[JobOf(c)] = "parallel" THEN "next" ELSE "dialling"
    /\ \A c1, c2 \in Call :
          /\ JobOf(c1) = JobOf(c2) /\ mode[JobOf(c1)] # "parallel"
          /\ dial[c1] \in Dialling /\ dial[c2] \in Dialling
          => c1 = c2
    /\ \A j \in Jobs : pc[j] = "dialling" => mode[j] # "parallel"

\* Before makeCall there is no call, and each destination is taken once.
FreshInv ==
    /\ \A c \in Call : dial[c] \in {"idle", "spawned", "start", "dial", "dangling"}
                       => sip[c] = "null"
    /\ \A j \in Jobs : \A d \in todo[j] : dial[<<j, d>>] = "idle"
    /\ \A j \in Jobs : pc[j] \in {"idle", "blocked", "resolve"} =>
          /\ todo[j] = {}
          /\ \A d \in Dests : dial[<<j, d>>] = "idle"

\* Endpoint._active is set exactly while its page is inside the try.
ShownInv ==
    /\ \A j \in Jobs : pc[j] \in {"next", "dialling", "leave"} <=> active.job = j
    /\ active.job = NoJob => active = NoPage

\* Endpoint._active_calls lists calls that are waited for or being dropped.
ListInv == \A c \in active_calls : dial[c] \in {"wait", "expired", "unreg"}

\* onCallState sets the event only when the call is disconnected.
DoneInv == \A c \in Call : done[c] => sip[c] = "gone"

\* While hang-ups work, a call that can be heard is waited for.
LiveInv == ~Refusals => \A c \in Call :
                sip[c] \in Live => dial[c] \in {"made", "wait", "expired"}

\* The stop flag, as far as a running page sees it, was raised during it.
SkipInv ==
    /\ SkippedOnlyIfStopped
    /\ stop_requested => \A j \in Jobs :
          pc[j] \in {"show", "next", "dialling"} => j \in pressed

IInv == TypeOK /\ LockInv /\ DialInv /\ FreshInv /\ ShownInv /\ ListInv
               /\ DoneInv /\ LiveInv /\ SkipInv /\ ConnectedIsReal

-----------------------------------------------------------------------------
(* Type correctness, one lemma per group of variables.                     *)

\* The fields of the page threads keep their types.
LEMMA PageTypeOKStep ==
    ASSUME PageTypeOK, [Next]_vars
    PROVE  PageTypeOK'
<1>1. UNCHANGED <<pc, mode, todo, raised>> => PageTypeOK'
  BY DEF PageTypeOK, Call, JobOf
<1>2. ASSUME NEW j \in Jobs, Trigger(j) PROVE PageTypeOK'
  BY <1>2 DEF Trigger, Goto, pageVars, PageTypeOK, Call, JobOf
<1>3. ASSUME NEW j \in Jobs, Acquire(j) PROVE PageTypeOK'
  BY <1>3 DEF Acquire, Goto, pageVars, PageTypeOK, Call, JobOf
<1>4. ASSUME NEW j \in Jobs, Skip(j) PROVE PageTypeOK'
  BY <1>4 DEF Skip, Goto, pageVars, PageTypeOK, Call, JobOf
<1>5. ASSUME NEW j \in Jobs, Resolve(j) PROVE PageTypeOK'
  BY <1>5, PagingAssumption DEF Resolve, Goto, pageVars, PageTypeOK, Call,
       JobOf
<1>6. ASSUME NEW j \in Jobs, EnterPage(j) PROVE PageTypeOK'
  BY <1>6 DEF EnterPage, Goto, pageVars, PageTypeOK, Call, JobOf
<1>7. ASSUME NEW j \in Jobs, ResetStop(j) PROVE PageTypeOK'
  BY <1>7 DEF ResetStop, Goto, Register, pageVars, PageTypeOK, Call, JobOf
<1>8. ASSUME NEW j \in Jobs, SetActive(j) PROVE PageTypeOK'
  BY <1>8 DEF SetActive, Goto, NoPage, pageVars, PageTypeOK, Call, JobOf
<1>9. ASSUME NEW j \in Jobs, NextDest(j) PROVE PageTypeOK'
  BY <1>9 DEF NextDest, Goto, pageVars, PageTypeOK, Call, JobOf
<1>10. ASSUME NEW j \in Jobs, SpawnDial(j) PROVE PageTypeOK'
  BY <1>10 DEF SpawnDial, pageVars, PageTypeOK, Call, JobOf
<1>11. ASSUME NEW j \in Jobs, LoopEnds(j) PROVE PageTypeOK'
  BY <1>11 DEF LoopEnds, Goto, pageVars, PageTypeOK, Call, JobOf
<1>12. ASSUME NEW j \in Jobs, Hide(j) PROVE PageTypeOK'
  BY <1>12 DEF Hide, Goto, NoPage, pageVars, PageTypeOK, Call, JobOf
<1>13. ASSUME NEW j \in Jobs, ClearStop(j) PROVE PageTypeOK'
  BY <1>13 DEF ClearStop, Goto, pageVars, PageTypeOK, Call, JobOf
<1>14. ASSUME NEW j \in Jobs, Release(j) PROVE PageTypeOK'
  BY <1>14 DEF Release, Goto, pageVars, PageTypeOK, Call, JobOf
<1>15. ASSUME NEW c \in Call, ConstructRaises(c) PROVE PageTypeOK'
  BY <1>15 DEF ConstructRaises, pageVars, PageTypeOK, Call, JobOf
<1>16. ASSUME NEW c \in Call, MakeCallFails(c) PROVE PageTypeOK'
  BY <1>16 DEF MakeCallFails, Resume, pageVars, PageTypeOK, Call, JobOf
<1>17. ASSUME NEW c \in Call, UnregisterCall(c) PROVE PageTypeOK'
  BY <1>17 DEF UnregisterCall, Resume, pageVars, PageTypeOK, Call, JobOf
<1>18. ASSUME NEW c \in Call,
             RegisterDial(c) \/ Construct(c) \/ MakeCall(c) \/ FreedAccount(c) \/
             RegisterCall(c) \/ WaitReturns(c) \/ ForceHangup(c)
     PROVE  UNCHANGED <<pc, mode, todo, raised>>
  BY <1>18 DEF RegisterDial, Construct, MakeCall, FreedAccount, RegisterCall,
       WaitReturns, ForceHangup, pageVars
<1>19. ASSUME NEW c \in Call,
             Answer(c) \/ Disconnect(c) \/ MediaActive(c) \/ StartPlayback(c) \/
             Eof(c) \/ LaterHangup(c)
     PROVE  UNCHANGED <<pc, mode, todo, raised>>
  BY <1>19 DEF Answer, Disconnect, MediaActive, StartPlayback, Eof,
       LaterHangup, pageVars
<1>20. ASSUME NEW s \in Stoppers,
             PressStop(s) \/ TakeSnapshot(s) \/ StopHangup(s) \/ StopReturns(s)
     PROVE  UNCHANGED <<pc, mode, todo, raised>>
  BY <1>20 DEF PressStop, TakeSnapshot, StopHangup, StopReturns, pageVars
<1>21. ASSUME DropAccount \/ LibDestroy \/ StartEndpoint \/ StartFails \/
             UnknownThread
     PROVE  UNCHANGED <<pc, mode, todo, raised>>
  BY <1>21 DEF DropAccount, LibDestroy, StartEndpoint, StartFails,
       UnknownThread, pageVars
<1>22. ASSUME Idle \/ UNCHANGED vars PROVE UNCHANGED <<pc, mode, todo, raised>>
  BY <1>22 DEF Idle, vars, pageVars
<1> QED
  BY <1>1, <1>2, <1>3, <1>4, <1>5, <1>6, <1>7, <1>8, <1>9, <1>10, <1>11,
       <1>12, <1>13, <1>14, <1>15, <1>16, <1>17, <1>18, <1>19, <1>20, <1>21,
       <1>22
  DEF Next, PageStep, DialStep, LibraryStep, StopStep, RestartStep

\* The fields of the calls keep their types.
LEMMA CallTypeOKStep ==
    ASSUME CallTypeOK, [Next]_vars
    PROVE  CallTypeOK'
<1>1. UNCHANGED <<dial, sip, done, audio, worker>> => CallTypeOK'
  BY DEF CallTypeOK, Call, JobOf, Dialling, Placed, Up, Live
<1>2. ASSUME NEW j \in Jobs, NextDest(j) PROVE CallTypeOK'
  BY <1>2 DEF NextDest, Goto, callVars, CallTypeOK, Call, JobOf, Dialling,
       Placed, Up, Live
<1>3. ASSUME NEW j \in Jobs, SpawnDial(j) PROVE CallTypeOK'
  BY <1>3 DEF SpawnDial, callVars, CallTypeOK, Call, JobOf, Dialling, Placed,
       Up, Live
<1>4. ASSUME NEW j \in Jobs,
             Trigger(j) \/ Acquire(j) \/ Skip(j) \/ Resolve(j) \/ EnterPage(j) \/
             ResetStop(j) \/ SetActive(j) \/ LoopEnds(j) \/ Hide(j) \/
             ClearStop(j) \/ Release(j)
     PROVE  UNCHANGED <<dial, sip, done, audio, worker>>
  BY <1>4 DEF Trigger, Acquire, Skip, Resolve, EnterPage, ResetStop,
       SetActive, LoopEnds, Hide, ClearStop, Release, callVars
<1>5. ASSUME NEW c \in Call, RegisterDial(c) PROVE CallTypeOK'
  BY <1>5 DEF RegisterDial, Register, callVars, CallTypeOK, Call, JobOf,
       Dialling, Placed, Up, Live
<1>6. ASSUME NEW c \in Call, Construct(c) PROVE CallTypeOK'
  BY <1>6 DEF Construct, callVars, CallTypeOK, Call, JobOf, Dialling, Placed,
       Up, Live
<1>7. ASSUME NEW c \in Call, ConstructRaises(c) PROVE CallTypeOK'
  BY <1>7 DEF ConstructRaises, callVars, CallTypeOK, Call, JobOf, Dialling,
       Placed, Up, Live
<1>8. ASSUME NEW c \in Call, MakeCall(c) PROVE CallTypeOK'
  BY <1>8 DEF MakeCall, callVars, CallTypeOK, Call, JobOf, Dialling, Placed,
       Up, Live
<1>9. ASSUME NEW c \in Call, MakeCallFails(c) PROVE CallTypeOK'
  BY <1>9 DEF MakeCallFails, Resume, callVars, CallTypeOK, Call, JobOf,
       Dialling, Placed, Up, Live
<1>10. ASSUME NEW c \in Call, RegisterCall(c) PROVE CallTypeOK'
  BY <1>10 DEF RegisterCall, callVars, CallTypeOK, Call, JobOf, Dialling,
       Placed, Up, Live
<1>11. ASSUME NEW c \in Call, WaitReturns(c) PROVE CallTypeOK'
  BY <1>11 DEF WaitReturns, callVars, CallTypeOK, Call, JobOf, Dialling,
       Placed, Up, Live
<1>12. ASSUME NEW c \in Call, ForceHangup(c) PROVE CallTypeOK'
  BY <1>12 DEF ForceHangup, HangUp, callVars, CallTypeOK, Call, JobOf,
       Dialling, Placed, Up, Live
<1>13. ASSUME NEW c \in Call, UnregisterCall(c) PROVE CallTypeOK'
  BY <1>13 DEF UnregisterCall, Resume, callVars, CallTypeOK, Call, JobOf,
       Dialling, Placed, Up, Live
<1>14. ASSUME NEW c \in Call,
             FreedAccount(c)
     PROVE  UNCHANGED <<dial, sip, done, audio, worker>>
  BY <1>14 DEF FreedAccount, callVars
<1>15. ASSUME NEW c \in Call, Answer(c) PROVE CallTypeOK'
  BY <1>15 DEF Answer, callVars, CallTypeOK, Call, JobOf, Dialling, Placed,
       Up, Live
<1>16. ASSUME NEW c \in Call, Disconnect(c) PROVE CallTypeOK'
  BY <1>16 DEF Disconnect, callVars, CallTypeOK, Call, JobOf, Dialling,
       Placed, Up, Live
<1>17. ASSUME NEW c \in Call, MediaActive(c) PROVE CallTypeOK'
  BY <1>17 DEF MediaActive, callVars, CallTypeOK, Call, JobOf, Dialling,
       Placed, Up, Live
<1>18. ASSUME NEW c \in Call, StartPlayback(c) PROVE CallTypeOK'
  BY <1>18 DEF StartPlayback, HangUp, callVars, CallTypeOK, Call, JobOf,
       Dialling, Placed, Up, Live
<1>19. ASSUME NEW c \in Call, Eof(c) PROVE CallTypeOK'
  BY <1>19 DEF Eof, Register, callVars, CallTypeOK, Call, JobOf, Dialling,
       Placed, Up, Live
<1>20. ASSUME NEW c \in Call, LaterHangup(c) PROVE CallTypeOK'
  BY <1>20 DEF LaterHangup, HangUp, callVars, CallTypeOK, Call, JobOf,
       Dialling, Placed, Up, Live
<1>21. ASSUME NEW s \in Stoppers, StopHangup(s) PROVE CallTypeOK'
  BY <1>21 DEF StopHangup, HangUp, callVars, CallTypeOK, Call, JobOf,
       Dialling, Placed, Up, Live
<1>22. ASSUME NEW s \in Stoppers,
             PressStop(s) \/ TakeSnapshot(s) \/ StopReturns(s)
     PROVE  UNCHANGED <<dial, sip, done, audio, worker>>
  BY <1>22 DEF PressStop, TakeSnapshot, StopReturns, callVars
<1>23. ASSUME DropAccount PROVE CallTypeOK'
  BY <1>23 DEF DropAccount, callVars, CallTypeOK, Call, JobOf, Dialling,
       Placed, Up, Live
<1>24. ASSUME LibDestroy PROVE CallTypeOK'
  BY <1>24 DEF LibDestroy, callVars, CallTypeOK, Call, JobOf, Dialling,
       Placed, Up, Live
<1>25. ASSUME StartEndpoint \/ StartFails \/ UnknownThread
     PROVE  UNCHANGED <<dial, sip, done, audio, worker>>
  BY <1>25 DEF StartEndpoint, StartFails, UnknownThread, callVars
<1>26. ASSUME Idle \/ UNCHANGED vars PROVE UNCHANGED <<dial, sip, done,
     audio, worker>>
  BY <1>26 DEF Idle, vars, callVars
<1> QED
  BY <1>1, <1>2, <1>3, <1>4, <1>5, <1>6, <1>7, <1>8, <1>9, <1>10, <1>11,
       <1>12, <1>13, <1>14, <1>15, <1>16, <1>17, <1>18, <1>19, <1>20, <1>21,
       <1>22, <1>23, <1>24, <1>25, <1>26
  DEF Next, PageStep, DialStep, LibraryStep, StopStep, RestartStep

\* The fields shared by the threads keep their types.
LEMMA SharedTypeOKStep ==
    ASSUME SharedTypeOK, [Next]_vars
    PROVE  SharedTypeOK'
<1>1. UNCHANGED <<page_lock, active, active_calls, stop_requested,
     last_page>> => SharedTypeOK'
  BY DEF SharedTypeOK, NoPage, PageInfo
<1>2. ASSUME NEW j \in Jobs, Acquire(j) PROVE SharedTypeOK'
  BY <1>2 DEF Acquire, Goto, sharedVars, SharedTypeOK, NoPage, PageInfo
<1>3. ASSUME NEW j \in Jobs, Skip(j) PROVE SharedTypeOK'
  BY <1>3 DEF Skip, Goto, sharedVars, SharedTypeOK, NoPage, PageInfo
<1>4. ASSUME NEW j \in Jobs, ResetStop(j) PROVE SharedTypeOK'
  BY <1>4 DEF ResetStop, Goto, Register, sharedVars, SharedTypeOK, NoPage,
       PageInfo
<1>5. ASSUME NEW j \in Jobs, SetActive(j) PROVE SharedTypeOK'
  BY <1>5 DEF SetActive, Goto, sharedVars, SharedTypeOK, NoPage, PageInfo
<1>6. ASSUME NEW j \in Jobs, Hide(j) PROVE SharedTypeOK'
  BY <1>6 DEF Hide, Goto, sharedVars, SharedTypeOK, NoPage, PageInfo
<1>7. ASSUME NEW j \in Jobs, ClearStop(j) PROVE SharedTypeOK'
  BY <1>7 DEF ClearStop, Goto, sharedVars, SharedTypeOK, NoPage, PageInfo
<1>8. ASSUME NEW j \in Jobs, Release(j) PROVE SharedTypeOK'
  BY <1>8 DEF Release, Goto, sharedVars, SharedTypeOK, NoPage, PageInfo
<1>9. ASSUME NEW j \in Jobs,
             Trigger(j) \/ Resolve(j) \/ EnterPage(j) \/ NextDest(j) \/
             SpawnDial(j) \/ LoopEnds(j)
     PROVE  UNCHANGED <<page_lock, active, active_calls, stop_requested,
       last_page>>
  BY <1>9 DEF Trigger, Resolve, EnterPage, NextDest, SpawnDial, LoopEnds,
       sharedVars
<1>10. ASSUME NEW c \in Call, RegisterCall(c) PROVE SharedTypeOK'
  BY <1>10 DEF RegisterCall, sharedVars, SharedTypeOK, NoPage, PageInfo
<1>11. ASSUME NEW c \in Call, UnregisterCall(c) PROVE SharedTypeOK'
  BY <1>11 DEF UnregisterCall, Resume, sharedVars, SharedTypeOK, NoPage,
       PageInfo
<1>12. ASSUME NEW c \in Call,
             RegisterDial(c) \/ Construct(c) \/ ConstructRaises(c) \/
             MakeCall(c) \/ MakeCallFails(c) \/ FreedAccount(c) \/ WaitReturns(c) \/
             ForceHangup(c)
     PROVE  UNCHANGED <<page_lock, active, active_calls, stop_requested,
       last_page>>
  BY <1>12 DEF RegisterDial, Construct, ConstructRaises, MakeCall,
       MakeCallFails, FreedAccount, WaitReturns, ForceHangup, sharedVars
<1>13. ASSUME NEW c \in Call, Answer(c) PROVE SharedTypeOK'
  BY <1>13 DEF Answer, sharedVars, SharedTypeOK, NoPage, PageInfo
<1>14. ASSUME NEW c \in Call,
             Disconnect(c) \/ MediaActive(c) \/ StartPlayback(c) \/ Eof(c) \/
             LaterHangup(c)
     PROVE  UNCHANGED <<page_lock, active, active_calls, stop_requested,
       last_page>>
  BY <1>14 DEF Disconnect, MediaActive, StartPlayback, Eof, LaterHangup,
       sharedVars
<1>15. ASSUME NEW s \in Stoppers, PressStop(s) PROVE SharedTypeOK'
  BY <1>15 DEF PressStop, Register, sharedVars, SharedTypeOK, NoPage, PageInfo
<1>16. ASSUME NEW s \in Stoppers, TakeSnapshot(s) PROVE SharedTypeOK'
  BY <1>16 DEF TakeSnapshot, sharedVars, SharedTypeOK, NoPage, PageInfo
<1>17. ASSUME NEW s \in Stoppers,
             StopHangup(s) \/ StopReturns(s)
     PROVE  UNCHANGED <<page_lock, active, active_calls, stop_requested,
       last_page>>
  BY <1>17 DEF StopHangup, StopReturns, sharedVars
<1>18. ASSUME DropAccount \/ LibDestroy \/ StartEndpoint \/ StartFails \/
             UnknownThread
     PROVE  UNCHANGED <<page_lock, active, active_calls, stop_requested,
       last_page>>
  BY <1>18 DEF DropAccount, LibDestroy, StartEndpoint, StartFails,
       UnknownThread, sharedVars
<1>19. ASSUME Idle \/ UNCHANGED vars PROVE UNCHANGED <<page_lock, active,
     active_calls, stop_requested, last_page>>
  BY <1>19 DEF Idle, vars, sharedVars
<1> QED
  BY <1>1, <1>2, <1>3, <1>4, <1>5, <1>6, <1>7, <1>8, <1>9, <1>10, <1>11,
       <1>12, <1>13, <1>14, <1>15, <1>16, <1>17, <1>18, <1>19
  DEF Next, PageStep, DialStep, LibraryStep, StopStep, RestartStep

\* The fields of the stops keep their types.
LEMMA StopTypeOKStep ==
    ASSUME SharedTypeOK, StopTypeOK, [Next]_vars
    PROVE  StopTypeOK'
<1>1. UNCHANGED <<spc, target, snapshot>> => StopTypeOK'
  BY DEF SharedTypeOK, PageInfo, StopTypeOK
<1>2. ASSUME NEW j \in Jobs,
             Trigger(j) \/ Acquire(j) \/ Skip(j) \/ Resolve(j) \/ EnterPage(j) \/
             ResetStop(j) \/ SetActive(j) \/ NextDest(j) \/ SpawnDial(j) \/
             LoopEnds(j) \/ Hide(j) \/ ClearStop(j) \/ Release(j)
     PROVE  UNCHANGED <<spc, target, snapshot>>
  BY <1>2 DEF Trigger, Acquire, Skip, Resolve, EnterPage, ResetStop,
       SetActive, NextDest, SpawnDial, LoopEnds, Hide, ClearStop, Release,
       stopVars
<1>3. ASSUME NEW c \in Call,
             RegisterDial(c) \/ Construct(c) \/ ConstructRaises(c) \/
             MakeCall(c) \/ MakeCallFails(c) \/ FreedAccount(c) \/ RegisterCall(c) \/
             WaitReturns(c) \/ ForceHangup(c) \/ UnregisterCall(c)
     PROVE  UNCHANGED <<spc, target, snapshot>>
  BY <1>3 DEF RegisterDial, Construct, ConstructRaises, MakeCall,
       MakeCallFails, FreedAccount, RegisterCall, WaitReturns, ForceHangup,
       UnregisterCall, stopVars
<1>4. ASSUME NEW c \in Call,
             Answer(c) \/ Disconnect(c) \/ MediaActive(c) \/ StartPlayback(c) \/
             Eof(c) \/ LaterHangup(c)
     PROVE  UNCHANGED <<spc, target, snapshot>>
  BY <1>4 DEF Answer, Disconnect, MediaActive, StartPlayback, Eof,
       LaterHangup, stopVars
<1>5. ASSUME NEW s \in Stoppers, PressStop(s) PROVE StopTypeOK'
  BY <1>5 DEF PressStop, Register, stopVars, SharedTypeOK, PageInfo, StopTypeOK
<1>6. ASSUME NEW s \in Stoppers, TakeSnapshot(s) PROVE StopTypeOK'
  BY <1>6 DEF TakeSnapshot, SharedTypeOK, PageInfo, StopTypeOK
<1>7. ASSUME NEW s \in Stoppers, StopHangup(s) PROVE StopTypeOK'
  BY <1>7 DEF StopHangup, HangUp, stopVars, SharedTypeOK, PageInfo, StopTypeOK
<1>8. ASSUME NEW s \in Stoppers, StopReturns(s) PROVE StopTypeOK'
  BY <1>8 DEF StopReturns, stopVars, SharedTypeOK, PageInfo, StopTypeOK
<1>9. ASSUME DropAccount \/ LibDestroy \/ StartEndpoint \/ StartFails \/
             UnknownThread
     PROVE  UNCHANGED <<spc, target, snapshot>>
  BY <1>9 DEF DropAccount, LibDestroy, StartEndpoint, StartFails,
       UnknownThread, stopVars
<1>10. ASSUME Idle \/ UNCHANGED vars PROVE UNCHANGED <<spc, target, snapshot>>
  BY <1>10 DEF Idle, vars, stopVars
<1> QED
  BY <1>1, <1>2, <1>3, <1>4, <1>5, <1>6, <1>7, <1>8, <1>9, <1>10
  DEF Next, PageStep, DialStep, LibraryStep, StopStep, RestartStep

\* The fields of the endpoint keep their types.
LEMMA EngineTypeOKStep ==
    ASSUME EngineTypeOK, [Next]_vars
    PROVE  EngineTypeOK'
<1>1. UNCHANGED <<ep, account, restart, registered, crash>> => EngineTypeOK'
  BY DEF EngineTypeOK
<1>2. ASSUME NEW j \in Jobs, ResetStop(j) PROVE EngineTypeOK'
  BY <1>2 DEF ResetStop, Goto, Register, engineVars, EngineTypeOK
<1>3. ASSUME NEW j \in Jobs,
             Trigger(j) \/ Acquire(j) \/ Skip(j) \/ Resolve(j) \/ EnterPage(j) \/
             SetActive(j) \/ NextDest(j) \/ SpawnDial(j) \/ LoopEnds(j) \/
             Hide(j) \/ ClearStop(j) \/ Release(j)
     PROVE  UNCHANGED <<ep, account, restart, registered, crash>>
  BY <1>3 DEF Trigger, Acquire, Skip, Resolve, EnterPage, SetActive,
       NextDest, SpawnDial, LoopEnds, Hide, ClearStop, Release, engineVars
<1>4. ASSUME NEW c \in Call, RegisterDial(c) PROVE EngineTypeOK'
  BY <1>4 DEF RegisterDial, Register, engineVars, EngineTypeOK
<1>5. ASSUME NEW c \in Call, FreedAccount(c) PROVE EngineTypeOK'
  BY <1>5 DEF FreedAccount, engineVars, EngineTypeOK
<1>6. ASSUME NEW c \in Call,
             Construct(c) \/ ConstructRaises(c) \/ MakeCall(c) \/ MakeCallFails(c) \/
             RegisterCall(c) \/ WaitReturns(c) \/ ForceHangup(c) \/ UnregisterCall(c)
     PROVE  UNCHANGED <<ep, account, restart, registered, crash>>
  BY <1>6 DEF Construct, ConstructRaises, MakeCall, MakeCallFails,
       RegisterCall, WaitReturns, ForceHangup, UnregisterCall, engineVars
<1>7. ASSUME NEW c \in Call, Eof(c) PROVE EngineTypeOK'
  BY <1>7 DEF Eof, Register, engineVars, EngineTypeOK
<1>8. ASSUME NEW c \in Call,
             Answer(c) \/ Disconnect(c) \/ MediaActive(c) \/ StartPlayback(c) \/
             LaterHangup(c)
     PROVE  UNCHANGED <<ep, account, restart, registered, crash>>
  BY <1>8 DEF Answer, Disconnect, MediaActive, StartPlayback, LaterHangup,
       engineVars
<1>9. ASSUME NEW s \in Stoppers, PressStop(s) PROVE EngineTypeOK'
  BY <1>9 DEF PressStop, Register, engineVars, EngineTypeOK
<1>10. ASSUME NEW s \in Stoppers,
             TakeSnapshot(s) \/ StopHangup(s) \/ StopReturns(s)
     PROVE  UNCHANGED <<ep, account, restart, registered, crash>>
  BY <1>10 DEF TakeSnapshot, StopHangup, StopReturns, engineVars
<1>11. ASSUME DropAccount PROVE EngineTypeOK'
  BY <1>11 DEF DropAccount, engineVars, EngineTypeOK
<1>12. ASSUME LibDestroy PROVE EngineTypeOK'
  BY <1>12 DEF LibDestroy, engineVars, EngineTypeOK
<1>13. ASSUME StartEndpoint PROVE EngineTypeOK'
  BY <1>13 DEF StartEndpoint, engineVars, EngineTypeOK
<1>14. ASSUME StartFails PROVE EngineTypeOK'
  BY <1>14 DEF StartFails, engineVars, EngineTypeOK
<1>15. ASSUME UnknownThread PROVE EngineTypeOK'
  BY <1>15 DEF UnknownThread, engineVars, EngineTypeOK
<1>16. ASSUME Idle \/ UNCHANGED vars PROVE UNCHANGED <<ep, account, restart,
     registered, crash>>
  BY <1>16 DEF Idle, vars, engineVars
<1> QED
  BY <1>1, <1>2, <1>3, <1>4, <1>5, <1>6, <1>7, <1>8, <1>9, <1>10, <1>11,
       <1>12, <1>13, <1>14, <1>15, <1>16
  DEF Next, PageStep, DialStep, LibraryStep, StopStep, RestartStep

\* The history variables keep their types.
LEMMA HistoryTypeOKStep ==
    ASSUME StopTypeOK, HistoryTypeOK, [Next]_vars
    PROVE  HistoryTypeOK'
<1>1. UNCHANGED <<pressed, stopped>> => HistoryTypeOK'
  BY DEF StopTypeOK, HistoryTypeOK
<1>2. ASSUME NEW j \in Jobs,
             Trigger(j) \/ Acquire(j) \/ Skip(j) \/ Resolve(j) \/ EnterPage(j) \/
             ResetStop(j) \/ SetActive(j) \/ NextDest(j) \/ SpawnDial(j) \/
             LoopEnds(j) \/ Hide(j) \/ ClearStop(j) \/ Release(j)
     PROVE  UNCHANGED <<pressed, stopped>>
  BY <1>2 DEF Trigger, Acquire, Skip, Resolve, EnterPage, ResetStop,
       SetActive, NextDest, SpawnDial, LoopEnds, Hide, ClearStop, Release,
       historyVars
<1>3. ASSUME NEW c \in Call,
             RegisterDial(c) \/ Construct(c) \/ ConstructRaises(c) \/
             MakeCall(c) \/ MakeCallFails(c) \/ FreedAccount(c) \/ RegisterCall(c) \/
             WaitReturns(c) \/ ForceHangup(c) \/ UnregisterCall(c)
     PROVE  UNCHANGED <<pressed, stopped>>
  BY <1>3 DEF RegisterDial, Construct, ConstructRaises, MakeCall,
       MakeCallFails, FreedAccount, RegisterCall, WaitReturns, ForceHangup,
       UnregisterCall, historyVars
<1>4. ASSUME NEW c \in Call,
             Answer(c) \/ Disconnect(c) \/ MediaActive(c) \/ StartPlayback(c) \/
             Eof(c) \/ LaterHangup(c)
     PROVE  UNCHANGED <<pressed, stopped>>
  BY <1>4 DEF Answer, Disconnect, MediaActive, StartPlayback, Eof,
       LaterHangup, historyVars
<1>5. ASSUME NEW s \in Stoppers, PressStop(s) PROVE HistoryTypeOK'
  BY <1>5 DEF PressStop, Register, historyVars, StopTypeOK, HistoryTypeOK
<1>6. ASSUME NEW s \in Stoppers, StopReturns(s) PROVE HistoryTypeOK'
  BY <1>6 DEF StopReturns, historyVars, StopTypeOK, HistoryTypeOK
<1>7. ASSUME NEW s \in Stoppers,
             TakeSnapshot(s) \/ StopHangup(s)
     PROVE  UNCHANGED <<pressed, stopped>>
  BY <1>7 DEF TakeSnapshot, StopHangup, historyVars
<1>8. ASSUME DropAccount \/ LibDestroy \/ StartEndpoint \/ StartFails \/
             UnknownThread
     PROVE  UNCHANGED <<pressed, stopped>>
  BY <1>8 DEF DropAccount, LibDestroy, StartEndpoint, StartFails,
       UnknownThread, historyVars
<1>9. ASSUME Idle \/ UNCHANGED vars PROVE UNCHANGED <<pressed, stopped>>
  BY <1>9 DEF Idle, vars, historyVars
<1> QED
  BY <1>1, <1>2, <1>3, <1>4, <1>5, <1>6, <1>7, <1>8, <1>9
  DEF Next, PageStep, DialStep, LibraryStep, StopStep, RestartStep

-----------------------------------------------------------------------------
(* Each part of the inductive invariant is preserved by every step.        *)

\* A thread takes the lock only when it is free and gives it up on every way
\* out of _do_page; a call that returns leaves its page thread inside.
LEMMA LockStep ==
    ASSUME PageTypeOK, CallTypeOK, LockInv, DialInv, [Next]_vars
    PROVE  LockInv'
<1>1. UNCHANGED <<pc, page_lock>> => LockInv'
  BY DEF PageTypeOK, CallTypeOK, LockInv, DialInv, Holding, Dialling, Placed,
       Call, JobOf
<1>2. ASSUME NEW j \in Jobs, Trigger(j) PROVE LockInv'
  BY <1>2 DEF Trigger, Goto, sharedVars, PageTypeOK, CallTypeOK, LockInv,
       DialInv, Holding, Dialling, Placed, Call, JobOf
<1>3. ASSUME NEW j \in Jobs, Acquire(j) PROVE LockInv'
  BY <1>3, PagingAssumption DEF Acquire, Goto, PageTypeOK, CallTypeOK,
       LockInv, DialInv, Holding, Dialling, Placed, Call, JobOf
<1>4. ASSUME NEW j \in Jobs, Skip(j) PROVE LockInv'
  BY <1>4, PagingAssumption DEF Skip, Goto, PageTypeOK, CallTypeOK, LockInv,
       DialInv, Holding, Dialling, Placed, Call, JobOf
<1>5. ASSUME NEW j \in Jobs, Resolve(j) PROVE LockInv'
  BY <1>5 DEF Resolve, Goto, sharedVars, PageTypeOK, CallTypeOK, LockInv,
       DialInv, Holding, Dialling, Placed, Call, JobOf
<1>6. ASSUME NEW j \in Jobs, EnterPage(j) PROVE LockInv'
  BY <1>6 DEF EnterPage, Goto, sharedVars, PageTypeOK, CallTypeOK, LockInv,
       DialInv, Holding, Dialling, Placed, Call, JobOf
<1>7. ASSUME NEW j \in Jobs, ResetStop(j) PROVE LockInv'
  BY <1>7 DEF ResetStop, Goto, Register, sharedVars, PageTypeOK, CallTypeOK,
       LockInv, DialInv, Holding, Dialling, Placed, Call, JobOf
<1>8. ASSUME NEW j \in Jobs, SetActive(j) PROVE LockInv'
  BY <1>8 DEF SetActive, Goto, NoPage, sharedVars, PageTypeOK, CallTypeOK,
       LockInv, DialInv, Holding, Dialling, Placed, Call, JobOf
<1>9. ASSUME NEW j \in Jobs, NextDest(j) PROVE LockInv'
  BY <1>9 DEF NextDest, Goto, sharedVars, PageTypeOK, CallTypeOK, LockInv,
       DialInv, Holding, Dialling, Placed, Call, JobOf
<1>10. ASSUME NEW j \in Jobs, LoopEnds(j) PROVE LockInv'
  BY <1>10 DEF LoopEnds, Goto, sharedVars, PageTypeOK, CallTypeOK, LockInv,
       DialInv, Holding, Dialling, Placed, Call, JobOf
<1>11. ASSUME NEW j \in Jobs, Hide(j) PROVE LockInv'
  BY <1>11 DEF Hide, Goto, NoPage, sharedVars, PageTypeOK, CallTypeOK,
       LockInv, DialInv, Holding, Dialling, Placed, Call, JobOf
<1>12. ASSUME NEW j \in Jobs, ClearStop(j) PROVE LockInv'
  BY <1>12 DEF ClearStop, Goto, sharedVars, PageTypeOK, CallTypeOK, LockInv,
       DialInv, Holding, Dialling, Placed, Call, JobOf
<1>13. ASSUME NEW j \in Jobs, Release(j) PROVE LockInv'
  BY <1>13, PagingAssumption DEF Release, Goto, PageTypeOK, CallTypeOK,
       LockInv, DialInv, Holding, Dialling, Placed, Call, JobOf
<1>14. ASSUME NEW j \in Jobs,
             SpawnDial(j)
     PROVE  UNCHANGED <<pc, page_lock>>
  BY <1>14 DEF SpawnDial, pageVars, sharedVars
<1>15. ASSUME NEW c \in Call, ConstructRaises(c) PROVE LockInv'
  BY <1>15 DEF ConstructRaises, sharedVars, PageTypeOK, CallTypeOK, LockInv,
       DialInv, Holding, Dialling, Placed, Call, JobOf
<1>16. ASSUME NEW c \in Call, MakeCallFails(c) PROVE LockInv'
  BY <1>16 DEF MakeCallFails, Resume, sharedVars, PageTypeOK, CallTypeOK,
       LockInv, DialInv, Holding, Dialling, Placed, Call, JobOf
<1>17. ASSUME NEW c \in Call, UnregisterCall(c) PROVE LockInv'
  BY <1>17 DEF UnregisterCall, Resume, sharedVars, PageTypeOK, CallTypeOK,
       LockInv, DialInv, Holding, Dialling, Placed, Call, JobOf
<1>18. ASSUME NEW c \in Call,
             RegisterDial(c) \/ Construct(c) \/ MakeCall(c) \/ FreedAccount(c) \/
             RegisterCall(c) \/ WaitReturns(c) \/ ForceHangup(c)
     PROVE  UNCHANGED <<pc, page_lock>>
  BY <1>18 DEF RegisterDial, Construct, MakeCall, FreedAccount, RegisterCall,
       WaitReturns, ForceHangup, pageVars, sharedVars
<1>19. ASSUME NEW c \in Call,
             Answer(c) \/ Disconnect(c) \/ MediaActive(c) \/ StartPlayback(c) \/
             Eof(c) \/ LaterHangup(c)
     PROVE  UNCHANGED <<pc, page_lock>>
  BY <1>19 DEF Answer, Disconnect, MediaActive, StartPlayback, Eof,
       LaterHangup, pageVars, sharedVars
<1>20. ASSUME NEW s \in Stoppers,
             PressStop(s) \/ TakeSnapshot(s) \/ StopHangup(s) \/ StopReturns(s)
     PROVE  UNCHANGED <<pc, page_lock>>
  BY <1>20 DEF PressStop, TakeSnapshot, StopHangup, StopReturns, pageVars,
       sharedVars
<1>21. ASSUME DropAccount \/ LibDestroy \/ StartEndpoint \/ StartFails \/
             UnknownThread
     PROVE  UNCHANGED <<pc, page_lock>>
  BY <1>21 DEF DropAccount, LibDestroy, StartEndpoint, StartFails,
       UnknownThread, pageVars, sharedVars
<1>22. ASSUME Idle \/ UNCHANGED vars PROVE UNCHANGED <<pc, page_lock>>
  BY <1>22 DEF Idle, vars, pageVars, sharedVars
<1> QED
  BY <1>1, <1>2, <1>3, <1>4, <1>5, <1>6, <1>7, <1>8, <1>9, <1>10, <1>11,
       <1>12, <1>13, <1>14, <1>15, <1>16, <1>17, <1>18, <1>19, <1>20, <1>21,
       <1>22
  DEF Next, PageStep, DialStep, LibraryStep, StopStep, RestartStep

\* Calls are dialled from inside the loop of their page only: the sequential
\* loop waits for its call, the parallel loop joins its threads.
LEMMA DialInvStep ==
    ASSUME PageTypeOK, CallTypeOK, DialInv, FreshInv, [Next]_vars
    PROVE  DialInv'
<1>1. UNCHANGED <<pc, mode, dial>> => DialInv'
  BY DEF PageTypeOK, CallTypeOK, DialInv, FreshInv, Dialling, Placed, Call,
       JobOf
<1>2. ASSUME NEW j \in Jobs, Trigger(j) PROVE DialInv'
  BY <1>2 DEF Trigger, Goto, pageVars, callVars, PageTypeOK, CallTypeOK,
       DialInv, FreshInv, Dialling, Placed, Call, JobOf
<1>3. ASSUME NEW j \in Jobs, Acquire(j) PROVE DialInv'
  BY <1>3 DEF Acquire, Goto, pageVars, callVars, PageTypeOK, CallTypeOK,
       DialInv, FreshInv, Dialling, Placed, Call, JobOf
<1>4. ASSUME NEW j \in Jobs, Skip(j) PROVE DialInv'
  BY <1>4 DEF Skip, Goto, pageVars, callVars, PageTypeOK, CallTypeOK,
       DialInv, FreshInv, Dialling, Placed, Call, JobOf
<1>5. ASSUME NEW j \in Jobs, Resolve(j) PROVE DialInv'
  BY <1>5 DEF Resolve, Goto, callVars, PageTypeOK, CallTypeOK, DialInv,
       FreshInv, Dialling, Placed, Call, JobOf
<1>6. ASSUME NEW j \in Jobs, EnterPage(j) PROVE DialInv'
  BY <1>6 DEF EnterPage, Goto, pageVars, callVars, PageTypeOK, CallTypeOK,
       DialInv, FreshInv, Dialling, Placed, Call, JobOf
<1>7. ASSUME NEW j \in Jobs, ResetStop(j) PROVE DialInv'
  BY <1>7 DEF ResetStop, Goto, Register, pageVars, callVars, PageTypeOK,
       CallTypeOK, DialInv, FreshInv, Dialling, Placed, Call, JobOf
<1>8. ASSUME NEW j \in Jobs, SetActive(j) PROVE DialInv'
  BY <1>8 DEF SetActive, Goto, NoPage, pageVars, callVars, PageTypeOK,
       CallTypeOK, DialInv, FreshInv, Dialling, Placed, Call, JobOf
<1>9. ASSUME NEW j \in Jobs, NextDest(j) PROVE DialInv'
  BY <1>9 DEF NextDest, Goto, pageVars, PageTypeOK, CallTypeOK, DialInv,
       FreshInv, Dialling, Placed, Call, JobOf
<1>10. ASSUME NEW j \in Jobs, SpawnDial(j) PROVE DialInv'
  BY <1>10 DEF SpawnDial, pageVars, PageTypeOK, CallTypeOK, DialInv,
       FreshInv, Dialling, Placed, Call, JobOf
<1>11. ASSUME NEW j \in Jobs, LoopEnds(j) PROVE DialInv'
  BY <1>11 DEF LoopEnds, Goto, pageVars, callVars, PageTypeOK, CallTypeOK,
       DialInv, FreshInv, Dialling, Placed, Call, JobOf
<1>12. ASSUME NEW j \in Jobs, Hide(j) PROVE DialInv'
  BY <1>12 DEF Hide, Goto, NoPage, pageVars, callVars, PageTypeOK,
       CallTypeOK, DialInv, FreshInv, Dialling, Placed, Call, JobOf
<1>13. ASSUME NEW j \in Jobs, ClearStop(j) PROVE DialInv'
  BY <1>13 DEF ClearStop, Goto, pageVars, callVars, PageTypeOK, CallTypeOK,
       DialInv, FreshInv, Dialling, Placed, Call, JobOf
<1>14. ASSUME NEW j \in Jobs, Release(j) PROVE DialInv'
  BY <1>14 DEF Release, Goto, pageVars, callVars, PageTypeOK, CallTypeOK,
       DialInv, FreshInv, Dialling, Placed, Call, JobOf
<1>15. ASSUME NEW c \in Call, RegisterDial(c) PROVE DialInv'
  BY <1>15 DEF RegisterDial, Register, pageVars, PageTypeOK, CallTypeOK,
       DialInv, FreshInv, Dialling, Placed, Call, JobOf
<1>16. ASSUME NEW c \in Call, Construct(c) PROVE DialInv'
  BY <1>16 DEF Construct, pageVars, PageTypeOK, CallTypeOK, DialInv,
       FreshInv, Dialling, Placed, Call, JobOf
<1>17. ASSUME NEW c \in Call, ConstructRaises(c) PROVE DialInv'
  BY <1>17 DEF ConstructRaises, pageVars, PageTypeOK, CallTypeOK, DialInv,
       FreshInv, Dialling, Placed, Call, JobOf
<1>18. ASSUME NEW c \in Call, MakeCall(c) PROVE DialInv'
  BY <1>18 DEF MakeCall, pageVars, PageTypeOK, CallTypeOK, DialInv, FreshInv,
       Dialling, Placed, Call, JobOf
<1>19. ASSUME NEW c \in Call, MakeCallFails(c) PROVE DialInv'
  BY <1>19 DEF MakeCallFails, Resume, pageVars, PageTypeOK, CallTypeOK,
       DialInv, FreshInv, Dialling, Placed, Call, JobOf
<1>20. ASSUME NEW c \in Call, RegisterCall(c) PROVE DialInv'
  BY <1>20 DEF RegisterCall, pageVars, PageTypeOK, CallTypeOK, DialInv,
       FreshInv, Dialling, Placed, Call, JobOf
<1>21. ASSUME NEW c \in Call, WaitReturns(c) PROVE DialInv'
  BY <1>21 DEF WaitReturns, pageVars, PageTypeOK, CallTypeOK, DialInv,
       FreshInv, Dialling, Placed, Call, JobOf
<1>22. ASSUME NEW c \in Call, ForceHangup(c) PROVE DialInv'
  BY <1>22 DEF ForceHangup, HangUp, pageVars, PageTypeOK, CallTypeOK,
       DialInv, FreshInv, Dialling, Placed, Call, JobOf
<1>23. ASSUME NEW c \in Call, UnregisterCall(c) PROVE DialInv'
  BY <1>23 DEF UnregisterCall, Resume, pageVars, PageTypeOK, CallTypeOK,
       DialInv, FreshInv, Dialling, Placed, Call, JobOf
<1>24. ASSUME NEW c \in Call,
             FreedAccount(c)
     PROVE  UNCHANGED <<pc, mode, dial>>
  BY <1>24 DEF FreedAccount, pageVars, callVars
<1>25. ASSUME NEW c \in Call,
             Answer(c) \/ Disconnect(c) \/ MediaActive(c) \/ StartPlayback(c) \/
             Eof(c) \/ LaterHangup(c)
     PROVE  UNCHANGED <<pc, mode, dial>>
  BY <1>25 DEF Answer, Disconnect, MediaActive, StartPlayback, Eof,
       LaterHangup, pageVars, callVars
<1>26. ASSUME NEW s \in Stoppers,
             PressStop(s) \/ TakeSnapshot(s) \/ StopHangup(s) \/ StopReturns(s)
     PROVE  UNCHANGED <<pc, mode, dial>>
  BY <1>26 DEF PressStop, TakeSnapshot, StopHangup, StopReturns, pageVars,
       callVars
<1>27. ASSUME DropAccount PROVE DialInv'
  BY <1>27 DEF DropAccount, pageVars, PageTypeOK, CallTypeOK, DialInv,
       FreshInv, Dialling, Placed, Call, JobOf
<1>28. ASSUME LibDestroy \/ StartEndpoint \/ StartFails \/ UnknownThread
     PROVE  UNCHANGED <<pc, mode, dial>>
  BY <1>28 DEF LibDestroy, StartEndpoint, StartFails, UnknownThread,
       pageVars, callVars
<1>29. ASSUME Idle \/ UNCHANGED vars PROVE UNCHANGED <<pc, mode, dial>>
  BY <1>29 DEF Idle, vars, pageVars, callVars
<1> QED
  BY <1>1, <1>2, <1>3, <1>4, <1>5, <1>6, <1>7, <1>8, <1>9, <1>10, <1>11,
       <1>12, <1>13, <1>14, <1>15, <1>16, <1>17, <1>18, <1>19, <1>20, <1>21,
       <1>22, <1>23, <1>24, <1>25, <1>26, <1>27, <1>28, <1>29
  DEF Next, PageStep, DialStep, LibraryStep, StopStep, RestartStep

\* A destination still to be dialled has no call yet.
LEMMA FreshStep ==
    ASSUME PageTypeOK, CallTypeOK, DialInv, FreshInv, [Next]_vars
    PROVE  FreshInv'
<1>1. UNCHANGED <<pc, todo, dial, sip>> => FreshInv'
  BY DEF PageTypeOK, CallTypeOK, DialInv, FreshInv, Dialling, Placed, Live,
       Up, Call, JobOf
<1>2. ASSUME NEW j \in Jobs, Trigger(j) PROVE FreshInv'
  BY <1>2 DEF Trigger, Goto, pageVars, callVars, PageTypeOK, CallTypeOK,
       DialInv, FreshInv, Dialling, Placed, Live, Up, Call, JobOf
<1>3. ASSUME NEW j \in Jobs, Acquire(j) PROVE FreshInv'
  BY <1>3 DEF Acquire, Goto, pageVars, callVars, PageTypeOK, CallTypeOK,
       DialInv, FreshInv, Dialling, Placed, Live, Up, Call, JobOf
<1>4. ASSUME NEW j \in Jobs, Skip(j) PROVE FreshInv'
  BY <1>4 DEF Skip, Goto, pageVars, callVars, PageTypeOK, CallTypeOK,
       DialInv, FreshInv, Dialling, Placed, Live, Up, Call, JobOf
<1>5. ASSUME NEW j \in Jobs, Resolve(j) PROVE FreshInv'
  BY <1>5 DEF Resolve, Goto, callVars, PageTypeOK, CallTypeOK, DialInv,
       FreshInv, Dialling, Placed, Live, Up, Call, JobOf
<1>6. ASSUME NEW j \in Jobs, EnterPage(j) PROVE FreshInv'
  BY <1>6 DEF EnterPage, Goto, pageVars, callVars, PageTypeOK, CallTypeOK,
       DialInv, FreshInv, Dialling, Placed, Live, Up, Call, JobOf
<1>7. ASSUME NEW j \in Jobs, ResetStop(j) PROVE FreshInv'
  BY <1>7 DEF ResetStop, Goto, Register, pageVars, callVars, PageTypeOK,
       CallTypeOK, DialInv, FreshInv, Dialling, Placed, Live, Up, Call, JobOf
<1>8. ASSUME NEW j \in Jobs, SetActive(j) PROVE FreshInv'
  BY <1>8 DEF SetActive, Goto, NoPage, pageVars, callVars, PageTypeOK,
       CallTypeOK, DialInv, FreshInv, Dialling, Placed, Live, Up, Call, JobOf
<1>9. ASSUME NEW j \in Jobs, NextDest(j) PROVE FreshInv'
  BY <1>9 DEF NextDest, Goto, callVars, PageTypeOK, CallTypeOK, DialInv,
       FreshInv, Dialling, Placed, Live, Up, Call, JobOf
<1>10. ASSUME NEW j \in Jobs, SpawnDial(j) PROVE FreshInv'
  BY <1>10 DEF SpawnDial, pageVars, callVars, PageTypeOK, CallTypeOK,
       DialInv, FreshInv, Dialling, Placed, Live, Up, Call, JobOf
<1>11. ASSUME NEW j \in Jobs, LoopEnds(j) PROVE FreshInv'
  BY <1>11 DEF LoopEnds, Goto, pageVars, callVars, PageTypeOK, CallTypeOK,
       DialInv, FreshInv, Dialling, Placed, Live, Up, Call, JobOf
<1>12. ASSUME NEW j \in Jobs, Hide(j) PROVE FreshInv'
  BY <1>12 DEF Hide, Goto, NoPage, pageVars, callVars, PageTypeOK,
       CallTypeOK, DialInv, FreshInv, Dialling, Placed, Live, Up, Call, JobOf
<1>13. ASSUME NEW j \in Jobs, ClearStop(j) PROVE FreshInv'
  BY <1>13 DEF ClearStop, Goto, pageVars, callVars, PageTypeOK, CallTypeOK,
       DialInv, FreshInv, Dialling, Placed, Live, Up, Call, JobOf
<1>14. ASSUME NEW j \in Jobs, Release(j) PROVE FreshInv'
  BY <1>14 DEF Release, Goto, pageVars, callVars, PageTypeOK, CallTypeOK,
       DialInv, FreshInv, Dialling, Placed, Live, Up, Call, JobOf
<1>15. ASSUME NEW c \in Call, RegisterDial(c) PROVE FreshInv'
  BY <1>15 DEF RegisterDial, Register, pageVars, callVars, PageTypeOK,
       CallTypeOK, DialInv, FreshInv, Dialling, Placed, Live, Up, Call, JobOf
<1>16. ASSUME NEW c \in Call, Construct(c) PROVE FreshInv'
  BY <1>16 DEF Construct, pageVars, callVars, PageTypeOK, CallTypeOK,
       DialInv, FreshInv, Dialling, Placed, Live, Up, Call, JobOf
<1>17. ASSUME NEW c \in Call, ConstructRaises(c) PROVE FreshInv'
  BY <1>17 DEF ConstructRaises, pageVars, callVars, PageTypeOK, CallTypeOK,
       DialInv, FreshInv, Dialling, Placed, Live, Up, Call, JobOf
<1>18. ASSUME NEW c \in Call, MakeCall(c) PROVE FreshInv'
  BY <1>18 DEF MakeCall, pageVars, PageTypeOK, CallTypeOK, DialInv, FreshInv,
       Dialling, Placed, Live, Up, Call, JobOf
<1>19. ASSUME NEW c \in Call, MakeCallFails(c) PROVE FreshInv'
  BY <1>19 DEF MakeCallFails, Resume, pageVars, callVars, PageTypeOK,
       CallTypeOK, DialInv, FreshInv, Dialling, Placed, Live, Up, Call, JobOf
<1>20. ASSUME NEW c \in Call, RegisterCall(c) PROVE FreshInv'
  BY <1>20 DEF RegisterCall, pageVars, callVars, PageTypeOK, CallTypeOK,
       DialInv, FreshInv, Dialling, Placed, Live, Up, Call, JobOf
<1>21. ASSUME NEW c \in Call, WaitReturns(c) PROVE FreshInv'
  BY <1>21 DEF WaitReturns, pageVars, callVars, PageTypeOK, CallTypeOK,
       DialInv, FreshInv, Dialling, Placed, Live, Up, Call, JobOf
<1>22. ASSUME NEW c \in Call, ForceHangup(c) PROVE FreshInv'
  BY <1>22 DEF ForceHangup, HangUp, pageVars, PageTypeOK, CallTypeOK,
       DialInv, FreshInv, Dialling, Placed, Live, Up, Call, JobOf
<1>23. ASSUME NEW c \in Call, UnregisterCall(c) PROVE FreshInv'
  BY <1>23 DEF UnregisterCall, Resume, pageVars, callVars, PageTypeOK,
       CallTypeOK, DialInv, FreshInv, Dialling, Placed, Live, Up, Call, JobOf
<1>24. ASSUME NEW c \in Call,
             FreedAccount(c)
     PROVE  UNCHANGED <<pc, todo, dial, sip>>
  BY <1>24 DEF FreedAccount, pageVars, callVars
<1>25. ASSUME NEW c \in Call, Answer(c) PROVE FreshInv'
  BY <1>25 DEF Answer, pageVars, callVars, PageTypeOK, CallTypeOK, DialInv,
       FreshInv, Dialling, Placed, Live, Up, Call, JobOf
<1>26. ASSUME NEW c \in Call, Disconnect(c) PROVE FreshInv'
  BY <1>26 DEF Disconnect, pageVars, callVars, PageTypeOK, CallTypeOK,
       DialInv, FreshInv, Dialling, Placed, Live, Up, Call, JobOf
<1>27. ASSUME NEW c \in Call, StartPlayback(c) PROVE FreshInv'
  BY <1>27 DEF StartPlayback, HangUp, pageVars, callVars, PageTypeOK,
       CallTypeOK, DialInv, FreshInv, Dialling, Placed, Live, Up, Call, JobOf
<1>28. ASSUME NEW c \in Call, LaterHangup(c) PROVE FreshInv'
  BY <1>28 DEF LaterHangup, HangUp, pageVars, callVars, PageTypeOK,
       CallTypeOK, DialInv, FreshInv, Dialling, Placed, Live, Up, Call, JobOf
<1>29. ASSUME NEW c \in Call,
             MediaActive(c) \/ Eof(c)
     PROVE  UNCHANGED <<pc, todo, dial, sip>>
  BY <1>29 DEF MediaActive, Eof, pageVars, callVars
<1>30. ASSUME NEW s \in Stoppers, StopHangup(s) PROVE FreshInv'
  BY <1>30 DEF StopHangup, HangUp, pageVars, callVars, PageTypeOK,
       CallTypeOK, DialInv, FreshInv, Dialling, Placed, Live, Up, Call, JobOf
<1>31. ASSUME NEW s \in Stoppers,
             PressStop(s) \/ TakeSnapshot(s) \/ StopReturns(s)
     PROVE  UNCHANGED <<pc, todo, dial, sip>>
  BY <1>31 DEF PressStop, TakeSnapshot, StopReturns, pageVars, callVars
<1>32. ASSUME DropAccount PROVE FreshInv'
  BY <1>32 DEF DropAccount, pageVars, callVars, PageTypeOK, CallTypeOK,
       DialInv, FreshInv, Dialling, Placed, Live, Up, Call, JobOf
<1>33. ASSUME LibDestroy PROVE FreshInv'
  BY <1>33 DEF LibDestroy, pageVars, callVars, PageTypeOK, CallTypeOK,
       DialInv, FreshInv, Dialling, Placed, Live, Up, Call, JobOf
<1>34. ASSUME StartEndpoint \/ StartFails \/ UnknownThread
     PROVE  UNCHANGED <<pc, todo, dial, sip>>
  BY <1>34 DEF StartEndpoint, StartFails, UnknownThread, pageVars, callVars
<1>35. ASSUME Idle \/ UNCHANGED vars PROVE UNCHANGED <<pc, todo, dial, sip>>
  BY <1>35 DEF Idle, vars, pageVars, callVars
<1> QED
  BY <1>1, <1>2, <1>3, <1>4, <1>5, <1>6, <1>7, <1>8, <1>9, <1>10, <1>11,
       <1>12, <1>13, <1>14, <1>15, <1>16, <1>17, <1>18, <1>19, <1>20, <1>21,
       <1>22, <1>23, <1>24, <1>25, <1>26, <1>27, <1>28, <1>29, <1>30, <1>31,
       <1>32, <1>33, <1>34, <1>35
  DEF Next, PageStep, DialStep, LibraryStep, StopStep, RestartStep

\* The page shown is the one whose thread is between its two calls of
\* _set_active.
LEMMA ShownStep ==
    ASSUME PageTypeOK, CallTypeOK, SharedTypeOK, LockInv, DialInv, ShownInv,
      [Next]_vars
    PROVE  ShownInv'
<1>1. UNCHANGED <<pc, active>> => ShownInv'
  BY DEF PageTypeOK, CallTypeOK, SharedTypeOK, PageInfo, LockInv, DialInv,
       ShownInv, Holding, Dialling, Placed, NoPage, Call, JobOf
<1>2. ASSUME NEW j \in Jobs, Trigger(j) PROVE ShownInv'
  BY <1>2 DEF Trigger, Goto, sharedVars, PageTypeOK, CallTypeOK,
       SharedTypeOK, PageInfo, LockInv, DialInv, ShownInv, Holding, Dialling,
       Placed, NoPage, Call, JobOf
<1>3. ASSUME NEW j \in Jobs, Acquire(j) PROVE ShownInv'
  BY <1>3 DEF Acquire, Goto, sharedVars, PageTypeOK, CallTypeOK,
       SharedTypeOK, PageInfo, LockInv, DialInv, ShownInv, Holding, Dialling,
       Placed, NoPage, Call, JobOf
<1>4. ASSUME NEW j \in Jobs, Skip(j) PROVE ShownInv'
  BY <1>4 DEF Skip, Goto, sharedVars, PageTypeOK, CallTypeOK, SharedTypeOK,
       PageInfo, LockInv, DialInv, ShownInv, Holding, Dialling, Placed,
       NoPage, Call, JobOf
<1>5. ASSUME NEW j \in Jobs, Resolve(j) PROVE ShownInv'
  BY <1>5 DEF Resolve, Goto, sharedVars, PageTypeOK, CallTypeOK,
       SharedTypeOK, PageInfo, LockInv, DialInv, ShownInv, Holding, Dialling,
       Placed, NoPage, Call, JobOf
<1>6. ASSUME NEW j \in Jobs, EnterPage(j) PROVE ShownInv'
  BY <1>6 DEF EnterPage, Goto, sharedVars, PageTypeOK, CallTypeOK,
       SharedTypeOK, PageInfo, LockInv, DialInv, ShownInv, Holding, Dialling,
       Placed, NoPage, Call, JobOf
<1>7. ASSUME NEW j \in Jobs, ResetStop(j) PROVE ShownInv'
  BY <1>7 DEF ResetStop, Goto, Register, sharedVars, PageTypeOK, CallTypeOK,
       SharedTypeOK, PageInfo, LockInv, DialInv, ShownInv, Holding, Dialling,
       Placed, NoPage, Call, JobOf
<1>8. ASSUME NEW j \in Jobs, SetActive(j) PROVE ShownInv'
  BY <1>8 DEF SetActive, Goto, PageTypeOK, CallTypeOK, SharedTypeOK,
       PageInfo, LockInv, DialInv, ShownInv, Holding, Dialling, Placed,
       NoPage, Call, JobOf
<1>9. ASSUME NEW j \in Jobs, NextDest(j) PROVE ShownInv'
  BY <1>9 DEF NextDest, Goto, sharedVars, PageTypeOK, CallTypeOK,
       SharedTypeOK, PageInfo, LockInv, DialInv, ShownInv, Holding, Dialling,
       Placed, NoPage, Call, JobOf
<1>10. ASSUME NEW j \in Jobs, LoopEnds(j) PROVE ShownInv'
  BY <1>10 DEF LoopEnds, Goto, sharedVars, PageTypeOK, CallTypeOK,
       SharedTypeOK, PageInfo, LockInv, DialInv, ShownInv, Holding, Dialling,
       Placed, NoPage, Call, JobOf
<1>11. ASSUME NEW j \in Jobs, Hide(j) PROVE ShownInv'
  BY <1>11, PagingAssumption DEF Hide, Goto, PageTypeOK, CallTypeOK,
       SharedTypeOK, PageInfo, LockInv, DialInv, ShownInv, Holding, Dialling,
       Placed, NoPage, Call, JobOf
<1>12. ASSUME NEW j \in Jobs, ClearStop(j) PROVE ShownInv'
  BY <1>12 DEF ClearStop, Goto, sharedVars, PageTypeOK, CallTypeOK,
       SharedTypeOK, PageInfo, LockInv, DialInv, ShownInv, Holding, Dialling,
       Placed, NoPage, Call, JobOf
<1>13. ASSUME NEW j \in Jobs, Release(j) PROVE ShownInv'
  BY <1>13 DEF Release, Goto, sharedVars, PageTypeOK, CallTypeOK,
       SharedTypeOK, PageInfo, LockInv, DialInv, ShownInv, Holding, Dialling,
       Placed, NoPage, Call, JobOf
<1>14. ASSUME NEW j \in Jobs,
             SpawnDial(j)
     PROVE  UNCHANGED <<pc, active>>
  BY <1>14 DEF SpawnDial, pageVars, sharedVars
<1>15. ASSUME NEW c \in Call, ConstructRaises(c) PROVE ShownInv'
  BY <1>15 DEF ConstructRaises, sharedVars, PageTypeOK, CallTypeOK,
       SharedTypeOK, PageInfo, LockInv, DialInv, ShownInv, Holding, Dialling,
       Placed, NoPage, Call, JobOf
<1>16. ASSUME NEW c \in Call, MakeCallFails(c) PROVE ShownInv'
  BY <1>16 DEF MakeCallFails, Resume, sharedVars, PageTypeOK, CallTypeOK,
       SharedTypeOK, PageInfo, LockInv, DialInv, ShownInv, Holding, Dialling,
       Placed, NoPage, Call, JobOf
<1>17. ASSUME NEW c \in Call, UnregisterCall(c) PROVE ShownInv'
  BY <1>17 DEF UnregisterCall, Resume, sharedVars, PageTypeOK, CallTypeOK,
       SharedTypeOK, PageInfo, LockInv, DialInv, ShownInv, Holding, Dialling,
       Placed, NoPage, Call, JobOf
<1>18. ASSUME NEW c \in Call,
             RegisterDial(c) \/ Construct(c) \/ MakeCall(c) \/ FreedAccount(c) \/
             RegisterCall(c) \/ WaitReturns(c) \/ ForceHangup(c)
     PROVE  UNCHANGED <<pc, active>>
  BY <1>18 DEF RegisterDial, Construct, MakeCall, FreedAccount, RegisterCall,
       WaitReturns, ForceHangup, pageVars, sharedVars
<1>19. ASSUME NEW c \in Call, Answer(c) PROVE ShownInv'
  BY <1>19, PagingAssumption DEF Answer, pageVars, PageTypeOK, CallTypeOK,
       SharedTypeOK, PageInfo, LockInv, DialInv, ShownInv, Holding, Dialling,
       Placed, NoPage, Call, JobOf
<1>20. ASSUME NEW c \in Call,
             Disconnect(c) \/ MediaActive(c) \/ StartPlayback(c) \/ Eof(c) \/
             LaterHangup(c)
     PROVE  UNCHANGED <<pc, active>>
  BY <1>20 DEF Disconnect, MediaActive, StartPlayback, Eof, LaterHangup,
       pageVars, sharedVars
<1>21. ASSUME NEW s \in Stoppers, TakeSnapshot(s) PROVE ShownInv'
  BY <1>21, PagingAssumption DEF TakeSnapshot, pageVars, PageTypeOK,
       CallTypeOK, SharedTypeOK, PageInfo, LockInv, DialInv, ShownInv,
       Holding, Dialling, Placed, NoPage, Call, JobOf
<1>22. ASSUME NEW s \in Stoppers,
             PressStop(s) \/ StopHangup(s) \/ StopReturns(s)
     PROVE  UNCHANGED <<pc, active>>
  BY <1>22 DEF PressStop, StopHangup, StopReturns, pageVars, sharedVars
<1>23. ASSUME DropAccount \/ LibDestroy \/ StartEndpoint \/ StartFails \/
             UnknownThread
     PROVE  UNCHANGED <<pc, active>>
  BY <1>23 DEF DropAccount, LibDestroy, StartEndpoint, StartFails,
       UnknownThread, pageVars, sharedVars
<1>24. ASSUME Idle \/ UNCHANGED vars PROVE UNCHANGED <<pc, active>>
  BY <1>24 DEF Idle, vars, pageVars, sharedVars
<1> QED
  BY <1>1, <1>2, <1>3, <1>4, <1>5, <1>6, <1>7, <1>8, <1>9, <1>10, <1>11,
       <1>12, <1>13, <1>14, <1>15, <1>16, <1>17, <1>18, <1>19, <1>20, <1>21,
       <1>22, <1>23, <1>24
  DEF Next, PageStep, DialStep, LibraryStep, StopStep, RestartStep

\* Only calls that _dial_one still waits for or is about to drop are listed.
LEMMA ListStep ==
    ASSUME CallTypeOK, SharedTypeOK, FreshInv, ListInv, [Next]_vars
    PROVE  ListInv'
<1>1. UNCHANGED <<dial, active_calls>> => ListInv'
  BY DEF CallTypeOK, SharedTypeOK, FreshInv, ListInv, Dialling, Placed, Call,
       JobOf
<1>2. ASSUME NEW j \in Jobs, NextDest(j) PROVE ListInv'
  BY <1>2 DEF NextDest, Goto, sharedVars, CallTypeOK, SharedTypeOK, FreshInv,
       ListInv, Dialling, Placed, Call, JobOf
<1>3. ASSUME NEW j \in Jobs, SpawnDial(j) PROVE ListInv'
  BY <1>3 DEF SpawnDial, sharedVars, CallTypeOK, SharedTypeOK, FreshInv,
       ListInv, Dialling, Placed, Call, JobOf
<1>4. ASSUME NEW j \in Jobs,
             Trigger(j) \/ Acquire(j) \/ Skip(j) \/ Resolve(j) \/ EnterPage(j) \/
             ResetStop(j) \/ SetActive(j) \/ LoopEnds(j) \/ Hide(j) \/
             ClearStop(j) \/ Release(j)
     PROVE  UNCHANGED <<dial, active_calls>>
  BY <1>4 DEF Trigger, Acquire, Skip, Resolve, EnterPage, ResetStop,
       SetActive, LoopEnds, Hide, ClearStop, Release, callVars, sharedVars
<1>5. ASSUME NEW c \in Call, RegisterDial(c) PROVE ListInv'
  BY <1>5 DEF RegisterDial, Register, sharedVars, CallTypeOK, SharedTypeOK,
       FreshInv, ListInv, Dialling, Placed, Call, JobOf
<1>6. ASSUME NEW c \in Call, Construct(c) PROVE ListInv'
  BY <1>6 DEF Construct, sharedVars, CallTypeOK, SharedTypeOK, FreshInv,
       ListInv, Dialling, Placed, Call, JobOf
<1>7. ASSUME NEW c \in Call, ConstructRaises(c) PROVE ListInv'
  BY <1>7 DEF ConstructRaises, sharedVars, CallTypeOK, SharedTypeOK,
       FreshInv, ListInv, Dialling, Placed, Call, JobOf
<1>8. ASSUME NEW c \in Call, MakeCall(c) PROVE ListInv'
  BY <1>8 DEF MakeCall, sharedVars, CallTypeOK, SharedTypeOK, FreshInv,
       ListInv, Dialling, Placed, Call, JobOf
<1>9. ASSUME NEW c \in Call, MakeCallFails(c) PROVE ListInv'
  BY <1>9 DEF MakeCallFails, Resume, sharedVars, CallTypeOK, SharedTypeOK,
       FreshInv, ListInv, Dialling, Placed, Call, JobOf
<1>10. ASSUME NEW c \in Call, RegisterCall(c) PROVE ListInv'
  BY <1>10 DEF RegisterCall, CallTypeOK, SharedTypeOK, FreshInv, ListInv,
       Dialling, Placed, Call, JobOf
<1>11. ASSUME NEW c \in Call, WaitReturns(c) PROVE ListInv'
  BY <1>11 DEF WaitReturns, sharedVars, CallTypeOK, SharedTypeOK, FreshInv,
       ListInv, Dialling, Placed, Call, JobOf
<1>12. ASSUME NEW c \in Call, ForceHangup(c) PROVE ListInv'
  BY <1>12 DEF ForceHangup, HangUp, sharedVars, CallTypeOK, SharedTypeOK,
       FreshInv, ListInv, Dialling, Placed, Call, JobOf
<1>13. ASSUME NEW c \in Call, UnregisterCall(c) PROVE ListInv'
  BY <1>13 DEF UnregisterCall, Resume, CallTypeOK, SharedTypeOK, FreshInv,
       ListInv, Dialling, Placed, Call, JobOf
<1>14. ASSUME NEW c \in Call,
             FreedAccount(c)
     PROVE  UNCHANGED <<dial, active_calls>>
  BY <1>14 DEF FreedAccount, callVars, sharedVars
<1>15. ASSUME NEW c \in Call,
             Answer(c) \/ Disconnect(c) \/ MediaActive(c) \/ StartPlayback(c) \/
             Eof(c) \/ LaterHangup(c)
     PROVE  UNCHANGED <<dial, active_calls>>
  BY <1>15 DEF Answer, Disconnect, MediaActive, StartPlayback, Eof,
       LaterHangup, callVars, sharedVars
<1>16. ASSUME NEW s \in Stoppers,
             PressStop(s) \/ TakeSnapshot(s) \/ StopHangup(s) \/ StopReturns(s)
     PROVE  UNCHANGED <<dial, active_calls>>
  BY <1>16 DEF PressStop, TakeSnapshot, StopHangup, StopReturns, callVars,
       sharedVars
<1>17. ASSUME DropAccount PROVE ListInv'
  BY <1>17 DEF DropAccount, sharedVars, CallTypeOK, SharedTypeOK, FreshInv,
       ListInv, Dialling, Placed, Call, JobOf
<1>18. ASSUME LibDestroy \/ StartEndpoint \/ StartFails \/ UnknownThread
     PROVE  UNCHANGED <<dial, active_calls>>
  BY <1>18 DEF LibDestroy, StartEndpoint, StartFails, UnknownThread,
       callVars, sharedVars
<1>19. ASSUME Idle \/ UNCHANGED vars PROVE UNCHANGED <<dial, active_calls>>
  BY <1>19 DEF Idle, vars, callVars, sharedVars
<1> QED
  BY <1>1, <1>2, <1>3, <1>4, <1>5, <1>6, <1>7, <1>8, <1>9, <1>10, <1>11,
       <1>12, <1>13, <1>14, <1>15, <1>16, <1>17, <1>18, <1>19
  DEF Next, PageStep, DialStep, LibraryStep, StopStep, RestartStep

\* A call whose event is set is over, and stays so.
LEMMA DoneStep ==
    ASSUME CallTypeOK, FreshInv, DoneInv, [Next]_vars
    PROVE  DoneInv'
<1>1. UNCHANGED <<sip, done>> => DoneInv'
  BY DEF CallTypeOK, FreshInv, DoneInv, Live, Up
<1>2. ASSUME NEW j \in Jobs,
             Trigger(j) \/ Acquire(j) \/ Skip(j) \/ Resolve(j) \/ EnterPage(j) \/
             ResetStop(j) \/ SetActive(j) \/ NextDest(j) \/ SpawnDial(j) \/
             LoopEnds(j) \/ Hide(j) \/ ClearStop(j) \/ Release(j)
     PROVE  UNCHANGED <<sip, done>>
  BY <1>2 DEF Trigger, Acquire, Skip, Resolve, EnterPage, ResetStop,
       SetActive, NextDest, SpawnDial, LoopEnds, Hide, ClearStop, Release,
       callVars
<1>3. ASSUME NEW c \in Call, MakeCall(c) PROVE DoneInv'
  BY <1>3 DEF MakeCall, callVars, CallTypeOK, FreshInv, DoneInv, Live, Up
<1>4. ASSUME NEW c \in Call, ForceHangup(c) PROVE DoneInv'
  BY <1>4 DEF ForceHangup, HangUp, callVars, CallTypeOK, FreshInv, DoneInv,
       Live, Up
<1>5. ASSUME NEW c \in Call,
             RegisterDial(c) \/ Construct(c) \/ ConstructRaises(c) \/
             MakeCallFails(c) \/ FreedAccount(c) \/ RegisterCall(c) \/
             WaitReturns(c) \/ UnregisterCall(c)
     PROVE  UNCHANGED <<sip, done>>
  BY <1>5 DEF RegisterDial, Construct, ConstructRaises, MakeCallFails,
       FreedAccount, RegisterCall, WaitReturns, UnregisterCall, callVars
<1>6. ASSUME NEW c \in Call, Answer(c) PROVE DoneInv'
  BY <1>6 DEF Answer, callVars, CallTypeOK, FreshInv, DoneInv, Live, Up
<1>7. ASSUME NEW c \in Call, Disconnect(c) PROVE DoneInv'
  BY <1>7 DEF Disconnect, CallTypeOK, FreshInv, DoneInv, Live, Up
<1>8. ASSUME NEW c \in Call, StartPlayback(c) PROVE DoneInv'
  BY <1>8 DEF StartPlayback, HangUp, callVars, CallTypeOK, FreshInv, DoneInv,
       Live, Up
<1>9. ASSUME NEW c \in Call, LaterHangup(c) PROVE DoneInv'
  BY <1>9 DEF LaterHangup, HangUp, callVars, CallTypeOK, FreshInv, DoneInv,
       Live, Up
<1>10. ASSUME NEW c \in Call,
             MediaActive(c) \/ Eof(c)
     PROVE  UNCHANGED <<sip, done>>
  BY <1>10 DEF MediaActive, Eof, callVars
<1>11. ASSUME NEW s \in Stoppers, StopHangup(s) PROVE DoneInv'
  BY <1>11 DEF StopHangup, HangUp, callVars, CallTypeOK, FreshInv, DoneInv,
       Live, Up
<1>12. ASSUME NEW s \in Stoppers,
             PressStop(s) \/ TakeSnapshot(s) \/ StopReturns(s)
     PROVE  UNCHANGED <<sip, done>>
  BY <1>12 DEF PressStop, TakeSnapshot, StopReturns, callVars
<1>13. ASSUME LibDestroy PROVE DoneInv'
  BY <1>13 DEF LibDestroy, CallTypeOK, FreshInv, DoneInv, Live, Up
<1>14. ASSUME DropAccount \/ StartEndpoint \/ StartFails \/ UnknownThread
     PROVE  UNCHANGED <<sip, done>>
  BY <1>14 DEF DropAccount, StartEndpoint, StartFails, UnknownThread, callVars
<1>15. ASSUME Idle \/ UNCHANGED vars PROVE UNCHANGED <<sip, done>>
  BY <1>15 DEF Idle, vars, callVars
<1> QED
  BY <1>1, <1>2, <1>3, <1>4, <1>5, <1>6, <1>7, <1>8, <1>9, <1>10, <1>11,
       <1>12, <1>13, <1>14, <1>15
  DEF Next, PageStep, DialStep, LibraryStep, StopStep, RestartStep

\* A call leaves the wait of _dial_one ended or hung up.
LEMMA LiveStep ==
    ASSUME CallTypeOK, FreshInv, DoneInv, LiveInv, [Next]_vars
    PROVE  LiveInv'
<1>1. UNCHANGED <<dial, sip>> => LiveInv'
  BY DEF CallTypeOK, FreshInv, DoneInv, LiveInv, Live, Up, Call, JobOf
<1>2. ASSUME NEW j \in Jobs, NextDest(j) PROVE LiveInv'
  BY <1>2 DEF NextDest, Goto, callVars, CallTypeOK, FreshInv, DoneInv,
       LiveInv, Live, Up, Call, JobOf
<1>3. ASSUME NEW j \in Jobs, SpawnDial(j) PROVE LiveInv'
  BY <1>3 DEF SpawnDial, callVars, CallTypeOK, FreshInv, DoneInv, LiveInv,
       Live, Up, Call, JobOf
<1>4. ASSUME NEW j \in Jobs,
             Trigger(j) \/ Acquire(j) \/ Skip(j) \/ Resolve(j) \/ EnterPage(j) \/
             ResetStop(j) \/ SetActive(j) \/ LoopEnds(j) \/ Hide(j) \/
             ClearStop(j) \/ Release(j)
     PROVE  UNCHANGED <<dial, sip>>
  BY <1>4 DEF Trigger, Acquire, Skip, Resolve, EnterPage, ResetStop,
       SetActive, LoopEnds, Hide, ClearStop, Release, callVars
<1>5. ASSUME NEW c \in Call, RegisterDial(c) PROVE LiveInv'
  BY <1>5 DEF RegisterDial, Register, callVars, CallTypeOK, FreshInv,
       DoneInv, LiveInv, Live, Up, Call, JobOf
<1>6. ASSUME NEW c \in Call, Construct(c) PROVE LiveInv'
  BY <1>6 DEF Construct, callVars, CallTypeOK, FreshInv, DoneInv, LiveInv,
       Live, Up, Call, JobOf
<1>7. ASSUME NEW c \in Call, ConstructRaises(c) PROVE LiveInv'
  BY <1>7 DEF ConstructRaises, callVars, CallTypeOK, FreshInv, DoneInv,
       LiveInv, Live, Up, Call, JobOf
<1>8. ASSUME NEW c \in Call, MakeCall(c) PROVE LiveInv'
  BY <1>8 DEF MakeCall, CallTypeOK, FreshInv, DoneInv, LiveInv, Live, Up,
       Call, JobOf
<1>9. ASSUME NEW c \in Call, MakeCallFails(c) PROVE LiveInv'
  BY <1>9 DEF MakeCallFails, Resume, callVars, CallTypeOK, FreshInv, DoneInv,
       LiveInv, Live, Up, Call, JobOf
<1>10. ASSUME NEW c \in Call, RegisterCall(c) PROVE LiveInv'
  BY <1>10 DEF RegisterCall, callVars, CallTypeOK, FreshInv, DoneInv,
       LiveInv, Live, Up, Call, JobOf
<1>11. ASSUME NEW c \in Call, WaitReturns(c) PROVE LiveInv'
  BY <1>11 DEF WaitReturns, callVars, CallTypeOK, FreshInv, DoneInv, LiveInv,
       Live, Up, Call, JobOf
<1>12. ASSUME NEW c \in Call, ForceHangup(c) PROVE LiveInv'
  BY <1>12 DEF ForceHangup, HangUp, CallTypeOK, FreshInv, DoneInv, LiveInv,
       Live, Up, Call, JobOf
<1>13. ASSUME NEW c \in Call, UnregisterCall(c) PROVE LiveInv'
  BY <1>13 DEF UnregisterCall, Resume, callVars, CallTypeOK, FreshInv,
       DoneInv, LiveInv, Live, Up, Call, JobOf
<1>14. ASSUME NEW c \in Call,
             FreedAccount(c)
     PROVE  UNCHANGED <<dial, sip>>
  BY <1>14 DEF FreedAccount, callVars
<1>15. ASSUME NEW c \in Call, Answer(c) PROVE LiveInv'
  BY <1>15 DEF Answer, callVars, CallTypeOK, FreshInv, DoneInv, LiveInv,
       Live, Up, Call, JobOf
<1>16. ASSUME NEW c \in Call, Disconnect(c) PROVE LiveInv'
  BY <1>16 DEF Disconnect, callVars, CallTypeOK, FreshInv, DoneInv, LiveInv,
       Live, Up, Call, JobOf
<1>17. ASSUME NEW c \in Call, StartPlayback(c) PROVE LiveInv'
  BY <1>17 DEF StartPlayback, HangUp, callVars, CallTypeOK, FreshInv,
       DoneInv, LiveInv, Live, Up, Call, JobOf
<1>18. ASSUME NEW c \in Call, LaterHangup(c) PROVE LiveInv'
  BY <1>18 DEF LaterHangup, HangUp, callVars, CallTypeOK, FreshInv, DoneInv,
       LiveInv, Live, Up, Call, JobOf
<1>19. ASSUME NEW c \in Call,
             MediaActive(c) \/ Eof(c)
     PROVE  UNCHANGED <<dial, sip>>
  BY <1>19 DEF MediaActive, Eof, callVars
<1>20. ASSUME NEW s \in Stoppers, StopHangup(s) PROVE LiveInv'
  BY <1>20 DEF StopHangup, HangUp, callVars, CallTypeOK, FreshInv, DoneInv,
       LiveInv, Live, Up, Call, JobOf
<1>21. ASSUME NEW s \in Stoppers,
             PressStop(s) \/ TakeSnapshot(s) \/ StopReturns(s)
     PROVE  UNCHANGED <<dial, sip>>
  BY <1>21 DEF PressStop, TakeSnapshot, StopReturns, callVars
<1>22. ASSUME DropAccount PROVE LiveInv'
  BY <1>22 DEF DropAccount, callVars, CallTypeOK, FreshInv, DoneInv, LiveInv,
       Live, Up, Call, JobOf
<1>23. ASSUME LibDestroy PROVE LiveInv'
  BY <1>23 DEF LibDestroy, callVars, CallTypeOK, FreshInv, DoneInv, LiveInv,
       Live, Up, Call, JobOf
<1>24. ASSUME StartEndpoint \/ StartFails \/ UnknownThread
     PROVE  UNCHANGED <<dial, sip>>
  BY <1>24 DEF StartEndpoint, StartFails, UnknownThread, callVars
<1>25. ASSUME Idle \/ UNCHANGED vars PROVE UNCHANGED <<dial, sip>>
  BY <1>25 DEF Idle, vars, callVars
<1> QED
  BY <1>1, <1>2, <1>3, <1>4, <1>5, <1>6, <1>7, <1>8, <1>9, <1>10, <1>11,
       <1>12, <1>13, <1>14, <1>15, <1>16, <1>17, <1>18, <1>19, <1>20, <1>21,
       <1>22, <1>23, <1>24, <1>25
  DEF Next, PageStep, DialStep, LibraryStep, StopStep, RestartStep

\* A raised stop flag that a running page can see was raised while it ran.
LEMMA SkipStep ==
    ASSUME PageTypeOK, CallTypeOK, LockInv, DialInv, FreshInv, SkipInv,
      [Next]_vars
    PROVE  SkipInv'
<1>1. UNCHANGED <<pc, todo, raised, pressed, stop_requested>> => SkipInv'
  BY DEF PageTypeOK, CallTypeOK, LockInv, DialInv, FreshInv, SkipInv,
       SkippedOnlyIfStopped, Holding, Dialling, Placed, Call, JobOf
<1>2. ASSUME NEW j \in Jobs, Trigger(j) PROVE SkipInv'
  BY <1>2 DEF Trigger, Goto, pageVars, sharedVars, historyVars, PageTypeOK,
       CallTypeOK, LockInv, DialInv, FreshInv, SkipInv, SkippedOnlyIfStopped,
       Holding, Dialling, Placed, Call, JobOf
<1>3. ASSUME NEW j \in Jobs, Acquire(j) PROVE SkipInv'
  BY <1>3 DEF Acquire, Goto, pageVars, sharedVars, historyVars, PageTypeOK,
       CallTypeOK, LockInv, DialInv, FreshInv, SkipInv, SkippedOnlyIfStopped,
       Holding, Dialling, Placed, Call, JobOf
<1>4. ASSUME NEW j \in Jobs, Skip(j) PROVE SkipInv'
  BY <1>4 DEF Skip, Goto, pageVars, sharedVars, historyVars, PageTypeOK,
       CallTypeOK, LockInv, DialInv, FreshInv, SkipInv, SkippedOnlyIfStopped,
       Holding, Dialling, Placed, Call, JobOf
<1>5. ASSUME NEW j \in Jobs, Resolve(j) PROVE SkipInv'
  BY <1>5 DEF Resolve, Goto, pageVars, sharedVars, historyVars, PageTypeOK,
       CallTypeOK, LockInv, DialInv, FreshInv, SkipInv, SkippedOnlyIfStopped,
       Holding, Dialling, Placed, Call, JobOf
<1>6. ASSUME NEW j \in Jobs, EnterPage(j) PROVE SkipInv'
  BY <1>6 DEF EnterPage, Goto, pageVars, sharedVars, historyVars, PageTypeOK,
       CallTypeOK, LockInv, DialInv, FreshInv, SkipInv, SkippedOnlyIfStopped,
       Holding, Dialling, Placed, Call, JobOf
<1>7. ASSUME NEW j \in Jobs, ResetStop(j) PROVE SkipInv'
  BY <1>7 DEF ResetStop, Goto, Register, pageVars, historyVars, PageTypeOK,
       CallTypeOK, LockInv, DialInv, FreshInv, SkipInv, SkippedOnlyIfStopped,
       Holding, Dialling, Placed, Call, JobOf
<1>8. ASSUME NEW j \in Jobs, SetActive(j) PROVE SkipInv'
  BY <1>8 DEF SetActive, Goto, NoPage, pageVars, sharedVars, historyVars,
       PageTypeOK, CallTypeOK, LockInv, DialInv, FreshInv, SkipInv,
       SkippedOnlyIfStopped, Holding, Dialling, Placed, Call, JobOf
<1>9. ASSUME NEW j \in Jobs, NextDest(j) PROVE SkipInv'
  BY <1>9 DEF NextDest, Goto, pageVars, sharedVars, historyVars, PageTypeOK,
       CallTypeOK, LockInv, DialInv, FreshInv, SkipInv, SkippedOnlyIfStopped,
       Holding, Dialling, Placed, Call, JobOf
<1>10. ASSUME NEW j \in Jobs, SpawnDial(j) PROVE SkipInv'
  BY <1>10 DEF SpawnDial, pageVars, sharedVars, historyVars, PageTypeOK,
       CallTypeOK, LockInv, DialInv, FreshInv, SkipInv, SkippedOnlyIfStopped,
       Holding, Dialling, Placed, Call, JobOf
<1>11. ASSUME NEW j \in Jobs, LoopEnds(j) PROVE SkipInv'
  BY <1>11 DEF LoopEnds, Goto, pageVars, sharedVars, historyVars, PageTypeOK,
       CallTypeOK, LockInv, DialInv, FreshInv, SkipInv, SkippedOnlyIfStopped,
       Holding, Dialling, Placed, Call, JobOf
<1>12. ASSUME NEW j \in Jobs, Hide(j) PROVE SkipInv'
  BY <1>12 DEF Hide, Goto, NoPage, pageVars, sharedVars, historyVars,
       PageTypeOK, CallTypeOK, LockInv, DialInv, FreshInv, SkipInv,
       SkippedOnlyIfStopped, Holding, Dialling, Placed, Call, JobOf
<1>13. ASSUME NEW j \in Jobs, ClearStop(j) PROVE SkipInv'
  BY <1>13 DEF ClearStop, Goto, pageVars, historyVars, PageTypeOK,
       CallTypeOK, LockInv, DialInv, FreshInv, SkipInv, SkippedOnlyIfStopped,
       Holding, Dialling, Placed, Call, JobOf
<1>14. ASSUME NEW j \in Jobs, Release(j) PROVE SkipInv'
  BY <1>14 DEF Release, Goto, pageVars, sharedVars, historyVars, PageTypeOK,
       CallTypeOK, LockInv, DialInv, FreshInv, SkipInv, SkippedOnlyIfStopped,
       Holding, Dialling, Placed, Call, JobOf
<1>15. ASSUME NEW c \in Call, ConstructRaises(c) PROVE SkipInv'
  BY <1>15 DEF ConstructRaises, pageVars, sharedVars, historyVars,
       PageTypeOK, CallTypeOK, LockInv, DialInv, FreshInv, SkipInv,
       SkippedOnlyIfStopped, Holding, Dialling, Placed, Call, JobOf
<1>16. ASSUME NEW c \in Call, MakeCallFails(c) PROVE SkipInv'
  BY <1>16 DEF MakeCallFails, Resume, pageVars, sharedVars, historyVars,
       PageTypeOK, CallTypeOK, LockInv, DialInv, FreshInv, SkipInv,
       SkippedOnlyIfStopped, Holding, Dialling, Placed, Call, JobOf
<1>17. ASSUME NEW c \in Call, UnregisterCall(c) PROVE SkipInv'
  BY <1>17 DEF UnregisterCall, Resume, pageVars, sharedVars, historyVars,
       PageTypeOK, CallTypeOK, LockInv, DialInv, FreshInv, SkipInv,
       SkippedOnlyIfStopped, Holding, Dialling, Placed, Call, JobOf
<1>18. ASSUME NEW c \in Call,
             RegisterDial(c) \/ Construct(c) \/ MakeCall(c) \/ FreedAccount(c) \/
             RegisterCall(c) \/ WaitReturns(c) \/ ForceHangup(c)
     PROVE  UNCHANGED <<pc, todo, raised, pressed, stop_requested>>
  BY <1>18 DEF RegisterDial, Construct, MakeCall, FreedAccount, RegisterCall,
       WaitReturns, ForceHangup, pageVars, sharedVars, historyVars
<1>19. ASSUME NEW c \in Call,
             Answer(c) \/ Disconnect(c) \/ MediaActive(c) \/ StartPlayback(c) \/
             Eof(c) \/ LaterHangup(c)
     PROVE  UNCHANGED <<pc, todo, raised, pressed, stop_requested>>
  BY <1>19 DEF Answer, Disconnect, MediaActive, StartPlayback, Eof,
       LaterHangup, pageVars, sharedVars, historyVars
<1>20. ASSUME NEW s \in Stoppers, PressStop(s) PROVE SkipInv'
  BY <1>20 DEF PressStop, Register, pageVars, PageTypeOK, CallTypeOK,
       LockInv, DialInv, FreshInv, SkipInv, SkippedOnlyIfStopped, Holding,
       Dialling, Placed, Call, JobOf
<1>21. ASSUME NEW s \in Stoppers,
             TakeSnapshot(s) \/ StopHangup(s) \/ StopReturns(s)
     PROVE  UNCHANGED <<pc, todo, raised, pressed, stop_requested>>
  BY <1>21 DEF TakeSnapshot, StopHangup, StopReturns, pageVars, sharedVars,
       historyVars
<1>22. ASSUME DropAccount \/ LibDestroy \/ StartEndpoint \/ StartFails \/
             UnknownThread
     PROVE  UNCHANGED <<pc, todo, raised, pressed, stop_requested>>
  BY <1>22 DEF DropAccount, LibDestroy, StartEndpoint, StartFails,
       UnknownThread, pageVars, sharedVars, historyVars
<1>23. ASSUME Idle \/ UNCHANGED vars PROVE UNCHANGED <<pc, todo, raised,
     pressed, stop_requested>>
  BY <1>23 DEF Idle, vars, pageVars, sharedVars, historyVars
<1> QED
  BY <1>1, <1>2, <1>3, <1>4, <1>5, <1>6, <1>7, <1>8, <1>9, <1>10, <1>11,
       <1>12, <1>13, <1>14, <1>15, <1>16, <1>17, <1>18, <1>19, <1>20, <1>21,
       <1>22, <1>23
  DEF Next, PageStep, DialStep, LibraryStep, StopStep, RestartStep

\* An answer that marks the page shown as connected is the answer to one of
\* its calls.
LEMMA ConnectedStep ==
    ASSUME CallTypeOK, SharedTypeOK, DialInv, FreshInv, ShownInv, LiveInv,
      ConnectedIsReal, [Next]_vars
    PROVE  ConnectedIsReal'
<1>1. UNCHANGED <<sip, active>> => ConnectedIsReal'
  BY DEF CallTypeOK, SharedTypeOK, PageInfo, DialInv, FreshInv, ShownInv,
       LiveInv, ConnectedIsReal, Live, Up, Dialling, Placed, NoPage, Call,
       JobOf
<1>2. ASSUME NEW j \in Jobs, SetActive(j) PROVE ConnectedIsReal'
  BY <1>2 DEF SetActive, Goto, callVars, CallTypeOK, SharedTypeOK, PageInfo,
       DialInv, FreshInv, ShownInv, LiveInv, ConnectedIsReal, Live, Up,
       Dialling, Placed, NoPage, Call, JobOf
<1>3. ASSUME NEW j \in Jobs, Hide(j) PROVE ConnectedIsReal'
  BY <1>3 DEF Hide, Goto, callVars, CallTypeOK, SharedTypeOK, PageInfo,
       DialInv, FreshInv, ShownInv, LiveInv, ConnectedIsReal, Live, Up,
       Dialling, Placed, NoPage, Call, JobOf
<1>4. ASSUME NEW j \in Jobs,
             Trigger(j) \/ Acquire(j) \/ Skip(j) \/ Resolve(j) \/ EnterPage(j) \/
             ResetStop(j) \/ NextDest(j) \/ SpawnDial(j) \/ LoopEnds(j) \/
             ClearStop(j) \/ Release(j)
     PROVE  UNCHANGED <<sip, active>>
  BY <1>4 DEF Trigger, Acquire, Skip, Resolve, EnterPage, ResetStop,
       NextDest, SpawnDial, LoopEnds, ClearStop, Release, callVars, sharedVars
<1>5. ASSUME NEW c \in Call, MakeCall(c) PROVE ConnectedIsReal'
  BY <1>5 DEF MakeCall, sharedVars, CallTypeOK, SharedTypeOK, PageInfo,
       DialInv, FreshInv, ShownInv, LiveInv, ConnectedIsReal, Live, Up,
       Dialling, Placed, NoPage, Call, JobOf
<1>6. ASSUME NEW c \in Call, ForceHangup(c) PROVE ConnectedIsReal'
  BY <1>6 DEF ForceHangup, HangUp, sharedVars, CallTypeOK, SharedTypeOK,
       PageInfo, DialInv, FreshInv, ShownInv, LiveInv, ConnectedIsReal, Live,
       Up, Dialling, Placed, NoPage, Call, JobOf
<1>7. ASSUME NEW c \in Call,
             RegisterDial(c) \/ Construct(c) \/ ConstructRaises(c) \/
             MakeCallFails(c) \/ FreedAccount(c) \/ RegisterCall(c) \/
             WaitReturns(c) \/ UnregisterCall(c)
     PROVE  UNCHANGED <<sip, active>>
  BY <1>7 DEF RegisterDial, Construct, ConstructRaises, MakeCallFails,
       FreedAccount, RegisterCall, WaitReturns, UnregisterCall, callVars,
       sharedVars
<1>8. ASSUME NEW c \in Call, Answer(c) PROVE ConnectedIsReal'
  BY <1>8 DEF Answer, CallTypeOK, SharedTypeOK, PageInfo, DialInv, FreshInv,
       ShownInv, LiveInv, ConnectedIsReal, Live, Up, Dialling, Placed,
       NoPage, Call, JobOf
<1>9. ASSUME NEW c \in Call, Disconnect(c) PROVE ConnectedIsReal'
  BY <1>9 DEF Disconnect, sharedVars, CallTypeOK, SharedTypeOK, PageInfo,
       DialInv, FreshInv, ShownInv, LiveInv, ConnectedIsReal, Live, Up,
       Dialling, Placed, NoPage, Call, JobOf
<1>10. ASSUME NEW c \in Call, StartPlayback(c) PROVE ConnectedIsReal'
  BY <1>10 DEF StartPlayback, HangUp, sharedVars, CallTypeOK, SharedTypeOK,
       PageInfo, DialInv, FreshInv, ShownInv, LiveInv, ConnectedIsReal, Live,
       Up, Dialling, Placed, NoPage, Call, JobOf
<1>11. ASSUME NEW c \in Call, LaterHangup(c) PROVE ConnectedIsReal'
  BY <1>11 DEF LaterHangup, HangUp, sharedVars, CallTypeOK, SharedTypeOK,
       PageInfo, DialInv, FreshInv, ShownInv, LiveInv, ConnectedIsReal, Live,
       Up, Dialling, Placed, NoPage, Call, JobOf
<1>12. ASSUME NEW c \in Call,
             MediaActive(c) \/ Eof(c)
     PROVE  UNCHANGED <<sip, active>>
  BY <1>12 DEF MediaActive, Eof, callVars, sharedVars
<1>13. ASSUME NEW s \in Stoppers, TakeSnapshot(s) PROVE ConnectedIsReal'
  BY <1>13 DEF TakeSnapshot, callVars, CallTypeOK, SharedTypeOK, PageInfo,
       DialInv, FreshInv, ShownInv, LiveInv, ConnectedIsReal, Live, Up,
       Dialling, Placed, NoPage, Call, JobOf
<1>14. ASSUME NEW s \in Stoppers, StopHangup(s) PROVE ConnectedIsReal'
  BY <1>14 DEF StopHangup, HangUp, sharedVars, CallTypeOK, SharedTypeOK,
       PageInfo, DialInv, FreshInv, ShownInv, LiveInv, ConnectedIsReal, Live,
       Up, Dialling, Placed, NoPage, Call, JobOf
<1>15. ASSUME NEW s \in Stoppers,
             PressStop(s) \/ StopReturns(s)
     PROVE  UNCHANGED <<sip, active>>
  BY <1>15 DEF PressStop, StopReturns, callVars, sharedVars
<1>16. ASSUME LibDestroy PROVE ConnectedIsReal'
  BY <1>16 DEF LibDestroy, sharedVars, CallTypeOK, SharedTypeOK, PageInfo,
       DialInv, FreshInv, ShownInv, LiveInv, ConnectedIsReal, Live, Up,
       Dialling, Placed, NoPage, Call, JobOf
<1>17. ASSUME DropAccount \/ StartEndpoint \/ StartFails \/ UnknownThread
     PROVE  UNCHANGED <<sip, active>>
  BY <1>17 DEF DropAccount, StartEndpoint, StartFails, UnknownThread,
       callVars, sharedVars
<1>18. ASSUME Idle \/ UNCHANGED vars PROVE UNCHANGED <<sip, active>>
  BY <1>18 DEF Idle, vars, callVars, sharedVars
<1> QED
  BY <1>1, <1>2, <1>3, <1>4, <1>5, <1>6, <1>7, <1>8, <1>9, <1>10, <1>11,
       <1>12, <1>13, <1>14, <1>15, <1>16, <1>17, <1>18
  DEF Next, PageStep, DialStep, LibraryStep, StopStep, RestartStep

-----------------------------------------------------------------------------
(* The inductive invariant.                                                *)

\* The service starts in a state that satisfies the invariant.
LEMMA InitIInv == Init => IInv
<1> SUFFICES ASSUME Init PROVE IInv
  OBVIOUS
<1>1. TypeOK
  BY DEF Init, TypeOK, PageTypeOK, CallTypeOK, SharedTypeOK, StopTypeOK,
         EngineTypeOK, HistoryTypeOK, PageInfo, NoPage, NoRecord
<1>2. LockInv /\ DialInv /\ FreshInv /\ ListInv /\ DoneInv /\ LiveInv
  BY PagingAssumption DEF Init, LockInv, DialInv, FreshInv, ListInv, DoneInv,
     LiveInv, Holding, Dialling, Placed, Live, Call, JobOf
<1>3. ShownInv /\ SkipInv /\ ConnectedIsReal
  BY PagingAssumption DEF Init, ShownInv, SkipInv, SkippedOnlyIfStopped,
     ConnectedIsReal, NoPage
<1> QED
  BY <1>1, <1>2, <1>3 DEF IInv

\* Every step keeps it.
LEMMA NextIInv == IInv /\ [Next]_vars => IInv'
<1> SUFFICES ASSUME IInv, [Next]_vars PROVE IInv'
  OBVIOUS
<1>1. TypeOK'
  BY PageTypeOKStep, CallTypeOKStep, SharedTypeOKStep, StopTypeOKStep,
     EngineTypeOKStep, HistoryTypeOKStep DEF IInv, TypeOK
<1>2. LockInv' /\ DialInv' /\ FreshInv' /\ ShownInv'
  BY LockStep, DialInvStep, FreshStep, ShownStep DEF IInv, TypeOK
<1>3. ListInv' /\ DoneInv' /\ LiveInv' /\ SkipInv' /\ ConnectedIsReal'
  BY ListStep, DoneStep, LiveStep, SkipStep, ConnectedStep DEF IInv, TypeOK
<1> QED
  BY <1>1, <1>2, <1>3 DEF IInv

\* IInv holds in every reachable state.
LEMMA Invariant == Safety => []IInv
BY InitIInv, NextIInv, PTL DEF Safety

-----------------------------------------------------------------------------
(* The theorems.                                                           *)

\* The variables of the paging path keep their types.
THEOREM TypeCorrect == Safety => []TypeOK
<1>1. IInv => TypeOK
  BY DEF IInv
<1> QED
  BY <1>1, Invariant, PTL

\* Only the page that holds _page_lock dials.
THEOREM PagesTakeTurns == Safety => []OneJobDials
<1>1. ASSUME IInv, NEW c \in Call, dial[c] \in Dialling PROVE page_lock = JobOf(c)
  <2>1. JobOf(c) \in Jobs /\ pc[JobOf(c)] \in {"next", "dialling"}
    BY <1>1 DEF Call, JobOf, IInv, DialInv
  <2> QED
    BY <1>1, <2>1 DEF IInv, LockInv, Holding
<1>2. IInv => OneJobDials
  BY <1>1 DEF OneJobDials
<1> QED
  BY <1>2, Invariant, PTL

\* The page that dials is the one _active_page shows: no other page, stop or
\* restart replaces it before its last destination is over.
THEOREM DiallingShown == Safety => []DiallingIsShown
<1>1. ASSUME IInv, NEW c \in Call, dial[c] \in Dialling PROVE active.job = JobOf(c)
  <2>1. JobOf(c) \in Jobs /\ pc[JobOf(c)] \in {"next", "dialling"}
    BY <1>1 DEF Call, JobOf, IInv, DialInv
  <2> QED
    BY <1>1, <2>1 DEF IInv, ShownInv, Holding
<1>2. IInv => DiallingIsShown
  BY <1>1 DEF DiallingIsShown
<1> QED
  BY <1>2, Invariant, PTL

\* While hang-ups work, no call outlives its page on the line: the one that
\* rings or plays is the lock holder's.
THEOREM NoCallIsLeftBehind == Safety => []LiveCallIsOwned
<1>1. ASSUME IInv PROVE LiveCallIsOwned
  <2> SUFFICES ASSUME ~Refusals, NEW c \in Call, sip[c] \in Live
               PROVE  page_lock = JobOf(c)
    BY DEF LiveCallIsOwned
  <2>1. JobOf(c) \in Jobs
    BY DEF Call, JobOf
  <2>2. dial[c] \in Dialling
    BY <1>1 DEF IInv, LiveInv, Dialling, Placed
  <2>3. pc[JobOf(c)] \in {"next", "dialling"}
    BY <1>1, <2>2 DEF IInv, DialInv
  <2> QED
    BY <1>1, <2>1, <2>3 DEF IInv, LockInv, Holding
<1> QED
  BY <1>1, Invariant, PTL

\* Between two pages nothing of the last one is left in the shared fields.
THEOREM LineIsLeftClean == Safety => []IdleLineIsClean
<1>1. ASSUME IInv PROVE IdleLineIsClean
  <2> SUFFICES ASSUME page_lock = NoJob
               PROVE  active = NoPage /\ active_calls = {}
    BY DEF IdleLineIsClean
  <2>1. \A j \in Jobs : pc[j] \notin Holding
    BY <1>1, PagingAssumption DEF IInv, LockInv
  <2>2. active.job \in Jobs \cup {NoJob}
    BY <1>1 DEF IInv, TypeOK, SharedTypeOK, PageInfo
  <2>3. active = NoPage
    BY <1>1, <2>1, <2>2 DEF IInv, ShownInv, Holding
  <2>4. \A c \in Call : JobOf(c) \in Jobs
    BY DEF Call, JobOf
  <2>5. \A c \in Call : dial[c] \notin Dialling
    BY <1>1, <2>1, <2>4 DEF IInv, DialInv, Holding
  <2>6. active_calls = {}
    BY <1>1, <2>5 DEF IInv, TypeOK, SharedTypeOK, ListInv, Dialling, Placed
  <2> QED
    BY <2>3, <2>6
<1> QED
  BY <1>1, Invariant, PTL

\* A page cut short raised, or was stopped while it ran.
THEOREM NoPageIsCutShort == Safety => []SkippedOnlyIfStopped
<1>1. IInv => SkippedOnlyIfStopped
  BY DEF IInv, SkipInv
<1> QED
  BY <1>1, Invariant, PTL

\* The dashboard's "connected" is never due to a call of another page.
THEOREM ConnectedIsTrue == Safety => []ConnectedIsReal
<1>1. IInv => ConnectedIsReal
  BY DEF IInv
<1> QED
  BY <1>1, Invariant, PTL

-----------------------------------------------------------------------------
(* Paging implements PageLine.                                             *)

\* Paging starts as PageLine does: the line free, no call placed.
LEMMA InitRefines == Init => Line!Init
BY DEF Init, Line!Init, NoRecord, Placed, Call, LinePhase, LineCalls, LineTried

\* Every step of Paging is a step of PageLine or leaves its state unchanged.
LEMMA NextRefines ==
    ASSUME IInv, [Next]_vars
    PROVE  [Line!Next]_(Line!lineVars)
<1> DEFINE Quiet == UNCHANGED <<page_lock, LinePhase, LineCalls, LineTried, last_page>>
<1>1. PageTypeOK /\ CallTypeOK
  BY DEF IInv, TypeOK
<1>2. UNCHANGED <<pc, dial, sip, page_lock, last_page>> => Quiet
  BY DEF LinePhase, LineCalls, LineTried
\* A page outside its loop that has the line waits for no call.
<1>3. ASSUME NEW j \in Jobs, pc[j] \in {"resolve", "record"}
      PROVE  page_lock = j /\ LineCalls = {}
  <2>1. \A c \in Call : JobOf(c) \in Jobs
    BY DEF Call, JobOf
  <2>2. page_lock = j /\ \A k \in Jobs : pc[k] \in Holding => k = j
    BY <1>3 DEF IInv, LockInv, Holding
  <2>3. \A c \in Call : dial[c] \in Dialling =>
            pc[JobOf(c)] \in {"next", "dialling"}
    BY DEF IInv, DialInv
  <2>4. \A c \in Call : dial[c] \notin Dialling
    BY <1>3, <2>1, <2>2, <2>3 DEF Holding
  <2> QED
    BY <2>2, <2>4 DEF LineCalls, Dialling
<1>4. ASSUME NEW j \in Jobs, Trigger(j) PROVE Line!Ask(j)
  BY <1>1, <1>4 DEF Trigger, Goto, Line!Ask, callVars, sharedVars,
     PageTypeOK, LinePhase, LineCalls, LineTried
<1>5. ASSUME NEW j \in Jobs, Acquire(j) PROVE Line!Take(j)
  BY <1>1, <1>5 DEF Acquire, Goto, Line!Take, callVars, sharedVars,
     PageTypeOK, LinePhase, LineCalls, LineTried
<1>6. ASSUME NEW j \in Jobs, Skip(j) PROVE Line!Give(j)
  <2>1. page_lock = j /\ LineCalls = {}
    BY <1>3, <1>6 DEF Skip, Goto
  <2>2. LinePhase' = [LinePhase EXCEPT ![j] = "over"]
    BY <1>1, <1>6 DEF Skip, Goto, PageTypeOK, LinePhase
  <2>3. LineCalls' = LineCalls /\ LineTried' = LineTried
    BY <1>6 DEF Skip, callVars, LineCalls, LineTried
  <2>4. /\ page_lock' = NoJob
        /\ \E ok \in BOOLEAN : last_page' = [job |-> j, ok |-> ok]
    BY <1>6 DEF Skip
  <2> QED
    BY <2>1, <2>2, <2>3, <2>4 DEF Line!Give
<1>7. ASSUME NEW j \in Jobs, Resolve(j) PROVE Quiet
  BY <1>1, <1>7 DEF Resolve, Goto, callVars, sharedVars, PageTypeOK,
       CallTypeOK, LinePhase, LineCalls, LineTried, Placed, Live, Up, Call,
       JobOf
<1>8. ASSUME NEW j \in Jobs, EnterPage(j) PROVE Quiet
  BY <1>1, <1>8 DEF EnterPage, Goto, callVars, sharedVars, PageTypeOK,
       CallTypeOK, LinePhase, LineCalls, LineTried, Placed, Live, Up, Call,
       JobOf
<1>9. ASSUME NEW j \in Jobs, ResetStop(j) PROVE Quiet
  BY <1>1, <1>9 DEF ResetStop, Goto, Register, callVars, sharedVars,
       PageTypeOK, CallTypeOK, LinePhase, LineCalls, LineTried, Placed, Live,
       Up, Call, JobOf
<1>10. ASSUME NEW j \in Jobs, SetActive(j) PROVE Quiet
  BY <1>1, <1>10 DEF SetActive, Goto, callVars, sharedVars, PageTypeOK,
       CallTypeOK, LinePhase, LineCalls, LineTried, Placed, Live, Up, Call,
       JobOf
<1>11. ASSUME NEW j \in Jobs, NextDest(j) PROVE Quiet
  BY <1>1, <1>11 DEF IInv, DialInv, FreshInv, Dialling, NextDest, Goto,
       callVars, sharedVars, PageTypeOK, CallTypeOK, LinePhase, LineCalls,
       LineTried, Placed, Live, Up, Call, JobOf
<1>12. ASSUME NEW j \in Jobs, SpawnDial(j) PROVE Quiet
  BY <1>1, <1>12 DEF IInv, DialInv, FreshInv, Dialling, SpawnDial, pageVars,
       callVars, sharedVars, PageTypeOK, CallTypeOK, LinePhase, LineCalls,
       LineTried, Placed, Live, Up, Call, JobOf
<1>13. ASSUME NEW j \in Jobs, LoopEnds(j) PROVE Quiet
  BY <1>1, <1>13 DEF LoopEnds, Goto, callVars, sharedVars, PageTypeOK,
       CallTypeOK, LinePhase, LineCalls, LineTried, Placed, Live, Up, Call,
       JobOf
<1>14. ASSUME NEW j \in Jobs, Hide(j) PROVE Quiet
  BY <1>1, <1>14 DEF Hide, Goto, callVars, sharedVars, PageTypeOK,
       CallTypeOK, LinePhase, LineCalls, LineTried, Placed, Live, Up, Call,
       JobOf
<1>15. ASSUME NEW j \in Jobs, ClearStop(j) PROVE Quiet
  BY <1>1, <1>15 DEF ClearStop, Goto, callVars, sharedVars, PageTypeOK,
       CallTypeOK, LinePhase, LineCalls, LineTried, Placed, Live, Up, Call,
       JobOf
<1>16. ASSUME NEW j \in Jobs, Release(j) PROVE Line!Give(j)
  <2>1. page_lock = j /\ LineCalls = {}
    BY <1>3, <1>16 DEF Release, Goto
  <2>2. LinePhase' = [LinePhase EXCEPT ![j] = "over"]
    BY <1>1, <1>16 DEF Release, Goto, PageTypeOK, LinePhase
  <2>3. LineCalls' = LineCalls /\ LineTried' = LineTried
    BY <1>16 DEF Release, callVars, LineCalls, LineTried
  <2>4. /\ page_lock' = NoJob
        /\ \E ok \in BOOLEAN : last_page' = [job |-> j, ok |-> ok]
    BY <1>16 DEF Release
  <2> QED
    BY <2>1, <2>2, <2>3, <2>4 DEF Line!Give
<1>17. ASSUME NEW c \in Call, RegisterDial(c) PROVE Quiet
  BY <1>1, <1>17 DEF RegisterDial, Register, pageVars, callVars, sharedVars,
       PageTypeOK, CallTypeOK, LinePhase, LineCalls, LineTried, Placed, Live,
       Up, Call, JobOf
<1>18. ASSUME NEW c \in Call, Construct(c) PROVE Quiet
  BY <1>1, <1>18 DEF Construct, pageVars, callVars, sharedVars, PageTypeOK,
       CallTypeOK, LinePhase, LineCalls, LineTried, Placed, Live, Up, Call,
       JobOf
<1>19. ASSUME NEW c \in Call, ConstructRaises(c) PROVE Quiet
  BY <1>1, <1>19 DEF IInv, DialInv, FreshInv, Dialling, ConstructRaises,
       callVars, sharedVars, PageTypeOK, CallTypeOK, LinePhase, LineCalls,
       LineTried, Placed, Live, Up, Call, JobOf
<1>20. ASSUME NEW c \in Call, MakeCall(c)
     PROVE  \E j \in Jobs, d \in Dests : Line!Place(j, d)
  <2>1. PICK j \in Jobs, d \in Dests : c = <<j, d>>
    BY DEF Call
  <2>2. page_lock = j /\ c \notin LineTried
    BY <1>20, <2>1 DEF MakeCall, IInv, LockInv, DialInv, FreshInv, Holding,
       Dialling, JobOf, LineTried
  <2>3. LineCalls' = LineCalls \cup {c} /\ LineTried' = LineTried \cup {c}
    BY <1>1, <1>20 DEF MakeCall, CallTypeOK, LineCalls, LineTried, Placed
  <2>4. UNCHANGED <<page_lock, LinePhase, last_page>>
    BY <1>20 DEF MakeCall, pageVars, sharedVars, LinePhase
  <2> QED
    BY <2>1, <2>2, <2>3, <2>4 DEF Line!Place
<1>21. ASSUME NEW c \in Call, MakeCallFails(c) PROVE Quiet
  BY <1>1, <1>21 DEF MakeCallFails, Resume, callVars, sharedVars, PageTypeOK,
       CallTypeOK, LinePhase, LineCalls, LineTried, Placed, Live, Up, Call,
       JobOf
<1>22. ASSUME NEW c \in Call, RegisterCall(c) PROVE Quiet
  BY <1>1, <1>22 DEF RegisterCall, pageVars, callVars, sharedVars,
       PageTypeOK, CallTypeOK, LinePhase, LineCalls, LineTried, Placed, Live,
       Up, Call, JobOf
<1>23. ASSUME NEW c \in Call, WaitReturns(c) PROVE Quiet
  BY <1>1, <1>23 DEF WaitReturns, pageVars, callVars, sharedVars, PageTypeOK,
       CallTypeOK, LinePhase, LineCalls, LineTried, Placed, Live, Up, Call,
       JobOf
<1>24. ASSUME NEW c \in Call, ForceHangup(c) PROVE Quiet
  BY <1>1, <1>24 DEF ForceHangup, HangUp, pageVars, sharedVars, PageTypeOK,
       CallTypeOK, LinePhase, LineCalls, LineTried, Placed, Live, Up, Call,
       JobOf
<1>25. ASSUME NEW c \in Call, UnregisterCall(c)
     PROVE  \E k \in LineCalls : Line!Return(k)
  <2>1. c \in LineCalls /\ LineCalls' = LineCalls \ {c}
    BY <1>1, <1>25 DEF UnregisterCall, CallTypeOK, LineCalls, Placed
  <2>2. UNCHANGED <<page_lock, LinePhase, LineTried, last_page>>
    BY <1>1, <1>25 DEF UnregisterCall, Resume, PageTypeOK, LinePhase, LineTried
  <2> QED
    BY <2>1, <2>2 DEF Line!Return
<1>26. ASSUME NEW c \in Call, FreedAccount(c) PROVE UNCHANGED <<pc, dial,
       sip, page_lock, last_page>>
  BY <1>26 DEF FreedAccount, pageVars, callVars, sharedVars
<1>27. ASSUME NEW c \in Call, Answer(c) PROVE Quiet
  BY <1>1, <1>27 DEF Answer, pageVars, callVars, sharedVars, PageTypeOK,
       CallTypeOK, LinePhase, LineCalls, LineTried, Placed, Live, Up, Call,
       JobOf
<1>28. ASSUME NEW c \in Call, Disconnect(c) PROVE Quiet
  BY <1>1, <1>28 DEF Disconnect, pageVars, callVars, sharedVars, PageTypeOK,
       CallTypeOK, LinePhase, LineCalls, LineTried, Placed, Live, Up, Call,
       JobOf
<1>29. ASSUME NEW c \in Call, StartPlayback(c) PROVE Quiet
  BY <1>1, <1>29 DEF StartPlayback, HangUp, pageVars, callVars, sharedVars,
       PageTypeOK, CallTypeOK, LinePhase, LineCalls, LineTried, Placed, Live,
       Up, Call, JobOf
<1>30. ASSUME NEW c \in Call, LaterHangup(c) PROVE Quiet
  BY <1>1, <1>30 DEF LaterHangup, HangUp, pageVars, callVars, sharedVars,
       PageTypeOK, CallTypeOK, LinePhase, LineCalls, LineTried, Placed, Live,
       Up, Call, JobOf
<1>31. ASSUME NEW c \in Call, MediaActive(c) \/ Eof(c)
     PROVE  UNCHANGED <<pc, dial, sip, page_lock, last_page>>
  BY <1>31 DEF MediaActive, Eof, pageVars, callVars, sharedVars
<1>32. ASSUME NEW s \in Stoppers, StopHangup(s) PROVE Quiet
  BY <1>1, <1>32 DEF StopHangup, HangUp, pageVars, callVars, sharedVars,
       PageTypeOK, CallTypeOK, LinePhase, LineCalls, LineTried, Placed, Live,
       Up, Call, JobOf
<1>33. ASSUME NEW s \in Stoppers, PressStop(s) \/ TakeSnapshot(s) \/ StopReturns(s)
     PROVE  UNCHANGED <<pc, dial, sip, page_lock, last_page>>
  BY <1>33 DEF PressStop, TakeSnapshot, StopReturns, pageVars, callVars,
       sharedVars
<1>34. ASSUME DropAccount PROVE Quiet
  BY <1>1, <1>34 DEF DropAccount, pageVars, callVars, sharedVars, PageTypeOK,
       CallTypeOK, LinePhase, LineCalls, LineTried, Placed, Live, Up, Call,
       JobOf
<1>35. ASSUME LibDestroy PROVE Quiet
  BY <1>1, <1>35 DEF LibDestroy, pageVars, callVars, sharedVars, PageTypeOK,
       CallTypeOK, LinePhase, LineCalls, LineTried, Placed, Live, Up, Call,
       JobOf
<1>36. ASSUME StartEndpoint \/ StartFails \/ UnknownThread
     PROVE  UNCHANGED <<pc, dial, sip, page_lock, last_page>>
  BY <1>36 DEF StartEndpoint, StartFails, UnknownThread, pageVars, callVars,
       sharedVars
<1>37. ASSUME Idle \/ UNCHANGED vars
     PROVE  UNCHANGED <<pc, dial, sip, page_lock, last_page>>
  BY <1>37 DEF Idle, vars, pageVars, callVars, sharedVars
<1> QED
  BY <1>2, <1>4, <1>5, <1>6, <1>7, <1>8, <1>9, <1>10, <1>11, <1>12, <1>13,
       <1>14, <1>15, <1>16, <1>17, <1>18, <1>19, <1>20, <1>21, <1>22, <1>23,
       <1>24, <1>25, <1>26, <1>27, <1>28, <1>29, <1>30, <1>31, <1>32, <1>33,
       <1>34, <1>35, <1>36, <1>37
  DEF Next, PageStep, DialStep, LibraryStep, StopStep, RestartStep, Line!Next, Line!lineVars

\* Pages take turns on the line as PageLine says.
THEOREM Refinement == Safety => ImplementsPageLine
<1>1. IInv /\ [Next]_vars => [Line!Next]_(Line!lineVars)
  BY NextRefines
<1> QED
  BY <1>1, Invariant, InitRefines, PTL DEF Safety, ImplementsPageLine, Line!Spec
=============================================================================
