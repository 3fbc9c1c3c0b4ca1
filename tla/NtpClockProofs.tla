--------------------------- MODULE NtpClockProofs ---------------------------
(***************************************************************************)
(* What NtpClock promises for any number of operators' threads, any errors *)
(* of the host's clock and any lag of a step.  LoneInv is the argument: a  *)
(* sync that is alone carries the very error of the clock from its request *)
(* to its end, and as long as the corrected time counts as settled every   *)
(* sync that runs is alone.                                                *)
(***************************************************************************)
EXTENDS NtpClock, TLAPS

\* What a lone sync of thread t knows of the clock.
Knows(t) ==
    /\ pc[t] = "store" => meas[t] = -clockErr
    /\ pc[t] = "step" => offset = -clockErr
    /\ pc[t] = "zero" => -MaxLag <= clockErr /\ clockErr <= 0

LoneInv ==
    /\ \A t \in Threads : alone[t] /\ pc[t] # "idle" =>
          /\ Knows(t)
          /\ \A u \in Threads \ {t} : pc[u] = "idle"
    /\ \A t \in Threads : settled /\ pc[t] # "idle" => alone[t]

IInv == TypeOK /\ LoneInv /\ SettledIsRight

-----------------------------------------------------------------------------
LEMMA Kinds ==
    ASSUME TypeOK
    PROVE  clockErr \in Int /\ offset \in Int /\ \A t \in Threads : meas[t] \in Int
<1>1. Offsets \cup {0} \subseteq Int
  BY NtpAssumption DEF Offsets
<1>2. clockErr \in Int
  BY NtpAssumption DEF TypeOK
<1> QED BY <1>1, <1>2 DEF TypeOK

\* The error of the clock can be measured, and stored.
LEMMA Measured ==
    ASSUME TypeOK
    PROVE  -clockErr \in Offsets
<1>1. CASE clockErr \in Errs
  BY <1>1 DEF Offsets
<1>2. CASE \E l \in 0 .. MaxLag : clockErr = -l
  BY <1>2, NtpAssumption DEF Offsets
<1> QED BY <1>1, <1>2 DEF TypeOK

LEMMA InitHasInv ==
    ASSUME Init
    PROVE  IInv
<1> USE NtpAssumption DEF Init
<1>1. conf \in Confs /\ cfg \in [Threads -> Confs]
  OBVIOUS
<1>2. /\ clockErr \in Errs /\ jumps \in 0 .. MaxJumps
      /\ offset \in Offsets \cup {0} /\ meas \in [Threads -> Offsets \cup {0}]
      /\ pc \in [Threads -> {"idle", "request", "store", "step", "zero"}]
  OBVIOUS
<1>3. /\ alone \in [Threads -> BOOLEAN] /\ settled \in BOOLEAN
      /\ lastSync \in BOOLEAN /\ lastError \in BOOLEAN
  OBVIOUS
<1>4. TypeOK
  BY <1>1, <1>2, <1>3 DEF TypeOK
<1>5. LoneInv /\ SettledIsRight
  BY DEF LoneInv, SettledIsRight
<1> QED BY <1>4, <1>5 DEF IInv

LEMMA TypeKept ==
    ASSUME TypeOK, [Next]_vars
    PROVE  TypeOK'
<1> USE NtpAssumption DEF TypeOK, Goto, Ends, statusVars
<1>1. ASSUME NEW t \in Threads, BeginSync(t)
      PROVE  TypeOK'
  BY <1>1 DEF BeginSync, Idle
<1>2. ASSUME NEW t \in Threads, Request(t)
      PROVE  TypeOK'
  BY <1>2, Measured DEF Request
<1>3. ASSUME NEW t \in Threads, RequestFails(t)
      PROVE  TypeOK'
  BY <1>3 DEF RequestFails
<1>4. ASSUME NEW t \in Threads, Store(t)
      PROVE  TypeOK'
  BY <1>4 DEF Store
<1>5. ASSUME NEW t \in Threads, Step(t)
      PROVE  TypeOK'
  BY <1>5 DEF Step
<1>6. ASSUME NEW t \in Threads, StepFails(t)
      PROVE  TypeOK'
  BY <1>6 DEF StepFails
<1>7. ASSUME NEW t \in Threads, Zero(t)
      PROVE  TypeOK'
  BY <1>7 DEF Zero
<1>11. ASSUME NEW t \in Threads, StoreRaises(t)
       PROVE  TypeOK'
  BY <1>11 DEF StoreRaises
<1>8. CASE SaveConf
  BY <1>8 DEF SaveConf
<1>9. CASE HostSetsClock
  <2>1. jumps' \in 0 .. MaxJumps /\ alone' \in [Threads -> BOOLEAN] /\ settled' = FALSE
    BY <1>9 DEF HostSetsClock
  <2>2. clockErr' \in Errs \cup {-l : l \in 0 .. MaxLag}
    BY <1>9 DEF HostSetsClock
  <2>3. UNCHANGED <<offset, lastSync, lastError, conf, pc, cfg, meas>>
    BY <1>9 DEF HostSetsClock
  <2> QED BY <2>1, <2>2, <2>3
<1>10. CASE UNCHANGED vars
  BY <1>10 DEF vars
<1> QED BY <1>1, <1>2, <1>3, <1>4, <1>5, <1>6, <1>7, <1>8, <1>9, <1>10, <1>11 DEF Next, InSync

LEMMA InvKept ==
    ASSUME IInv, [Next]_vars
    PROVE  LoneInv' /\ SettledIsRight'
<1>1. /\ TypeOK /\ LoneInv /\ SettledIsRight
      /\ clockErr \in Int /\ offset \in Int /\ MaxLag \in Nat
      /\ \A t \in Threads : meas[t] \in Int
      /\ pc \in [Threads -> {"idle", "request", "store", "step", "zero"}]
      /\ alone \in [Threads -> BOOLEAN]
  BY Kinds, NtpAssumption DEF IInv, TypeOK
<1> USE <1>1 DEF LoneInv, Knows, SettledIsRight, Right, CorrectedErr, Abs, Goto, Ends
<1>2. ASSUME NEW t \in Threads, BeginSync(t)
      PROVE  LoneInv' /\ SettledIsRight'
  BY <1>2 DEF BeginSync, Idle
<1>3. ASSUME NEW t \in Threads, Request(t)
      PROVE  LoneInv' /\ SettledIsRight'
  BY <1>3 DEF Request, TypeOK
<1>4. ASSUME NEW t \in Threads, RequestFails(t)
      PROVE  LoneInv' /\ SettledIsRight'
  BY <1>4 DEF RequestFails
<1>5. ASSUME NEW t \in Threads, Store(t)
      PROVE  LoneInv' /\ SettledIsRight'
  BY <1>5 DEF Store
<1>6. ASSUME NEW t \in Threads, Step(t)
      PROVE  LoneInv' /\ SettledIsRight'
  BY <1>6 DEF Step
<1>7. ASSUME NEW t \in Threads, StepFails(t)
      PROVE  LoneInv' /\ SettledIsRight'
  BY <1>7 DEF StepFails
<1>8. ASSUME NEW t \in Threads, Zero(t)
      PROVE  LoneInv' /\ SettledIsRight'
  BY <1>8 DEF Zero
<1>12. ASSUME NEW t \in Threads, StoreRaises(t)
       PROVE  LoneInv' /\ SettledIsRight'
  BY <1>12 DEF StoreRaises
<1>9. CASE SaveConf
  BY <1>9 DEF SaveConf
<1>10. CASE HostSetsClock
  BY <1>10 DEF HostSetsClock
<1>11. CASE UNCHANGED vars
  BY <1>11 DEF vars
<1> QED BY <1>2, <1>3, <1>4, <1>5, <1>6, <1>7, <1>8, <1>9, <1>10, <1>11, <1>12
    DEF Next, InSync

-----------------------------------------------------------------------------
\* The invariant holds in every reachable state.
THEOREM SpecKeepsInv == Spec => []IInv
<1>1. Init => IInv
  BY InitHasInv
<1>2. IInv /\ [Next]_vars => IInv'
  BY TypeKept, InvKept DEF IInv
<1> QED BY <1>1, <1>2, PTL DEF Spec, Safety

\* Every stored offset answers an error of the clock that the host or a step
\* gave it (the assignment in sync_once).
THEOREM TypeCorrect == Spec => []TypeOK
<1>1. IInv => TypeOK
  BY DEF IInv
<1> QED BY <1>1, SpecKeepsInv, PTL

\* After a sync that ran alone the corrected time is right until another
\* overlaps it or the host moves the clock (sync_once, _try_step_system_clock).
THEOREM SettledRight == Spec => []SettledIsRight
<1>1. IInv => SettledIsRight
  BY DEF IInv
<1> QED BY <1>1, SpecKeepsInv, PTL
=============================================================================
